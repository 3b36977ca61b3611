-------------------------- MODULE OutputSupervisor --------------------------
(***************************************************************************)
(* The output supervisor and its workers (the path outputs take when there *)
(* is no shared encoder): one process per output, which is started,        *)
(* watched, restarted and stopped by the server, and which receives the    *)
(* composed frames and the audio over a socket.                            *)
(*                                                                         *)
(* Four kinds of threads touch an entry without a lock of the supervisor:  *)
(* the main loop (watches and timers), the clients' threads (start, stop,  *)
(* update, and the shutdown of all outputs when a configuration is         *)
(* imported), and the router's export and audio threads, which send.  A    *)
(* callback, a call and a stage of the shutdown are one step each; the     *)
(* sender's look at an entry, its send and its reaction to a broken pipe   *)
(* are steps of their own.  Timers fire in any order.                      *)
(*                                                                         *)
(* The worker is modelled with its answer to SIGTERM, which depends on how *)
(* far it has started, and with what it does with each message.            *)
(***************************************************************************)
EXTENDS Integers, Sequences, FiniteSets

CONSTANTS
    Output,       \* output ids
    MaxAttempts,  \* MAX_RESTART_ATTEMPTS
    SocketRoom,   \* messages that fit into a socket's buffers
    FdLimit,      \* descriptors the process may open for frames
    NoOutput      \* no entry in the sender's hands

ASSUME AttemptsAssumption == MaxAttempts \in Nat \ {0}
ASSUME RoomAssumption == SocketRoom \in Nat \ {0}
ASSUME FdAssumption == FdLimit \in Nat
ASSUME NoOutputAssumption == NoOutput \notin Output

VARIABLES
    entry,   \* per output: its sbs_output_entry
    proc,    \* per output: its worker process
    dialed,  \* per output: the worker has connected to the listening socket
    inbox,   \* per output: messages in the socket, not read by the worker
    sender,  \* the thread that holds the router's supervisor_send_lock
    leaked,  \* duplicates of frame descriptors that were sent and not closed
    drain,   \* shutdown_all: its stage, who runs it and its list of entries
    main     \* the main thread

vars == <<entry, proc, dialed, inbox, sender, leaked, drain, main>>

Msg == {"frame", "audio", "shutdown"}
Live == {"boot",   \* until the signal handlers are installed
         "ready",  \* handlers installed, main loop not running yet
         "run",    \* in the main loop
         "deaf",   \* told to shut down before its main loop ran
         "finish"} \* left the main loop: end of stream, then exit

NoEntry ==
    [present |-> FALSE,    \* in the table of outputs
     pid |-> FALSE,        \* pid > 0
     listen |-> FALSE,     \* listen_fd >= 0
     conn |-> FALSE,       \* conn_fd >= 0
     connected |-> FALSE,
     io |-> "none",        \* what io_watch_id watches: "listen", "conn"
     child |-> FALSE,      \* child_watch_id # 0
     accept |-> FALSE,     \* accept_timer_id # 0
     stable |-> FALSE,     \* stable_timer_id # 0
     restart |-> FALSE,    \* restart_timer_id # 0
     shutting |-> FALSE,   \* shutting_down
     attempts |-> 0]       \* restart_attempts

IdleSender == [pc |-> "idle", kind |-> "frame", out |-> NoOutput,
               freed |-> FALSE]
NotDraining == [stage |-> "none", by |-> "client", list |-> {}]

Init ==
    /\ entry = [o \in Output |-> NoEntry]
    /\ proc = [o \in Output |-> "none"]
    /\ dialed = [o \in Output |-> FALSE]
    /\ inbox = [o \in Output |-> <<>>]
    /\ sender = IdleSender
    /\ leaked = 0
    /\ drain = NotDraining
    /\ main = "loop"

-----------------------------------------------------------------------------
(* What the code does to an entry and to a process.                        *)

\* output_entry_launch: the socket, the process and the watches; when the
\* worker has connected already (fast) it is accepted at once.
Launched(e, fast) ==
    [e EXCEPT !.pid = TRUE, !.listen = TRUE, !.child = TRUE, !.conn = fast,
              !.connected = fast, !.accept = ~fast, !.stable = fast,
              !.io = IF fast THEN "conn" ELSE "listen"]

\* output_entry_cleanup_worker
Cleaned(e) ==
    [NoEntry EXCEPT !.present = e.present, !.shutting = e.shutting,
                    !.attempts = e.attempts]

\* Mutant of Scheduled: the timer of the last attempt is not armed.
ScheduledShort(e) ==
    [e EXCEPT !.attempts = @ + 1, !.restart = e.attempts + 1 < MaxAttempts]
\* schedule_restart: one more attempt, unless there have been too many.
Scheduled(e) ==
    [e EXCEPT !.attempts = @ + 1, !.restart = e.attempts + 1 <= MaxAttempts]

\* The process after SIGKILL, and what SIGTERM may make of it: on_signal sets
\* shutting_down and quits the main loop only if it runs already.
SigKilled(p) == IF p \in Live THEN "exited" ELSE p
SigTermed(p) ==
    CASE p = "boot"  -> {"exited"}
      [] p = "ready" -> {"deaf"}
      [] p = "run"   -> {"finish"}
      [] p = "deaf"  -> {"deaf", "finish"}
      [] OTHER       -> {p}

\* sbs_ipc_send_msg to an output: MSG_DONTWAIT, nothing when there is no room
\* or no reader.
Sent(o, m) ==
    IF entry[o].conn /\ proc[o] \in Live /\ Len(inbox[o]) < SocketRoom
    THEN Append(inbox[o], m) ELSE inbox[o]

\* A fork and the worker's side of a fresh socket.
Forked(o, fast) ==
    /\ proc' = [proc EXCEPT ![o] = "boot"]
    /\ dialed' = [dialed EXCEPT ![o] = fast]
    /\ inbox' = [inbox EXCEPT ![o] = <<>>]

\* Mutant of Freed: the worker is not killed.
FreedUnkilled(S) ==
    /\ entry' = [o \in Output |-> IF o \in S THEN NoEntry ELSE entry[o]]
    /\ UNCHANGED proc
    /\ dialed' = [o \in Output |-> o \notin S /\ dialed[o]]
    /\ inbox' = [o \in Output |-> IF o \in S THEN <<>> ELSE inbox[o]]
    /\ sender' = [sender EXCEPT !.freed = @ \/ sender.out \in S]
\* output_entry_free of the entries S: the worker is killed and waited for,
\* the watches and timers are removed, the sockets closed.  The sender may
\* hold a pointer to one of them.
Freed(S) ==
    /\ entry' = [o \in Output |-> IF o \in S THEN NoEntry ELSE entry[o]]
    /\ proc' = [o \in Output |-> IF o \in S /\ entry[o].pid THEN "none"
                                 ELSE proc[o]]
    /\ dialed' = [o \in Output |-> o \notin S /\ dialed[o]]
    /\ inbox' = [o \in Output |-> IF o \in S THEN <<>> ELSE inbox[o]]
    /\ sender' = [sender EXCEPT !.freed = @ \/ sender.out \in S]

-----------------------------------------------------------------------------
(* Calls of the clients' threads.                                          *)

\* sbs_output_supervisor_start_output: a second start of an id is refused; a
\* failed launch removes the new entry and leaves nothing.
StartOutput(o, fast) ==
    /\ main # "freed"
    /\ ~entry[o].present
    /\ entry' = [entry EXCEPT ![o] =
                     Launched([NoEntry EXCEPT !.present = TRUE], fast)]
    /\ Forked(o, fast)
    /\ UNCHANGED <<sender, leaked, drain, main>>

\* sbs_output_supervisor_stop_output: shutdown message and SIGTERM, and the
\* entry stays until the worker's exit; without a worker it is freed at once.
\* (An output.update stops and starts again: the start is refused while the
\* worker has not exited, and is StartOutput otherwise.)
StopOutput(o) ==
    /\ main # "freed"
    /\ entry[o].present
    /\ \/ /\ entry[o].pid
          /\ entry' = [entry EXCEPT ![o].shutting = TRUE, ![o].restart = FALSE]
          /\ inbox' = [inbox EXCEPT ![o] = Sent(o, "shutdown")]
          /\ \E p \in SigTermed(proc[o]) : proc' = [proc EXCEPT ![o] = p]
          /\ UNCHANGED <<dialed, sender>>
       \/ ~entry[o].pid /\ Freed({o})
    /\ UNCHANGED <<leaked, drain, main>>

-----------------------------------------------------------------------------
(* sbs_output_supervisor_shutdown_all, on the main thread when the server  *)
(* exits (which dispatches no callback meanwhile), or on a client's thread *)
(* when a configuration is imported.                                       *)

Present == {o \in Output : entry[o].present}

\* Stage 0: every worker is sent the message.  The next shutdown starts when
\* the last is over: two at once are left out.
ShutdownBegin(by) ==
    /\ main = "loop" /\ drain.stage = "none"
    /\ Present # {}
    /\ entry' = [o \in Output |-> [entry[o] EXCEPT !.shutting = @ \/ o \in Present]]
    /\ inbox' = [o \in Output |-> Sent(o, "shutdown")]
    /\ drain' = [stage |-> "grace", by |-> by, list |-> Present]
    /\ main' = IF by = "main" THEN "shutdown" ELSE main
    /\ UNCHANGED <<proc, dialed, sender, leaked>>

\* Stages 1 and 2: waitpid(WNOHANG) finds an exited worker.
DrainReap(o) ==
    /\ drain.stage # "none"
    /\ o \in drain.list
    /\ entry[o].pid /\ proc[o] = "exited"
    /\ entry' = [entry EXCEPT ![o].pid = FALSE]
    /\ proc' = [proc EXCEPT ![o] = "none"]
    /\ UNCHANGED <<dialed, inbox, sender, leaked, drain, main>>

AllExited == \A o \in drain.list : ~entry[o].pid

\* End of stage 1 in time: remove_all.
DrainDone ==
    /\ drain.stage = "grace"
    /\ AllExited
    /\ Freed(Present)
    /\ drain' = NotDraining
    /\ main' = IF drain.by = "main" THEN "quit" ELSE main
    /\ UNCHANGED leaked

\* The grace period is over: stage 2, SIGTERM.
DrainTerm ==
    /\ drain.stage = "grace"
    /\ ~AllExited
    /\ proc' \in [Output -> Live \cup {"none", "exited"}]
    /\ \A o \in Output : proc'[o] \in IF o \in drain.list /\ entry[o].pid
                                      THEN SigTermed(proc[o]) ELSE {proc[o]}
    /\ drain' = [drain EXCEPT !.stage = "term"]
    /\ UNCHANGED <<entry, dialed, inbox, sender, leaked, main>>

\* Stage 3: SIGKILL to what is left, waitpid, and remove_all.
DrainKill ==
    /\ drain.stage = "term"
    /\ Freed(Present)
    /\ drain' = NotDraining
    /\ main' = IF drain.by = "main" THEN "quit" ELSE main
    /\ UNCHANGED leaked

\* on_signal without outputs, and the clean-up of the server: the router is
\* freed first, which joins the senders, then the supervisor with what a
\* client started in between.
QuitIdle ==
    /\ main = "loop" /\ drain.stage = "none"
    /\ Present = {}
    /\ main' = "quit"
    /\ UNCHANGED <<entry, proc, dialed, inbox, sender, leaked, drain>>

SupervisorFree ==
    /\ main = "quit"
    /\ sender.pc = "idle"
    /\ Freed(Present)
    /\ main' = "freed"
    /\ UNCHANGED <<leaked, drain>>

-----------------------------------------------------------------------------
(* The sender: sbs_output_supervisor_send_frame on the export thread and   *)
(* send_audio on the audio thread, which exclude each other.               *)

\* The entry is looked at, and the frame's descriptor duplicated (when the
\* process has one left; otherwise the frame is dropped).  The clean-up after
\* the main loop begins with the end of the senders.
SendPick(o, kind) ==
    /\ main \in {"loop", "shutdown"}
    /\ sender.pc = "idle"
    /\ entry[o].present /\ entry[o].connected /\ ~entry[o].shutting
    /\ entry[o].conn
    /\ kind = "frame" => leaked < FdLimit
    /\ sender' = [pc |-> "send", kind |-> kind, out |-> o, freed |-> FALSE]
    /\ UNCHANGED <<entry, proc, dialed, inbox, leaked, drain, main>>

\* sendmsg succeeds: the duplicate is left open.
SendOk ==
    /\ sender.pc = "send"
    /\ entry[sender.out].conn /\ proc[sender.out] \in Live
    /\ Len(inbox[sender.out]) < SocketRoom
    /\ inbox' = [inbox EXCEPT ![sender.out] = Append(@, sender.kind)]
    /\ leaked' = IF sender.kind = "frame" THEN leaked + 1 ELSE leaked
    /\ sender' = IdleSender
    /\ UNCHANGED <<entry, proc, dialed, drain, main>>

\* It would block, or the connection is gone and nothing is done about it:
\* the duplicate is closed and the message dropped.
SendDropped ==
    /\ sender.pc = "send"
    /\ \/ Len(inbox[sender.out]) = SocketRoom
       \/ ~entry[sender.out].conn
       \/ sender.kind = "audio" /\ proc[sender.out] \notin Live
    /\ sender' = IdleSender
    /\ UNCHANGED <<entry, proc, dialed, inbox, leaked, drain, main>>

\* EPIPE, first half: connected is cleared and conn_fd found open.
SendBroken ==
    /\ sender.pc = "send" /\ sender.kind = "frame"
    /\ entry[sender.out].conn /\ proc[sender.out] \notin Live
    /\ entry' = [entry EXCEPT ![sender.out].connected = FALSE]
    /\ sender' = [sender EXCEPT !.pc = "close"]
    /\ UNCHANGED <<proc, dialed, inbox, leaked, drain, main>>

\* Second half: the descriptor is closed and the worker killed.  The I/O
\* watch stays on the number.  The entry may have been freed since: then the
\* memory is unused, or belongs to the next entry of the output.
SendClose ==
    LET o == sender.out
    IN  /\ sender.pc = "close"
        /\ \/ /\ entry[o].present
              /\ entry' = [entry EXCEPT ![o].conn = FALSE]
              /\ proc' = [proc EXCEPT ![o] =
                     IF entry[o].pid /\ ~entry[o].shutting
                     THEN SigKilled(@) ELSE @]
           \/ sender.freed /\ UNCHANGED <<entry, proc>>
        /\ sender' = IdleSender
        /\ UNCHANGED <<dialed, inbox, leaked, drain, main>>

-----------------------------------------------------------------------------
(* The workers: worker_common.c and output_worker.c.                       *)

Step(o, from, to) ==
    /\ proc[o] = from
    /\ proc' = [proc EXCEPT ![o] = to]

\* sbs_worker_connect
WorkerConnect(o) ==
    /\ proc[o] = "boot" /\ ~dialed[o]
    /\ entry[o].listen
    /\ dialed' = [dialed EXCEPT ![o] = TRUE]
    /\ UNCHANGED <<entry, proc, inbox, sender, leaked, drain, main>>

\* install_signal_handlers, after the connect
WorkerInit(o) ==
    /\ dialed[o]
    /\ Step(o, "boot", "ready")
    /\ UNCHANGED <<entry, dialed, inbox, sender, leaked, drain, main>>

\* output_worker_run up to its main loop
WorkerRun(o) ==
    /\ Step(o, "ready", "run")
    /\ UNCHANGED <<entry, dialed, inbox, sender, leaked, drain, main>>

\* on_frame_received: a frame is copied and its descriptor closed, audio is
\* passed on.  A SHUTDOWN is shorter than a frame message, which the transport
\* takes for a short read: it is dropped like one.
WorkerRead(o) ==
    /\ proc[o] = "run"
    /\ inbox[o] # <<>>
    /\ inbox' = [inbox EXCEPT ![o] = Tail(@)]
    /\ UNCHANGED <<entry, proc, dialed, sender, leaked, drain, main>>

\* on_frame_received after the server closed the connection, or the pipeline's
\* end or error on the bus.
WorkerQuits(o) ==
    /\ Step(o, "run", "finish")
    /\ UNCHANGED <<entry, dialed, inbox, sender, leaked, drain, main>>

WorkerExit(o) ==
    /\ Step(o, "finish", "exited")
    /\ UNCHANGED <<entry, dialed, inbox, sender, leaked, drain, main>>

\* A failed start, or a crash.
WorkerDies(o) ==
    /\ proc[o] \in Live
    /\ proc' = [proc EXCEPT ![o] = "exited"]
    /\ UNCHANGED <<entry, dialed, inbox, sender, leaked, drain, main>>

-----------------------------------------------------------------------------
(* Callbacks of the main loop.                                             *)

\* on_worker_data on the listening socket: the deferred accept.
AcceptWorker(o) ==
    /\ main = "loop"
    /\ entry[o].io = "listen" /\ ~entry[o].connected /\ dialed[o]
    /\ entry' = [entry EXCEPT ![o].conn = TRUE, ![o].connected = TRUE,
                              ![o].io = "conn", ![o].accept = FALSE,
                              ![o].stable = TRUE]
    /\ UNCHANGED <<proc, dialed, inbox, sender, leaked, drain, main>>

\* on_worker_data on the connection: hang-up or end of file.  (STATUS messages
\* change nothing.  On a number the sender closed, recv fails and the watch
\* stays.)
ConnectionLost(o) ==
    /\ main = "loop"
    /\ entry[o].io = "conn" /\ entry[o].conn
    /\ proc[o] \notin Live
    /\ entry' = [entry EXCEPT ![o].conn = FALSE, ![o].connected = FALSE,
                              ![o].io = "none"]
    /\ UNCHANGED <<proc, dialed, inbox, sender, leaked, drain, main>>

\* on_child_exit, up to the restart: the accept and the stable timer stay.
ChildReaped(e) ==
    [e EXCEPT !.child = FALSE, !.pid = FALSE, !.connected = FALSE,
              !.io = "none", !.conn = FALSE, !.listen = FALSE]

\* Mutant of ChildExit: an entry that is shutting down is kept.
ChildExitKeeps(o) ==
    /\ main = "loop"
    /\ entry[o].child /\ proc[o] \notin Live
    /\ entry' = [entry EXCEPT ![o] = IF @.shutting THEN ChildReaped(@)
                                     ELSE Scheduled(ChildReaped(@))]
    /\ proc' = [proc EXCEPT ![o] = "none"]
    /\ dialed' = [dialed EXCEPT ![o] = FALSE]
    /\ inbox' = [inbox EXCEPT ![o] = <<>>]
    /\ UNCHANGED <<sender, drain, leaked, main>>
\* on_child_exit: the restart is scheduled, or the entry is freed when it is
\* shutting down.  A shutdown_all of a client that still has it in its list
\* reads its pid after that: no pid, or the pid of an entry that was allocated
\* in its place.
ChildExit(o) ==
    /\ main = "loop"
    /\ entry[o].child /\ proc[o] \notin Live
    /\ \/ /\ ~entry[o].shutting
          /\ entry' = [entry EXCEPT ![o] = Scheduled(ChildReaped(@))]
          /\ proc' = [proc EXCEPT ![o] = "none"]
          /\ dialed' = [dialed EXCEPT ![o] = FALSE]
          /\ inbox' = [inbox EXCEPT ![o] = <<>>]
          /\ UNCHANGED <<sender, drain>>
       \/ /\ entry[o].shutting
          /\ Freed({o})
          /\ \E l \in {drain.list, drain.list \ {o}} :
                 drain' = [drain EXCEPT !.list = l]
    /\ UNCHANGED <<leaked, main>>

\* on_accept_timeout; it may fire when the worker is dead already.
AcceptTimeout(o) ==
    /\ main = "loop"
    /\ entry[o].accept
    /\ entry' = [entry EXCEPT ![o].accept = FALSE]
    /\ proc' = [proc EXCEPT ![o] = IF entry[o].pid THEN SigKilled(@) ELSE @]
    /\ UNCHANGED <<dialed, inbox, sender, leaked, drain, main>>

\* on_stable_timer; it may fire when the worker is dead already.
StableTimer(o) ==
    /\ main = "loop"
    /\ entry[o].stable
    /\ entry' = [entry EXCEPT ![o].stable = FALSE, ![o].attempts = 0]
    /\ UNCHANGED <<proc, dialed, inbox, sender, leaked, drain, main>>

\* on_restart_timer: the launch succeeds, or another attempt is scheduled.
RestartTimer(o, ok, fast) ==
    /\ main = "loop"
    /\ entry[o].restart
    /\ \/ /\ entry[o].shutting
          /\ entry' = [entry EXCEPT ![o].restart = FALSE]
          /\ UNCHANGED <<proc, dialed, inbox>>
       \/ /\ ~entry[o].shutting /\ ok
          /\ entry' = [entry EXCEPT ![o] = Launched(Cleaned(@), fast)]
          /\ Forked(o, fast)
       \/ /\ ~entry[o].shutting /\ ~ok
          /\ entry' = [entry EXCEPT ![o] = Scheduled(Cleaned(@))]
          /\ UNCHANGED <<proc, dialed, inbox>>
    /\ UNCHANGED <<sender, leaked, drain, main>>

-----------------------------------------------------------------------------
Client == \/ \E o \in Output, fast \in BOOLEAN : StartOutput(o, fast)
          \/ \E o \in Output : StopOutput(o)

Drain == \/ \E o \in Output : DrainReap(o)
         \/ DrainDone
         \/ DrainTerm
         \/ DrainKill

Exit == QuitIdle \/ SupervisorFree

SendRest == SendOk \/ SendDropped \/ SendBroken \/ SendClose

Worker(o) ==
    \/ WorkerConnect(o)
    \/ WorkerInit(o)
    \/ WorkerRun(o)
    \/ WorkerRead(o)
    \/ WorkerQuits(o)
    \/ WorkerExit(o)
    \/ WorkerDies(o)

Callback(o) ==
    \/ AcceptWorker(o)
    \/ ConnectionLost(o)
    \/ ChildExit(o)
    \/ AcceptTimeout(o)
    \/ StableTimer(o)
    \/ \E ok, fast \in BOOLEAN : RestartTimer(o, ok, fast)

Next ==
    \/ Client
    \/ \E by \in {"client", "main"} : ShutdownBegin(by)
    \/ Drain
    \/ Exit
    \/ \E o \in Output, kind \in {"frame", "audio"} : SendPick(o, kind)
    \/ SendRest
    \/ \E o \in Output : Worker(o) \/ Callback(o)

\* The main loop dispatches ready watches and expired timers, the stages of a
\* shutdown have deadlines, sends do not block, and a worker that has left
\* its main loop waits at most two seconds before it exits.
Fairness ==
    /\ WF_vars(Drain)
    /\ WF_vars(SendRest)
    /\ WF_vars(SupervisorFree)
    /\ \A o \in Output :
        /\ WF_vars(WorkerExit(o))
        /\ WF_vars(ChildExit(o))
        /\ WF_vars(AcceptTimeout(o))
        /\ WF_vars(\E ok, fast \in BOOLEAN : RestartTimer(o, ok, fast))

Spec == Init /\ [][Next]_vars /\ Fairness

-----------------------------------------------------------------------------
(* Properties.                                                             *)

\* A worker process that has not been waited for is known to an entry of the
\* table by its pid and its child watch, whatever the order of stops, restarts,
\* crashes, broken pipes and shutdowns on their threads; once the supervisor is
\* freed none is left.
WorkerOwned ==
    \A o \in Output :
        /\ proc[o] # "none" =>
               entry[o].present /\ entry[o].pid /\ entry[o].child
        /\ main = "freed" => proc[o] = "none"

\* An entry whose worker died is looked after, though the sender may have
\* closed its connection behind the main loop's back: a new worker runs, the
\* attempts are used up, or the output is stopped.
Replaced ==
    \A o \in Output :
        proc[o] = "exited" ~> \/ proc[o] \in Live
                              \/ entry[o].attempts > MaxAttempts
                              \/ entry[o].shutting
                              \/ ~entry[o].present

\* A stopped output disappears from the table (only then can it be started
\* again), unless its worker was told so before it ran its main loop.
StopEnds ==
    \A o \in Output :
        entry[o].shutting ~> (~entry[o].shutting \/ proc[o] = "deaf")
=============================================================================
