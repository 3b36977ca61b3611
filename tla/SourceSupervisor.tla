-------------------------- MODULE SourceSupervisor --------------------------
(***************************************************************************)
(* The source supervisor: one worker process per video source, started,    *)
(* watched, restarted with backoff and stopped by callbacks of the GLib    *)
(* main loop.                                                              *)
(*                                                                         *)
(* Every action of the server is one callback or one API call that runs to *)
(* its end on the main loop, as requests that come in over the instance's  *)
(* control socket do; the workers (connect, close, crash) and the timers   *)
(* interleave with them.  (A websocket client's requests run on a thread   *)
(* of their own, without a lock: what they can do in the middle of a       *)
(* callback is left out.)  Timers may fire in any order: the model keeps   *)
(* no clock, only which timers are armed.                                  *)
(*                                                                         *)
(* shutting_down is left out: both calls that set it free the entry before *)
(* they return, with no callback in between.                               *)
(***************************************************************************)
EXTENDS Integers, FiniteSets

CONSTANTS
    Source,       \* source ids
    MaxAttempts,  \* MAX_RESTART_ATTEMPTS
    MaxDangling   \* bound: restart timers of freed entries, per source

ASSUME AttemptsAssumption == MaxAttempts \in Nat \ {0}
ASSUME DanglingAssumption == MaxDangling \in Nat

VARIABLES
    entry,    \* per source: its sbs_source_entry
    proc,     \* per source: its worker process
    dial,     \* per source: the worker's end of the IPC connection
    dangling, \* per source: restart timers whose entry has been freed
    orphans,  \* per source: workers no entry knows of, running or zombie
    reused,   \* per source, history: a dangling timer hit its entry
    up        \* the main loop runs

vars == <<entry, proc, dial, dangling, orphans, reused, up>>

NoEntry ==
    [present |-> FALSE,   \* in the table of sources
     pid |-> FALSE,       \* pid > 0
     listen |-> FALSE,    \* listen_fd >= 0
     conn |-> FALSE,      \* conn_fd >= 0
     io |-> "none",       \* what io_watch_id watches: "listen", "conn"
     child |-> FALSE,     \* child_watch_id # 0
     accept |-> FALSE,    \* accept_timer_id # 0
     stable |-> FALSE,    \* stable_timer_id # 0
     restart |-> 0,       \* armed restart timers (id not kept)
     attempts |-> 0]      \* restart_attempts

Init ==
    /\ entry = [s \in Source |-> NoEntry]
    /\ proc = [s \in Source |-> "none"]
    /\ dial = [s \in Source |-> "none"]
    /\ dangling = [s \in Source |-> 0]
    /\ orphans = [s \in Source |-> 0]
    /\ reused = [s \in Source |-> FALSE]
    /\ up = TRUE

-----------------------------------------------------------------------------
(* What the code does to an entry.                                         *)

\* Mutant of Launched: no accept timeout is set up.
LaunchedUntimed(e, fast) ==
    [e EXCEPT !.pid = TRUE, !.listen = TRUE, !.child = TRUE, !.conn = fast,
              !.stable = fast, !.io = IF fast THEN "conn" ELSE "listen"]
\* Mutant of Launched: no child watch is installed after a fast connect.
LaunchedUnwatched(e, fast) ==
    [e EXCEPT !.pid = TRUE, !.listen = TRUE, !.child = ~fast, !.conn = fast,
              !.accept = ~fast, !.stable = fast,
              !.io = IF fast THEN "conn" ELSE "listen"]
\* source_entry_launch: the socket, the process and the watches; when the
\* worker has connected already (fast) it is accepted at once.
Launched(e, fast) ==
    [e EXCEPT !.pid = TRUE, !.listen = TRUE, !.child = TRUE, !.conn = fast,
              !.accept = ~fast, !.stable = fast,
              !.io = IF fast THEN "conn" ELSE "listen"]

\* source_entry_cleanup_worker
Cleaned(e) ==
    [e EXCEPT !.pid = FALSE, !.listen = FALSE, !.conn = FALSE, !.io = "none",
              !.child = FALSE, !.accept = FALSE, !.stable = FALSE]

\* Mutant of Scheduled: the last attempt is counted and not made.
ScheduledShort(e) ==
    [e EXCEPT !.attempts = @ + 1,
              !.restart = @ + (IF e.attempts + 1 < MaxAttempts THEN 1 ELSE 0)]
\* schedule_restart: one more attempt, unless there have been too many.
Scheduled(e) ==
    [e EXCEPT !.attempts = @ + 1,
              !.restart = @ + (IF e.attempts + 1 <= MaxAttempts THEN 1 ELSE 0)]

\* The worker's process and its end of the connection after a launch.
Forked(s, fast) ==
    /\ proc' = [proc EXCEPT ![s] = "running"]
    /\ dial' = [dial EXCEPT ![s] = IF fast THEN "linked" ELSE "none"]

\* kill(pid, SIGKILL), when the entry has a pid.
Killed(s) ==
    proc' = [proc EXCEPT ![s] = IF entry[s].pid /\ proc[s] = "running"
                                THEN "exited" ELSE proc[s]]

\* source_entry_launch in an entry e, which may fail before or at the fork.
LaunchOk(s, e, fast) ==
    /\ entry' = [entry EXCEPT ![s] = Launched(e, fast)]
    /\ Forked(s, fast)

-----------------------------------------------------------------------------
(* Calls from the API handlers.                                            *)

\* sbs_source_supervisor_start_source; a failed launch removes the new entry.
StartSource(s, fast) ==
    /\ up
    /\ ~entry[s].present
    /\ LaunchOk(s, [NoEntry EXCEPT !.present = TRUE], fast)
    /\ UNCHANGED <<dangling, orphans, reused, up>>

\* Mutant of Freed: the worker is left to its child watch.
FreedUnkilled(S) ==
    /\ entry' = [s \in Source |-> IF s \in S THEN NoEntry ELSE entry[s]]
    /\ dial' = [s \in Source |-> IF s \in S THEN "none" ELSE dial[s]]
    /\ UNCHANGED proc
\* source_entry_free: the watches it knows of are removed, the descriptors
\* closed, the worker is killed and waited for.
Freed(S) ==
    /\ entry' = [s \in Source |-> IF s \in S THEN NoEntry ELSE entry[s]]
    /\ dial' = [s \in Source |-> IF s \in S THEN "none" ELSE dial[s]]
    /\ proc' = [s \in Source |-> IF s \in S THEN "none" ELSE proc[s]]

\* sbs_source_supervisor_stop_source: shutdown message, SIGTERM, and the entry
\* is freed at once.  An armed restart timer is not among the watches it
\* removes.
StopSource(s) ==
    LET left == dangling[s] + entry[s].restart
    IN  /\ up
        /\ entry[s].present
        /\ left <= MaxDangling
        /\ Freed({s})
        /\ dangling' = [dangling EXCEPT ![s] = left]
        /\ UNCHANGED <<orphans, reused, up>>

\* sbs_source_supervisor_shutdown_all, when the server exits: it blocks the
\* main thread through its stages (message, SIGTERM, SIGKILL) until every
\* worker has been waited for, and frees the entries.
ShutdownAll ==
    /\ up
    /\ Freed(Source)
    /\ up' = FALSE
    /\ UNCHANGED <<dangling, orphans, reused>>

-----------------------------------------------------------------------------
(* The workers.                                                            *)

WorkerConnect(s) ==
    /\ proc[s] = "running"
    /\ entry[s].listen /\ dial[s] = "none"
    /\ dial' = [dial EXCEPT ![s] = "dialing"]
    /\ UNCHANGED <<entry, proc, dangling, orphans, reused, up>>

WorkerClose(s) ==
    /\ proc[s] = "running"
    /\ dial[s] = "linked"
    /\ dial' = [dial EXCEPT ![s] = "closed"]
    /\ UNCHANGED <<entry, proc, dangling, orphans, reused, up>>

WorkerExit(s) ==
    /\ proc[s] = "running"
    /\ proc' = [proc EXCEPT ![s] = "exited"]
    /\ UNCHANGED <<entry, dial, dangling, orphans, reused, up>>

-----------------------------------------------------------------------------
(* Callbacks of the main loop.                                             *)

\* on_frame_available on the listening socket: the deferred accept.
AcceptWorker(s) ==
    /\ up
    /\ entry[s].io = "listen"
    /\ dial[s] = "dialing"
    /\ entry' = [entry EXCEPT ![s].conn = TRUE, ![s].io = "conn",
                              ![s].accept = FALSE, ![s].stable = TRUE]
    /\ dial' = [dial EXCEPT ![s] = "linked"]
    /\ UNCHANGED <<proc, dangling, orphans, reused, up>>

\* on_frame_available on the connection: hang-up or end of file.  The worker
\* is killed; its child watch restarts it.
ConnectionLost(s) ==
    /\ up
    /\ entry[s].io = "conn"
    /\ proc[s] # "running" \/ dial[s] = "closed"
    /\ entry' = [entry EXCEPT ![s].conn = FALSE, ![s].io = "none"]
    /\ Killed(s)
    /\ UNCHANGED <<dial, dangling, orphans, reused, up>>

\* on_child_exit, up to the restart: the accept and the stable timer stay.
ChildReaped(e) ==
    [e EXCEPT !.child = FALSE, !.pid = FALSE, !.io = "none", !.conn = FALSE,
              !.listen = FALSE]

\* on_child_exit
ChildExit(s) ==
    /\ up
    /\ entry[s].child
    /\ proc[s] = "exited"
    /\ entry' = [entry EXCEPT ![s] = Scheduled(ChildReaped(@))]
    /\ proc' = [proc EXCEPT ![s] = "none"]
    /\ dial' = [dial EXCEPT ![s] = "none"]
    /\ UNCHANGED <<dangling, orphans, reused, up>>

\* on_accept_timeout; it may fire when the worker is dead already.
AcceptTimeout(s) ==
    /\ up
    /\ entry[s].accept
    /\ entry' = [entry EXCEPT ![s].accept = FALSE]
    /\ Killed(s)
    /\ UNCHANGED <<dial, dangling, orphans, reused, up>>

\* on_stable_timer; it may fire when the worker is dead already.
StableTimer(s) ==
    /\ up
    /\ entry[s].stable
    /\ entry' = [entry EXCEPT ![s].stable = FALSE, ![s].attempts = 0]
    /\ UNCHANGED <<proc, dial, dangling, orphans, reused, up>>

\* on_restart_timer in an entry e of source s: clean up and launch, or schedule
\* the next attempt.  The clean-up forgets a worker that still runs.
Relaunch(s, e, ok, fast) ==
    /\ IF ok THEN LaunchOk(s, Cleaned(e), fast)
             ELSE /\ entry' = [entry EXCEPT ![s] = Scheduled(Cleaned(e))]
                  /\ proc' = [proc EXCEPT ![s] = "none"]
                  /\ dial' = [dial EXCEPT ![s] = "none"]
    /\ orphans' = [orphans EXCEPT ![s] = IF proc[s] = "none" THEN @ ELSE @ + 1]

RestartTimer(s, ok, fast) ==
    /\ up
    /\ entry[s].restart > 0
    /\ Relaunch(s, [entry[s] EXCEPT !.restart = @ - 1], ok, fast)
    /\ UNCHANGED <<dangling, reused, up>>

\* on_restart_timer with an entry of s that was freed: undefined behaviour.
\* When the memory now belongs to the entry of source t, the callback works
\* on that one.  (Bound: once per source.)
DanglingTimerReused(s, t, ok, fast) ==
    /\ up
    /\ dangling[s] > 0
    /\ entry[t].present
    /\ ~reused[t]
    /\ Relaunch(t, entry[t], ok, fast)
    /\ dangling' = [dangling EXCEPT ![s] = @ - 1]
    /\ reused' = [reused EXCEPT ![t] = TRUE]
    /\ UNCHANGED up

\* ... and when the memory still holds the old entry, shutting_down makes the
\* callback return.
DanglingTimerIgnored(s) ==
    /\ up
    /\ dangling[s] > 0
    /\ dangling' = [dangling EXCEPT ![s] = @ - 1]
    /\ UNCHANGED <<entry, proc, dial, orphans, reused, up>>

-----------------------------------------------------------------------------
Api == \/ \E s \in Source, fast \in BOOLEAN : StartSource(s, fast)
       \/ \E s \in Source : StopSource(s)
       \/ ShutdownAll

Worker(s) == WorkerConnect(s) \/ WorkerClose(s) \/ WorkerExit(s)

Callback(s) ==
    \/ AcceptWorker(s)
    \/ ConnectionLost(s)
    \/ ChildExit(s)
    \/ AcceptTimeout(s)
    \/ StableTimer(s)
    \/ \E ok, fast \in BOOLEAN : RestartTimer(s, ok, fast)

Dangling(s) ==
    \/ \E t \in Source, ok, fast \in BOOLEAN :
           DanglingTimerReused(s, t, ok, fast)
    \/ DanglingTimerIgnored(s)

Next == Api \/ \E s \in Source : Worker(s) \/ Callback(s) \/ Dangling(s)

\* The main loop dispatches each ready watch and each expired timer.
Fairness ==
    \A s \in Source :
        /\ WF_vars(ConnectionLost(s))
        /\ WF_vars(ChildExit(s))
        /\ WF_vars(AcceptTimeout(s))
        /\ WF_vars(\E ok, fast \in BOOLEAN : RestartTimer(s, ok, fast))

Spec == Init /\ [][Next]_vars /\ Fairness

-----------------------------------------------------------------------------
(* Properties.                                                             *)

\* Unless a dangling timer struck, a worker process that runs belongs to an
\* entry that knows its pid and watches it, and no other runs: whatever the
\* order of connects, hang-ups, crashes, timeouts, restarts and stops.
WorkerWatched ==
    \A s \in Source : ~reused[s] =>
        /\ orphans[s] = 0
        /\ proc[s] # "none" =>
               entry[s].present /\ entry[s].pid /\ entry[s].child

\* A running worker that is not connected has its accept timeout ahead: one
\* that hangs before it connects cannot keep the source dark.
ConnectsOrTimesOut ==
    \A s \in Source :
        entry[s].pid /\ proc[s] = "running" /\ ~entry[s].conn
            => entry[s].accept

\* A source has a worker or a restart timer ahead of it; schedule_restart
\* leaves it without either only after MAX_RESTART_ATTEMPTS restarts.
Tended(e) == e.present /\ (e.pid \/ e.restart > 0)
GivesUpWhenExhausted ==
    [][\A s \in Source :
           Tended(entry[s]) /\ entry'[s].present /\ ~Tended(entry'[s])
               => entry'[s].attempts > MaxAttempts]_vars

\* A worker that exited, crashed or was killed is replaced, unless the
\* supervisor gave up on the source or the source was stopped.
Replaced ==
    \A s \in Source :
        (proc[s] = "exited" /\ entry[s].present)
            ~> (proc[s] = "running" \/ ~Tended(entry[s]))

\* source_entry_free removes the entry's GLib watches: no timer is left that
\* refers to a freed entry.
NoDanglingTimer == \A s \in Source : dangling[s] = 0
=============================================================================
