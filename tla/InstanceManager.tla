-------------------------- MODULE InstanceManager ---------------------------
(***************************************************************************)
(* The controller's instance manager: one server process per instance,     *)
(* spawned, watched, restarted and stopped, with the wish to run kept in   *)
(* instances.json.                                                         *)
(*                                                                         *)
(* GLib callbacks run on the main loop and API handlers on the thread of   *)
(* their client, without a lock.  Each action is one of them, with all the *)
(* refreshes, spawns and saves it makes, or its part up to or after the    *)
(* one call that blocks, the waitpid of a stop, during which everything    *)
(* else goes on.  That the other handlers run without interference is an   *)
(* assumption.  Processes exit, and the controller crashes, at any moment. *)
(*                                                                         *)
(* A pid is the number of the spawn that made it: pids are never recycled  *)
(* here.  A child watch fires after the exit of its process, whoever       *)
(* reaped it.                                                              *)
(***************************************************************************)
EXTENDS Integers, Sequences, FiniteSets

CONSTANTS
    MaxId,     \* bound: the largest instance id handed out
    MaxSpawn,  \* bound: spawns in all; further ones fail
    MaxCrash   \* bound: crashes of the controller

ASSUME BoundsAssumption ==
    MaxId \in Nat /\ MaxSpawn \in Nat \ {0} /\ MaxCrash \in Nat

Id == 0 .. MaxId
Pid == 1 .. MaxSpawn

VARIABLES
    up,      \* the controller runs
    inst,    \* per id: its sbs_instance_entry
    next,    \* next_instance_id
    watch,   \* per id: the pids with a child watch
    idle,    \* per id: queued restart_instance_idle calls
    blocked, \* the handler that waits for a process (bound: one at a time)
    disk,    \* instances.json
    proc,    \* per id: the processes spawned so far, by pid
    forks,   \* processes spawned so far
    crashes, \* crashes of the controller so far
    lost,    \* history, per id: pids that an entry forgot while they ran
    failed,  \* history, per id: its last spawn failed
    used,    \* history: the ids handed out
    unsaved  \* history: {} or the kinds of save failures, see Saved

vars == <<up, inst, next, watch, idle, blocked, disk, proc, forks, crashes,
          lost, failed, used, unsaved>>
hist == <<lost, failed, used, unsaved>>

NoEntry == [present |-> FALSE, desired |-> FALSE, running |-> FALSE, pid |-> 0]
NewEntry == [NoEntry EXCEPT !.present = TRUE, !.desired = TRUE]

\* What save_metadata writes of an entry.
Want(e) == IF ~e.present THEN "absent" ELSE IF e.desired THEN "on" ELSE "off"

\* What a handler does once the instance is stopped.
After == {"return", "start", "remove"}
NotBlocked == [id |-> 0, pid |-> 0, then |-> "return"]

\* The machine before the first start of the controller: no instances.json
\* (next = 0).
Init ==
    /\ up = FALSE
    /\ inst = [i \in Id |-> NoEntry]
    /\ next = 1
    /\ watch = [i \in Id |-> {}]
    /\ idle = [i \in Id |-> 0]
    /\ blocked = NotBlocked
    /\ disk = [next |-> 0, want |-> [i \in Id |-> "absent"]]
    /\ proc = [i \in Id |-> <<>>]
    /\ forks = 0
    /\ crashes = 0
    /\ lost = [i \in Id |-> {}]
    /\ failed = [i \in Id |-> FALSE]
    /\ used = {}
    /\ unsaved = {}

-----------------------------------------------------------------------------
(* The functions of the manager, as functions of the state a handler works *)
(* on, so that a handler is their composition.                             *)

Now == [inst |-> inst, next |-> next, watch |-> watch, disk |-> disk,
        proc |-> proc, forks |-> forks, failed |-> failed,
        unsaved |-> unsaved]

Become(t) ==
    /\ inst' = t.inst
    /\ next' = t.next
    /\ watch' = t.watch
    /\ disk' = t.disk
    /\ proc' = t.proc
    /\ forks' = t.forks
    /\ failed' = t.failed
    /\ unsaved' = t.unsaved

\* save_metadata; the file is replaced atomically or, when sv is false, left.
Saved(t, sv) ==
    IF sv THEN [t EXCEPT !.unsaved = @ \ {"last"},
                         !.disk = [next |-> t.next,
                                   want |-> [i \in Id |-> Want(t.inst[i])]]]
          ELSE [t EXCEPT !.unsaved = {"last", "ever"}]

\* The entry of i has a process that exited and that nobody reaped.
Finished(t, i) ==
    t.inst[i].running /\ t.proc[i][t.inst[i].pid] = "zombie"

\* Of an entry whose process ended.
Cleared(e) == [e EXCEPT !.running = FALSE, !.pid = 0]

\* refresh_all_states
Refreshed(t) ==
    [t EXCEPT
        !.inst = [i \in Id |-> IF Finished(t, i)
                               THEN Cleared(t.inst[i])
                               ELSE t.inst[i]],
        !.proc = [i \in Id |-> IF Finished(t, i)
                               THEN [t.proc[i] EXCEPT ![t.inst[i].pid] =
                                                          "reaped"]
                               ELSE t.proc[i]]]

\* Mutant of Forked: an instance that is watched gets no second watch.
ForkedUnwatched(t, i) ==
    LET p == Len(t.proc[i]) + 1
    IN  [t EXCEPT !.proc[i] = Append(@, "running"),
                  !.forks = @ + 1,
                  !.inst[i] = [@ EXCEPT !.pid = p, !.running = TRUE, !.desired = TRUE],
                  !.watch[i] = IF @ = {} THEN {p} ELSE @,
                  !.failed[i] = FALSE]
\* What a successful spawn does to the state, before the save.
Forked(t, i) ==
    LET p == Len(t.proc[i]) + 1
    IN  [t EXCEPT !.proc[i] = Append(@, "running"),
                  !.forks = @ + 1,
                  !.inst[i] = [@ EXCEPT !.pid = p, !.running = TRUE, !.desired = TRUE],
                  !.watch[i] = @ \cup {p},
                  !.failed[i] = FALSE]

\* Mutant of Spawned: a running instance is spawned again.
SpawnedAgain(t, i, ok, sv) ==
    IF ok /\ t.forks < MaxSpawn THEN Saved(Forked(t, i), sv)
    ELSE [t EXCEPT !.failed[i] = TRUE]
\* spawn_instance; g_spawn_async succeeds when ok.
Spawned(t, i, ok, sv) ==
    IF t.inst[i].running THEN t
    ELSE IF ok /\ t.forks < MaxSpawn THEN Saved(Forked(t, i), sv)
    ELSE [t EXCEPT !.failed[i] = TRUE]

\* Mutant of Stopped: the cleared wish is not saved.
StoppedUnsaved(t, i, then, ok, sv1, sv2) ==
    IF then = "start" THEN Spawned(t, i, ok, sv2)
    ELSE IF then = "remove" THEN Saved([t EXCEPT !.inst[i] = NoEntry], sv2)
    ELSE t
\* The end of sbs_instance_manager_stop_instance and what its caller does
\* next: sbs_api_handle_instance_restart starts the instance again and
\* remove_instance drops the entry, both only if the stop was saved.
Stopped(t, i, then, ok, sv1, sv2) ==
    LET r == Saved(t, sv1)
    IN  IF then = "start" /\ sv1 THEN Spawned(r, i, ok, sv2)
        ELSE IF then = "remove" /\ sv1
             THEN Saved([r EXCEPT !.inst[i] = NoEntry], sv2)
        ELSE r

-----------------------------------------------------------------------------
(* API handlers.                                                           *)

\* sbs_instance_manager_create_instance; a name in use is refused without
\* effect.
Create(ok, sv) ==
    /\ up
    /\ next <= MaxId
    /\ LET t == [Now EXCEPT !.inst[next] = NewEntry, !.next = @ + 1]
       IN  Become(Spawned(Saved(t, sv), next, ok, sv))
    /\ used' = used \cup {next}
    /\ UNCHANGED <<up, idle, blocked, crashes, lost>>

\* sbs_instance_manager_start_instance, and update_instance with the wish to
\* run set.
Start(i, ok, sv) ==
    /\ up
    /\ inst[i].present
    /\ Become(Spawned(Refreshed(Now), i, ok, sv))
    /\ UNCHANGED <<up, idle, blocked, crashes, lost, used>>

\* sbs_instance_manager_stop_instance, called by instance.stop and by
\* update_instance with the wish to run cleared (then = "return"), by restart
\* ("start") and by remove_instance ("remove", never of the default instance),
\* of an instance that does not run.
Stop(i, then, ok, sv1, sv2) ==
    /\ up
    /\ inst[i].present
    /\ then = "remove" => i # 0
    /\ LET t == [Refreshed(Now) EXCEPT !.inst[i].desired = FALSE]
       IN  /\ ~t.inst[i].running
           /\ Become(Stopped(t, i, then, ok, sv1, sv2))
    /\ UNCHANGED <<up, idle, blocked, crashes, lost, used>>

\* The same of an instance that runs: SIGTERM, and the handler blocks in
\* waitpid.
StopBlocks(i, then) ==
    /\ up
    /\ inst[i].present
    /\ then = "remove" => i # 0
    /\ blocked = NotBlocked
    /\ LET t == [Refreshed(Now) EXCEPT !.inst[i].desired = FALSE]
       IN  /\ t.inst[i].running
           /\ blocked' = [id |-> i, pid |-> t.inst[i].pid, then |-> then]
           /\ Become(t)
    /\ UNCHANGED <<up, idle, crashes, lost, used>>

\* waitpid returns: the process exited, whoever reaped it, and the handler
\* clears the entry as it now is.  (When another handler removed the entry in
\* the meantime, this one writes to freed memory; here without effect.)
StopResumes(ok, sv1, sv2) ==
    LET i == blocked.id
        p == blocked.pid
        t == IF inst[i].present
             THEN [Now EXCEPT !.proc[i][p] = "reaped", !.inst[i] = Cleared(@)]
             ELSE [Now EXCEPT !.proc[i][p] = "reaped"]
    IN  /\ up
        /\ blocked # NotBlocked
        /\ proc[i][p] # "running"
        /\ blocked' = NotBlocked
        /\ Become(IF inst[i].present
                  THEN Stopped(t, i, blocked.then, ok, sv1, sv2)
                  ELSE Saved(t, sv1))
        /\ lost' = [lost EXCEPT ![i] = @ \cup ({inst[i].pid} \ {0, p})]
        /\ UNCHANGED <<up, idle, crashes, used>>

\* update_instance of a name, or with the wish to run set for an instance
\* that runs: it saves.
Update(i, sv) ==
    /\ up
    /\ inst[i].present
    /\ Become(Saved(Refreshed(Now), sv))
    /\ UNCHANGED <<up, idle, blocked, crashes, lost, used>>

\* The handlers that only look: get_info, build_inventory and call_json.
\* They refresh first.
Look ==
    /\ up
    /\ Become(Refreshed(Now))
    /\ UNCHANGED <<up, idle, blocked, crashes, lost, used>>

-----------------------------------------------------------------------------
(* Processes and callbacks.                                                *)

Exit(i, p) ==
    /\ p <= Len(proc[i])
    /\ proc[i][p] = "running"
    /\ proc' = [proc EXCEPT ![i][p] = "zombie"]
    /\ UNCHANGED <<up, inst, next, watch, idle, blocked, disk, forks, crashes,
                   hist>>

\* GLib waits for a watched process before it dispatches the watch.
Reap(i, p) ==
    /\ up
    /\ p \in watch[i]
    /\ proc[i][p] = "zombie"
    /\ proc' = [proc EXCEPT ![i][p] = "reaped"]
    /\ UNCHANGED <<up, inst, next, watch, idle, blocked, disk, forks, crashes,
                   hist>>

\* A child watch is gone once it has fired.
Unwatched(i, p) == watch' = [watch EXCEPT ![i] = @ \ {p}]

\* Mutant of ChildWatch: an exit of another process than the entry's present
\* one is ignored.
ChildWatchStrict(i, p) ==
    /\ up
    /\ p \in watch[i]
    /\ proc[i][p] = "reaped"
    /\ Unwatched(i, p)
    /\ IF inst[i].pid = p
          THEN /\ inst' = [inst EXCEPT ![i] = Cleared(@)]
               /\ idle' = [idle EXCEPT ![i] = IF inst[i].desired THEN @ + 1
                                                                 ELSE @]
          ELSE UNCHANGED <<inst, idle>>
    /\ UNCHANGED <<up, next, blocked, disk, proc, forks, crashes, hist>>
\* on_instance_child_exit: it knows the id, and takes the exit to be that of
\* the entry's present process.
ChildWatch(i, p) ==
    /\ up
    /\ p \in watch[i]
    /\ proc[i][p] = "reaped"
    /\ Unwatched(i, p)
    /\ inst' = [inst EXCEPT ![i] = Cleared(@)]
    /\ idle' = [idle EXCEPT ![i] = IF inst[i].desired THEN @ + 1 ELSE @]
    /\ lost' = [lost EXCEPT ![i] = @ \cup ({inst[i].pid} \ {0, p})]
    /\ UNCHANGED <<up, next, blocked, disk, proc, forks, crashes, failed, used,
                   unsaved>>

\* restart_instance_idle
RestartIdle(i, ok, sv) ==
    /\ up
    /\ idle[i] > 0
    /\ idle' = [idle EXCEPT ![i] = @ - 1]
    /\ Become(IF inst[i].desired THEN Spawned(Now, i, ok, sv) ELSE Now)
    /\ UNCHANGED <<up, blocked, crashes, lost, used>>

-----------------------------------------------------------------------------
(* The controller's own life.                                              *)

\* What is in memory is gone.
Forget ==
    /\ up' = FALSE
    /\ inst' = [i \in Id |-> NoEntry]
    /\ next' = 1
    /\ watch' = [i \in Id |-> {}]
    /\ idle' = [i \in Id |-> 0]
    /\ blocked' = NotBlocked

\* sbs_instance_manager_shutdown_all, which waits for every process it knows
\* of, and the controller exits.  Nothing is saved: the wish to run survives.
Shutdown ==
    /\ up
    /\ proc' = [i \in Id |-> IF inst[i].running
                              THEN [proc[i] EXCEPT ![inst[i].pid] = "reaped"]
                              ELSE proc[i]]
    /\ Forget
    /\ UNCHANGED <<disk, forks, crashes, hist>>

\* The controller dies; the instances, in sessions of their own, live on.
Crash ==
    /\ up
    /\ crashes < MaxCrash
    /\ crashes' = crashes + 1
    /\ lost' = [i \in Id |-> lost[i] \cup ({inst[i].pid} \ {0})]
    /\ Forget
    /\ UNCHANGED <<disk, proc, forks, failed, used, unsaved>>

\* Mutant of LoadedNext: only the ids in use count.
LoadedNext0(d) ==
    LET S == {i \in Id : d.want[i] # "absent"} \cup {0}
    IN  1 + (CHOOSE i \in S : \A j \in S : j <= i)
\* load_metadata: the next id, at least 1 and above every id in the file.
LoadedNext(d) ==
    LET S == {i + 1 : i \in {j \in Id : d.want[j] # "absent"}}
                 \cup {1, d.next}
    IN  CHOOSE n \in S : \A m \in S : m <= n

\* load_metadata and sbs_instance_manager_ensure_default, in which the default
\* instance is saved only when it had to be made.
Loaded(t, sv) ==
    LET e == [i \in Id |-> IF t.disk.want[i] = "absent" THEN NoEntry
                           ELSE [NewEntry EXCEPT !.desired =
                                     t.disk.want[i] = "on"]]
        l == [t EXCEPT !.inst = e, !.next = LoadedNext(t.disk)]
    IN  IF e[0].present THEN l
                        ELSE Saved([l EXCEPT !.inst[0] = NewEntry], sv)

\* sbs_instance_manager_start_desired; the spawns of the ids in S succeed.
\* Each save writes the same table.
StartedDesired(t, S, sv) ==
    LET go == {i \in S : t.inst[i].desired}
        on(i) == IF i \in go THEN Forked(t, i) ELSE t
        r == [t EXCEPT !.inst = [i \in Id |-> on(i).inst[i]],
                       !.proc = [i \in Id |-> on(i).proc[i]],
                       !.watch = [i \in Id |-> on(i).watch[i]],
                       !.forks = @ + Cardinality(go),
                       !.failed = [i \in Id |-> t.inst[i].desired
                                                  /\ i \notin go]]
    IN  IF go = {} THEN r ELSE Saved(r, sv)

\* The controller starts.
Boot(S, sv) ==
    /\ ~up
    /\ forks + Cardinality(S) <= MaxSpawn
    /\ up' = TRUE
    /\ Become(StartedDesired(Loaded(Now, sv), S, sv))
    /\ used' = used \cup {0}
    /\ UNCHANGED <<idle, blocked, crashes, lost>>

-----------------------------------------------------------------------------
Handler ==
    \/ \E ok, sv \in BOOLEAN : Create(ok, sv)
    \/ \E i \in Id, ok, sv \in BOOLEAN : Start(i, ok, sv)
    \/ \E i \in Id, then \in After, ok, sv1, sv2 \in BOOLEAN :
           Stop(i, then, ok, sv1, sv2)
    \/ \E i \in Id, then \in After : StopBlocks(i, then)
    \/ \E ok, sv1, sv2 \in BOOLEAN : StopResumes(ok, sv1, sv2)
    \/ \E i \in Id, sv \in BOOLEAN : Update(i, sv)
    \/ Look

Callback(i) ==
    \/ \E p \in Pid : Reap(i, p) \/ ChildWatch(i, p)
    \/ \E ok, sv \in BOOLEAN : RestartIdle(i, ok, sv)

Next ==
    \/ Handler
    \/ \E i \in Id : Callback(i)
    \/ \E i \in Id, p \in Pid : Exit(i, p)
    \/ Shutdown
    \/ Crash
    \/ \E S \in SUBSET Id, sv \in BOOLEAN : Boot(S, sv)

\* The main loop dispatches every child watch that is ready and every idle.
Fairness ==
    \A i \in Id :
        /\ \A p \in Pid : WF_vars(Reap(i, p)) /\ WF_vars(ChildWatch(i, p))
        /\ WF_vars(\E ok, sv \in BOOLEAN : RestartIdle(i, ok, sv))

Spec == Init /\ [][Next]_vars /\ Fairness

-----------------------------------------------------------------------------
(* Properties.                                                             *)

Live(i) == {p \in Pid : p <= Len(proc[i]) /\ proc[i][p] = "running"}

\* An entry that counts as running has a process whose exit is watched,
\* whatever reaped what in the meantime: the manager will hear of its end.
RunningIsWatched ==
    \A i \in Id : inst[i].running => inst[i].pid \in watch[i]

\* The manager loses sight of a running process in three ways only: a late
\* child watch clears the entry of a newer process, a stop that waited does,
\* or the controller dies.  In particular no start, removal or shutdown
\* leaves one behind.
OnlyTheLostStray ==
    \A i \in Id : Live(i) \subseteq {inst[i].pid} \cup lost[i]

\* After every handler and callback instances.json holds the table in memory,
\* unless the last save failed or, for its own instance, a stop still waits:
\* a crash at any moment loses no wish that was acknowledged.
DiskCurrent ==
    up /\ "last" \notin unsaved =>
        /\ disk.next = next
        /\ \A i \in Id : disk.want[i] = Want(inst[i])
                         \/ (blocked # NotBlocked /\ blocked.id = i)

\* An id is handed out once, however often instances are removed and the
\* controller restarted, as long as every save succeeded: no instance gets
\* the directory, ports and socket of another.
IdsFresh == up /\ "ever" \notin unsaved => next \notin used

\* An instance that should run and whose process exited runs again, unless
\* that is revoked, the controller stops, or the spawn failed, which is not
\* tried again.
ComesBack ==
    \A i \in Id :
        (up /\ inst[i].desired /\ inst[i].running /\ Live(i) = {})
            ~> (Live(i) # {} \/ ~inst[i].desired \/ ~up \/ failed[i])

\* The child watch restarts an instance after a crash and spawn_instance
\* skips one that runs: an instance never has two processes at a time.
AtMostOneProcess == \A i \in Id : Cardinality(Live(i)) <= 1
=============================================================================
