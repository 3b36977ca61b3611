----------------------- MODULE SourceSupervisorProofs -----------------------
(***************************************************************************)
(* Proofs about SourceSupervisor, for any sources, any limit of restart    *)
(* attempts and any number of dangling timers.                             *)
(*                                                                         *)
(* WorkerWatched is not inductive: that on_restart_timer's clean-up does   *)
(* not forget a running worker rests on there being at most one restart    *)
(* timer, and none while there is a worker (EntryOK).                      *)
(***************************************************************************)
EXTENDS SourceSupervisor, TLAPS

EntryType ==
    [present : BOOLEAN, pid : BOOLEAN, listen : BOOLEAN, conn : BOOLEAN,
     io : {"none", "listen", "conn"}, child : BOOLEAN, accept : BOOLEAN,
     stable : BOOLEAN, restart : Nat, attempts : Nat]

TypeOK ==
    /\ entry \in [Source -> EntryType]
    /\ proc \in [Source -> {"none", "running", "exited"}]
    /\ dial \in [Source -> {"none", "dialing", "linked", "closed"}]
    /\ dangling \in [Source -> Nat]
    /\ orphans \in [Source -> Nat]
    /\ reused \in [Source -> BOOLEAN]
    /\ up \in BOOLEAN

\* What holds of an entry e and its process p in every state in which no
\* dangling timer has struck.
EntryOK(e, p) ==
    /\ p # "none" <=> e.pid
    /\ e.pid <=> e.child
    /\ e.pid => e.present
    /\ e.restart > 0 => e.restart = 1 /\ ~e.pid /\ e.present

Sound(s) == ~reused[s] => orphans[s] = 0 /\ EntryOK(entry[s], proc[s])

IInv == TypeOK /\ \A s \in Source : Sound(s)

-----------------------------------------------------------------------------
(* The operators on entries.                                               *)

\* Every operation on an entry yields an entry.
LEMMA EntryTypes ==
    ASSUME NEW e \in EntryType, NEW fast \in BOOLEAN
    PROVE  /\ NoEntry \in EntryType
           /\ [NoEntry EXCEPT !.present = TRUE] \in EntryType
           /\ Launched(e, fast) \in EntryType
           /\ Cleaned(e) \in EntryType
           /\ Scheduled(e) \in EntryType
           /\ ChildReaped(e) \in EntryType
           /\ e.restart > 0 => [e EXCEPT !.restart = @ - 1] \in EntryType
<1> USE DEF EntryType
<1>1. NoEntry \in EntryType /\ [NoEntry EXCEPT !.present = TRUE] \in EntryType
    BY DEF NoEntry
<1>2. Launched(e, fast) \in EntryType BY DEF Launched
<1>3. Cleaned(e) \in EntryType BY DEF Cleaned
<1>4. Scheduled(e) \in EntryType
    <2> DEFINE more == IF e.attempts + 1 <= MaxAttempts THEN 1 ELSE 0
    <2>1. e.attempts + 1 \in Nat /\ e.restart + more \in Nat OBVIOUS
    <2>2. Scheduled(e) = [e EXCEPT !.attempts = e.attempts + 1,
                                   !.restart = e.restart + more]
        BY DEF Scheduled
    <2> HIDE DEF more
    <2> QED BY <2>1, <2>2
<1>5. ChildReaped(e) \in EntryType BY DEF ChildReaped
<1>6. e.restart > 0 => [e EXCEPT !.restart = @ - 1] \in EntryType OBVIOUS
<1> QED BY <1>1, <1>2, <1>3, <1>4, <1>5, <1>6

\* A launch in an entry without restart timers gives it a watched worker.
LEMMA LaunchedFields ==
    ASSUME NEW e \in EntryType, NEW fast \in BOOLEAN
    PROVE  /\ Launched(e, fast).pid /\ Launched(e, fast).child
           /\ Launched(e, fast).present = e.present
           /\ Launched(e, fast).restart = e.restart
           /\ Launched(e, fast).conn \/ Launched(e, fast).accept
BY DEF Launched, EntryType

\* A clean-up forgets the worker and leaves the restart timers.
LEMMA CleanedFields ==
    ASSUME NEW e \in EntryType
    PROVE  /\ ~Cleaned(e).pid /\ ~Cleaned(e).child
           /\ Cleaned(e).present = e.present
           /\ Cleaned(e).restart = e.restart
BY DEF Cleaned, EntryType

\* So does the reaction to the worker's exit.
LEMMA ReapedFields ==
    ASSUME NEW e \in EntryType
    PROVE  /\ ~ChildReaped(e).pid /\ ~ChildReaped(e).child
           /\ ChildReaped(e).present = e.present
           /\ ChildReaped(e).restart = e.restart
BY DEF ChildReaped, EntryType

\* schedule_restart arms one more timer, or has used up the attempts.
LEMMA ScheduledFields ==
    ASSUME NEW e \in EntryType
    PROVE  /\ Scheduled(e).pid = e.pid /\ Scheduled(e).child = e.child
           /\ Scheduled(e).present = e.present
           /\ Scheduled(e).restart \in {e.restart, e.restart + 1}
           /\ \/ Scheduled(e).restart = e.restart + 1
              \/ Scheduled(e).attempts > MaxAttempts
BY AttemptsAssumption DEF Scheduled, EntryType

\* The entry a start creates.
LEMMA FreshFields ==
    /\ NoEntry \in EntryType /\ [NoEntry EXCEPT !.present = TRUE] \in EntryType
    /\ [NoEntry EXCEPT !.present = TRUE].present
    /\ [NoEntry EXCEPT !.present = TRUE].restart = 0
BY DEF NoEntry, EntryType

-----------------------------------------------------------------------------
(* Types.                                                                  *)

\* The steps that relaunch a worker or give it up keep the types.
LEMMA RelaunchType ==
    ASSUME TypeOK, NEW s \in Source, NEW e \in EntryType, NEW ok \in BOOLEAN,
           NEW fast \in BOOLEAN, Relaunch(s, e, ok, fast)
    PROVE  /\ entry' \in [Source -> EntryType]
           /\ proc' \in [Source -> {"none", "running", "exited"}]
           /\ dial' \in [Source -> {"none", "dialing", "linked", "closed"}]
           /\ orphans' \in [Source -> Nat]
<1>1. Cleaned(e) \in EntryType BY EntryTypes
<1>2. /\ Launched(Cleaned(e), fast) \in EntryType
      /\ Scheduled(Cleaned(e)) \in EntryType
    BY <1>1, EntryTypes
<1> QED BY <1>2 DEF TypeOK, Relaunch, LaunchOk, Forked

\* Every step keeps the types.
LEMMA TypeNext == TypeOK /\ [Next]_vars => TypeOK'
<1> SUFFICES ASSUME TypeOK, [Next]_vars PROVE TypeOK'
    OBVIOUS
<1>e. ASSUME NEW s \in Source
      PROVE  entry[s] \in EntryType
    BY DEF TypeOK
<1>1. CASE Api
    <2>1. ASSUME NEW s \in Source, NEW fast \in BOOLEAN, StartSource(s, fast)
          PROVE  TypeOK'
        <3>1. Launched([NoEntry EXCEPT !.present = TRUE], fast) \in EntryType
            BY FreshFields, EntryTypes
        <3> QED BY <2>1, <3>1 DEF StartSource, LaunchOk, Forked, TypeOK
    <2>2. ASSUME NEW s \in Source, StopSource(s) PROVE TypeOK'
        <3>1. NoEntry \in EntryType BY FreshFields
        <3>2. dangling[s] + entry[s].restart \in Nat
            BY <1>e DEF TypeOK, EntryType
        <3> QED BY <2>2, <3>1, <3>2 DEF StopSource, Freed, TypeOK
    <2>3. CASE ShutdownAll
        <3>1. NoEntry \in EntryType BY FreshFields
        <3> QED BY <2>3, <3>1 DEF ShutdownAll, Freed, TypeOK
    <2> QED BY <1>1, <2>1, <2>2, <2>3 DEF Api
<1>2. ASSUME NEW s \in Source, Worker(s) PROVE TypeOK'
    BY <1>2 DEF Worker, WorkerConnect, WorkerClose, WorkerExit, TypeOK
<1>3. ASSUME NEW s \in Source, Callback(s) PROVE TypeOK'
    <2>1. CASE AcceptWorker(s)
        <3>1. [entry[s] EXCEPT !.conn = TRUE, !.io = "conn", !.accept = FALSE,
                               !.stable = TRUE] \in EntryType
            BY <1>e DEF EntryType
        <3> QED BY <2>1, <3>1 DEF AcceptWorker, TypeOK
    <2>4. CASE ConnectionLost(s)
        <3>1. [entry[s] EXCEPT !.conn = FALSE, !.io = "none"] \in EntryType
            BY <1>e DEF EntryType
        <3>2. proc' \in [Source -> {"none", "running", "exited"}]
            BY <2>4 DEF ConnectionLost, Killed, TypeOK
        <3> QED BY <2>4, <3>1, <3>2 DEF ConnectionLost, TypeOK
    <2>5. CASE AcceptTimeout(s)
        <3>1. [entry[s] EXCEPT !.accept = FALSE] \in EntryType
            BY <1>e DEF EntryType
        <3>2. proc' \in [Source -> {"none", "running", "exited"}]
            BY <2>5 DEF AcceptTimeout, Killed, TypeOK
        <3> QED BY <2>5, <3>1, <3>2 DEF AcceptTimeout, TypeOK
    <2>6. CASE StableTimer(s)
        <3>1. [entry[s] EXCEPT !.stable = FALSE, !.attempts = 0] \in EntryType
            BY <1>e DEF EntryType
        <3> QED BY <2>6, <3>1 DEF StableTimer, TypeOK
    <2>2. CASE ChildExit(s)
        <3>1. ChildReaped(entry[s]) \in EntryType BY <1>e, EntryTypes
        <3>2. Scheduled(ChildReaped(entry[s])) \in EntryType BY <3>1, EntryTypes
        <3> QED BY <2>2, <3>2 DEF ChildExit, TypeOK
    <2>3. ASSUME NEW ok \in BOOLEAN, NEW fast \in BOOLEAN, RestartTimer(s, ok, fast)
          PROVE  TypeOK'
        <3>1. [entry[s] EXCEPT !.restart = @ - 1] \in EntryType
            BY <1>e, <2>3, EntryTypes DEF RestartTimer
        <3> QED BY <2>3, <3>1, RelaunchType DEF RestartTimer, TypeOK
    <2> QED BY <1>3, <2>1, <2>2, <2>3, <2>4, <2>5, <2>6 DEF Callback
<1>4. ASSUME NEW s \in Source, Dangling(s) PROVE TypeOK'
    <2>1. ASSUME NEW t \in Source, NEW ok \in BOOLEAN, NEW fast \in BOOLEAN,
                 DanglingTimerReused(s, t, ok, fast)
          PROVE  TypeOK'
        <3>1. /\ entry' \in [Source -> EntryType]
              /\ proc' \in [Source -> {"none", "running", "exited"}]
              /\ dial' \in [Source -> {"none", "dialing", "linked", "closed"}]
              /\ orphans' \in [Source -> Nat]
            BY <2>1, <1>e, RelaunchType DEF DanglingTimerReused
        <3>2. dangling' \in [Source -> Nat]
            BY <2>1 DEF DanglingTimerReused, TypeOK
        <3> QED BY <2>1, <3>1, <3>2 DEF DanglingTimerReused, TypeOK
    <2>2. CASE DanglingTimerIgnored(s)
        BY <2>2 DEF DanglingTimerIgnored, TypeOK
    <2> QED BY <1>4, <2>1, <2>2 DEF Dangling
<1>5. CASE UNCHANGED vars BY <1>5 DEF vars, TypeOK
<1> QED BY <1>1, <1>2, <1>3, <1>4, <1>5 DEF Next

-----------------------------------------------------------------------------
(* Workers are watched.                                                    *)

\* A step leaves alone every source whose entry, process and history it does.
LEMMA SoundFrame ==
    ASSUME NEW s \in Source, Sound(s), entry'[s] = entry[s], proc'[s] = proc[s],
           orphans'[s] = orphans[s], reused'[s] = reused[s]
    PROVE  Sound(s)'
BY DEF Sound

\* A launch that succeeds, or the next attempt that is scheduled, in an entry
\* without a worker and with no other timer.
LEMMA RelaunchSound ==
    ASSUME TypeOK, NEW s \in Source, NEW e \in EntryType, NEW ok \in BOOLEAN,
           NEW fast \in BOOLEAN, Relaunch(s, e, ok, fast),
           proc[s] = "none", orphans[s] = 0, e.present, e.restart = 0
    PROVE  /\ EntryOK(entry'[s], proc'[s])
           /\ orphans'[s] = 0
           /\ \A t \in Source \ {s} :
                 entry'[t] = entry[t] /\ proc'[t] = proc[t] /\ orphans'[t] = orphans[t]
<1>1. Cleaned(e) \in EntryType BY EntryTypes
<1>2. CASE ok
    <2>1. entry'[s] = Launched(Cleaned(e), fast) /\ proc'[s] = "running"
        BY <1>2 DEF Relaunch, LaunchOk, Forked, TypeOK
    <2>2. EntryOK(entry'[s], proc'[s])
        BY <1>1, <2>1, LaunchedFields, CleanedFields DEF EntryOK
    <2> QED BY <1>2, <2>2 DEF Relaunch, LaunchOk, Forked, TypeOK
<1>3. CASE ~ok
    <2>1. entry'[s] = Scheduled(Cleaned(e)) /\ proc'[s] = "none"
        BY <1>3 DEF Relaunch, TypeOK
    <2>2. EntryOK(entry'[s], proc'[s])
        BY <1>1, <2>1, ScheduledFields, CleanedFields DEF EntryOK
    <2> QED BY <1>3, <2>2 DEF Relaunch, TypeOK
<1> QED BY <1>2, <1>3

\* Every step keeps each source sound: the watch, the process and the entry
\* change together.
LEMMA SoundNext ==
    ASSUME IInv, [Next]_vars, NEW t \in Source
    PROVE  Sound(t)'
<1>t. TypeOK /\ Sound(t) BY DEF IInv
<1>e. entry[t] \in EntryType BY <1>t DEF TypeOK
<1>n. EntryOK(NoEntry, "none") BY DEF EntryOK, NoEntry
<1>1. CASE Api
    <2>1. ASSUME NEW s \in Source, NEW fast \in BOOLEAN, StartSource(s, fast)
          PROVE  Sound(t)'
        <3> DEFINE e == [NoEntry EXCEPT !.present = TRUE]
        <3>1. CASE s = t
            <4>1. entry'[t] = Launched(e, fast) /\ proc'[t] = "running"
                BY <1>t, <2>1, <3>1 DEF StartSource, LaunchOk, Forked, TypeOK
            <4>2. e \in EntryType /\ e.present /\ e.restart = 0
                BY FreshFields
            <4> HIDE DEF e
            <4>3. EntryOK(entry'[t], proc'[t])
                BY <4>1, <4>2, LaunchedFields DEF EntryOK
            <4> QED BY <1>t, <2>1, <4>3 DEF StartSource, Sound
        <3>2. CASE s # t
            BY <1>t, <2>1, <3>2, SoundFrame DEF StartSource, LaunchOk, Forked, TypeOK
        <3> QED BY <3>1, <3>2
    <2>2. CASE ShutdownAll \/ \E s \in Source : StopSource(s)
        <3>1. \/ entry'[t] = NoEntry /\ proc'[t] = "none"
              \/ entry'[t] = entry[t] /\ proc'[t] = proc[t]
            BY <2>2 DEF ShutdownAll, StopSource, Freed
        <3>2. orphans' = orphans /\ reused' = reused
            BY <2>2 DEF ShutdownAll, StopSource
        <3> QED BY <1>t, <1>n, <3>1, <3>2 DEF Sound
    <2> QED BY <1>1, <2>1, <2>2 DEF Api
<1>2. ASSUME NEW s \in Source, Worker(s) PROVE Sound(t)'
    <2>1. entry' = entry /\ orphans' = orphans /\ reused' = reused
        BY <1>2 DEF Worker, WorkerConnect, WorkerClose, WorkerExit
    <2>2. proc'[t] = "none" <=> proc[t] = "none"
        <3>1. CASE WorkerConnect(s) \/ WorkerClose(s)
            BY <3>1 DEF WorkerConnect, WorkerClose
        <3>2. CASE WorkerExit(s)
            BY <1>t, <3>2 DEF WorkerExit, TypeOK
        <3> QED BY <1>2, <3>1, <3>2 DEF Worker
    <2> QED BY <1>t, <2>1, <2>2 DEF Sound, EntryOK
<1>3. ASSUME NEW s \in Source, Callback(s) PROVE Sound(t)'
    <2>0. CASE s # t
        <3>1. /\ entry'[t] = entry[t] /\ proc'[t] = proc[t]
              /\ orphans'[t] = orphans[t] /\ reused'[t] = reused[t]
            BY <1>t, <1>3, <2>0
               DEF Callback, AcceptWorker, ConnectionLost, AcceptTimeout, StableTimer,
                   Killed, ChildExit, RestartTimer, Relaunch, LaunchOk, Forked, TypeOK
        <3> QED BY <1>t, <3>1, SoundFrame
    <2>1. CASE s = t /\ (AcceptWorker(s) \/ ConnectionLost(s) \/ AcceptTimeout(s) \/ StableTimer(s))
        <3>1. /\ entry'[t].pid = entry[t].pid /\ entry'[t].child = entry[t].child
              /\ entry'[t].present = entry[t].present
              /\ entry'[t].restart = entry[t].restart
            BY <1>t, <1>e, <2>1
               DEF AcceptWorker, ConnectionLost, AcceptTimeout, StableTimer, TypeOK, EntryType
        <3>2. proc'[t] = "none" <=> proc[t] = "none"
            <4>1. CASE AcceptWorker(s) \/ StableTimer(s)
                BY <4>1 DEF AcceptWorker, StableTimer
            <4>2. CASE ConnectionLost(s) \/ AcceptTimeout(s)
                <5>1. Killed(t) BY <2>1, <4>2 DEF ConnectionLost, AcceptTimeout
                <5> QED BY <1>t, <5>1 DEF Killed, TypeOK
            <4> QED BY <2>1, <4>1, <4>2
        <3>3. orphans' = orphans /\ reused' = reused
            BY <2>1 DEF AcceptWorker, ConnectionLost, AcceptTimeout, StableTimer
        <3> QED BY <1>t, <3>1, <3>2, <3>3 DEF Sound, EntryOK
    <2>2. CASE s = t /\ ChildExit(s)
        <3> DEFINE e == ChildReaped(entry[t])
        <3>1. entry'[t] = Scheduled(e) /\ proc'[t] = "none"
            BY <1>t, <2>2 DEF ChildExit, TypeOK
        <3>2. e \in EntryType BY <1>e, EntryTypes
        <3>3. /\ ~e.pid /\ ~e.child
              /\ e.present = entry[t].present /\ e.restart = entry[t].restart
            BY <1>e, ReapedFields
        <3>4. proc[t] # "none" BY <2>2 DEF ChildExit
        <3> HIDE DEF e
        <3>5. EntryOK(entry[t], proc[t]) => EntryOK(entry'[t], proc'[t])
            BY <1>e, <3>1, <3>2, <3>3, <3>4, ScheduledFields DEF EntryOK, EntryType
        <3>6. orphans' = orphans /\ reused' = reused BY <2>2 DEF ChildExit
        <3> QED BY <1>t, <3>5, <3>6 DEF Sound
    <2>3. ASSUME NEW ok \in BOOLEAN, NEW fast \in BOOLEAN, RestartTimer(s, ok, fast), s = t
          PROVE  Sound(t)'
        <3> DEFINE e == [entry[t] EXCEPT !.restart = @ - 1]
        <3>1. entry[t].restart > 0 /\ Relaunch(t, e, ok, fast) /\ reused' = reused
            BY <2>3 DEF RestartTimer
        <3>2. e \in EntryType BY <1>e, <3>1, EntryTypes
        <3>3. e.present = entry[t].present /\ e.restart = entry[t].restart - 1
            BY <1>e DEF EntryType
        <3> HIDE DEF e
        <3>4. CASE ~reused[t]
            <4>1. proc[t] = "none" /\ orphans[t] = 0 /\ e.present /\ e.restart = 0
                BY <1>t, <1>e, <3>1, <3>3, <3>4 DEF Sound, EntryOK, EntryType
            <4>2. EntryOK(entry'[t], proc'[t]) /\ orphans'[t] = 0
                BY <1>t, <3>1, <3>2, <4>1, RelaunchSound
            <4> QED BY <4>2 DEF Sound
        <3> QED BY <3>1, <3>4 DEF Sound
    <2> QED BY <1>3, <2>0, <2>1, <2>2, <2>3 DEF Callback
<1>4. ASSUME NEW s \in Source, Dangling(s) PROVE Sound(t)'
    <2>1. ASSUME NEW u \in Source, NEW ok \in BOOLEAN, NEW fast \in BOOLEAN,
                 DanglingTimerReused(s, u, ok, fast)
          PROVE  Sound(t)'
        <3>1. CASE u = t
            BY <1>t, <2>1, <3>1 DEF DanglingTimerReused, Sound, TypeOK
        <3>2. CASE u # t
            BY <1>t, <2>1, <3>2, SoundFrame
               DEF DanglingTimerReused, Relaunch, LaunchOk, Forked, TypeOK
        <3> QED BY <3>1, <3>2
    <2>2. CASE DanglingTimerIgnored(s)
        BY <1>t, <2>2, SoundFrame DEF DanglingTimerIgnored
    <2> QED BY <1>4, <2>1, <2>2 DEF Dangling
<1>5. CASE UNCHANGED vars
    BY <1>t, <1>5, SoundFrame DEF vars
<1> QED BY <1>1, <1>2, <1>3, <1>4, <1>5 DEF Next

-----------------------------------------------------------------------------
\* Initially there are no entries and no workers.
LEMMA InitIInv == Init => IInv
BY DEF Init, IInv, TypeOK, Sound, EntryOK, NoEntry, EntryType

\* The invariant holds in every state.
LEMMA Invariance == Spec => []IInv
<1>1. IInv /\ [Next]_vars => IInv'
    BY TypeNext, SoundNext DEF IInv
<1> QED BY <1>1, InitIInv, PTL DEF Spec

\* The state only takes the values the code can give it: entries with all their
\* fields, a process per source that runs, has exited or is gone.
THEOREM TypesCorrect == Spec => []TypeOK
<1>1. IInv => TypeOK BY DEF IInv
<1> QED BY <1>1, Invariance, PTL

\* Every worker process is known to an entry that watches it, whatever the order
\* of connects, hang-ups, crashes, timeouts, restarts and stops.
THEOREM WatchedCorrect == Spec => []WorkerWatched
<1>1. IInv => WorkerWatched
    <2> SUFFICES ASSUME IInv, NEW s \in Source, ~reused[s]
                 PROVE  /\ orphans[s] = 0
                        /\ proc[s] # "none" =>
                               entry[s].present /\ entry[s].pid /\ entry[s].child
        BY DEF WorkerWatched
    <2> QED BY DEF IInv, Sound, EntryOK, TypeOK, EntryType
<1> QED BY <1>1, Invariance, PTL

-----------------------------------------------------------------------------
(* A worker connects or times out: inductive with the types alone.         *)

Timed(s) ==
    entry[s].pid /\ proc[s] = "running" /\ ~entry[s].conn => entry[s].accept

\* A step leaves alone every source whose entry it does, when it does not make
\* a process run.
LEMMA TimedFrame ==
    ASSUME NEW s \in Source, Timed(s), entry'[s] = entry[s],
           proc'[s] = "running" => proc[s] = "running"
    PROVE  Timed(s)'
BY DEF Timed

\* A launch gives an accept timeout to a worker that did not connect at once, and
\* a launch that fails leaves no worker.
LEMMA RelaunchTimed ==
    ASSUME TypeOK, NEW s \in Source, NEW e \in EntryType, NEW ok \in BOOLEAN,
           NEW fast \in BOOLEAN, Relaunch(s, e, ok, fast), NEW t \in Source, Timed(t)
    PROVE  Timed(t)'
<1>1. Cleaned(e) \in EntryType BY EntryTypes
<1>2. CASE s = t /\ ok
    <2>1. entry'[t] = Launched(Cleaned(e), fast)
        BY <1>2 DEF Relaunch, LaunchOk, Forked, TypeOK
    <2> QED BY <1>1, <2>1, LaunchedFields DEF Timed
<1>3. CASE s = t /\ ~ok
    <2>1. entry'[t] = Scheduled(Cleaned(e))
        BY <1>3 DEF Relaunch, TypeOK
    <2> QED BY <1>1, <2>1, ScheduledFields, CleanedFields DEF Timed
<1>4. CASE s # t
    BY <1>4, TimedFrame DEF Relaunch, LaunchOk, Forked, TypeOK
<1> QED BY <1>2, <1>3, <1>4

\* Every step keeps a launched worker connected or timed.
LEMMA TimedNext ==
    ASSUME TypeOK, [Next]_vars, NEW t \in Source, Timed(t)
    PROVE  Timed(t)'
<1>e. entry[t] \in EntryType BY DEF TypeOK
<1>1. CASE Api
    <2>1. ASSUME NEW s \in Source, NEW fast \in BOOLEAN, StartSource(s, fast)
          PROVE  Timed(t)'
        <3> DEFINE e == [NoEntry EXCEPT !.present = TRUE]
        <3>1. e \in EntryType BY FreshFields
        <3>2. s = t => entry'[t] = Launched(e, fast)
            BY <2>1 DEF StartSource, LaunchOk, TypeOK
        <3>3. s # t => entry'[t] = entry[t] /\ proc'[t] = proc[t]
            BY <2>1 DEF StartSource, LaunchOk, Forked, TypeOK
        <3> HIDE DEF e
        <3> QED BY <3>1, <3>2, <3>3, LaunchedFields, TimedFrame DEF Timed
    <2>2. CASE ShutdownAll \/ \E s \in Source : StopSource(s)
        <3>1. \/ entry'[t] = NoEntry
              \/ entry'[t] = entry[t] /\ proc'[t] = proc[t]
            BY <2>2 DEF ShutdownAll, StopSource, Freed
        <3> QED BY <3>1, TimedFrame DEF Timed, NoEntry
    <2> QED BY <1>1, <2>1, <2>2 DEF Api
<1>2. ASSUME NEW s \in Source, Worker(s) PROVE Timed(t)'
    BY <1>2, TimedFrame DEF Worker, WorkerConnect, WorkerClose, WorkerExit, TypeOK
<1>3. ASSUME NEW s \in Source, Callback(s) PROVE Timed(t)'
    <2>1. CASE AcceptWorker(s)
        BY <1>e, <2>1 DEF AcceptWorker, Timed, TypeOK, EntryType
    <2>2. CASE ConnectionLost(s)
        BY <1>e, <2>2 DEF ConnectionLost, Killed, Timed, TypeOK, EntryType
    <2>3. CASE ChildExit(s)
        <3> DEFINE e == ChildReaped(entry[t])
        <3>1. s = t => entry'[t] = Scheduled(e)
            BY <2>3 DEF ChildExit, TypeOK
        <3>2. s # t => entry'[t] = entry[t] /\ proc'[t] = proc[t]
            BY <2>3 DEF ChildExit, TypeOK
        <3>3. e \in EntryType /\ ~e.pid BY <1>e, EntryTypes, ReapedFields
        <3> HIDE DEF e
        <3> QED BY <3>1, <3>2, <3>3, ScheduledFields, TimedFrame DEF Timed
    <2>4. CASE AcceptTimeout(s)
        BY <1>e, <2>4 DEF AcceptTimeout, Killed, Timed, TypeOK, EntryType
    <2>5. CASE StableTimer(s)
        BY <1>e, <2>5 DEF StableTimer, Timed, TypeOK, EntryType
    <2>6. ASSUME NEW ok \in BOOLEAN, NEW fast \in BOOLEAN, RestartTimer(s, ok, fast)
          PROVE  Timed(t)'
        <3>1. entry[s] \in EntryType BY DEF TypeOK
        <3>2. [entry[s] EXCEPT !.restart = @ - 1] \in EntryType
            BY <2>6, <3>1, EntryTypes DEF RestartTimer
        <3> QED BY <2>6, <3>2, RelaunchTimed DEF RestartTimer
    <2> QED BY <1>3, <2>1, <2>2, <2>3, <2>4, <2>5, <2>6 DEF Callback
<1>4. ASSUME NEW s \in Source, Dangling(s) PROVE Timed(t)'
    <2>1. ASSUME NEW u \in Source, NEW ok \in BOOLEAN, NEW fast \in BOOLEAN,
                 DanglingTimerReused(s, u, ok, fast)
          PROVE  Timed(t)'
        <3>1. entry[u] \in EntryType BY DEF TypeOK
        <3> QED BY <2>1, <3>1, RelaunchTimed DEF DanglingTimerReused
    <2>2. CASE DanglingTimerIgnored(s)
        BY <2>2, TimedFrame DEF DanglingTimerIgnored
    <2> QED BY <1>4, <2>1, <2>2 DEF Dangling
<1>5. CASE UNCHANGED vars BY <1>5, TimedFrame DEF vars
<1> QED BY <1>1, <1>2, <1>3, <1>4, <1>5 DEF Next

\* A running worker that is not connected always has its accept timeout ahead.
THEOREM TimedCorrect == Spec => []ConnectsOrTimesOut
<1> DEFINE AllTimed == \A s \in Source : Timed(s)
<1>1. Init => AllTimed BY DEF Init, Timed, NoEntry
<1>2. TypeOK /\ AllTimed /\ [Next]_vars => AllTimed'
    <2> SUFFICES ASSUME TypeOK, AllTimed, [Next]_vars, NEW t \in Source
                 PROVE  Timed(t)'
        OBVIOUS
    <2> QED BY TimedNext
<1>3. AllTimed <=> ConnectsOrTimesOut BY DEF Timed, ConnectsOrTimesOut
<1> HIDE DEF AllTimed
<1> QED BY <1>1, <1>2, <1>3, TypesCorrect, PTL DEF Spec

-----------------------------------------------------------------------------
(* The supervisor gives up only after the last attempt.                    *)

GivesUp(t) ==
    Tended(entry[t]) /\ entry'[t].present /\ ~Tended(entry'[t])
        => entry'[t].attempts > MaxAttempts

\* An entry that keeps its worker, its timers and its place stays tended.
LEMMA TendedFrame ==
    ASSUME NEW t \in Source, entry[t] \in EntryType,
           \/ ~entry'[t].present
           \/ /\ entry'[t].pid = entry[t].pid /\ entry'[t].present = entry[t].present
              /\ entry'[t].restart = entry[t].restart
    PROVE  GivesUp(t)
BY DEF GivesUp, Tended, EntryType

\* The restart timer relaunches the worker, or the next attempt is scheduled or
\* was the last.
LEMMA RelaunchGivesUp ==
    ASSUME TypeOK, NEW s \in Source, NEW e \in EntryType, NEW ok \in BOOLEAN,
           NEW fast \in BOOLEAN, Relaunch(s, e, ok, fast), NEW t \in Source
    PROVE  GivesUp(t)
<1>1. Cleaned(e) \in EntryType BY EntryTypes
<1>2. CASE s = t /\ ok
    <2>1. entry'[t] = Launched(Cleaned(e), fast)
        BY <1>2 DEF Relaunch, LaunchOk, Forked, TypeOK
    <2> QED BY <1>1, <2>1, LaunchedFields DEF GivesUp, Tended
<1>3. CASE s = t /\ ~ok
    <2>1. entry'[t] = Scheduled(Cleaned(e))
        BY <1>3 DEF Relaunch, TypeOK
    <2>2. Cleaned(e).restart \in Nat BY <1>1 DEF EntryType
    <2>3. \/ Scheduled(Cleaned(e)).restart > 0
          \/ Scheduled(Cleaned(e)).attempts > MaxAttempts
        BY <1>1, <2>2, ScheduledFields
    <2> QED BY <2>1, <2>3 DEF GivesUp, Tended
<1>4. CASE s # t
    <2>1. entry[t] \in EntryType /\ entry'[t] = entry[t]
        BY <1>4 DEF Relaunch, LaunchOk, TypeOK
    <2> QED BY <2>1, TendedFrame
<1> QED BY <1>2, <1>3, <1>4

\* No step leaves a source without worker and timer before its attempts are
\* used up.
LEMMA GivesUpNext ==
    ASSUME TypeOK, [Next]_vars, NEW t \in Source
    PROVE  GivesUp(t)
<1>e. entry[t] \in EntryType BY DEF TypeOK
<1>1. CASE Api
    <2>1. ASSUME NEW s \in Source, NEW fast \in BOOLEAN, StartSource(s, fast)
          PROVE  GivesUp(t)
        <3> DEFINE e == [NoEntry EXCEPT !.present = TRUE]
        <3>1. e \in EntryType BY FreshFields
        <3>2. s = t => entry'[t] = Launched(e, fast)
            BY <2>1 DEF StartSource, LaunchOk, TypeOK
        <3>3. s # t => entry'[t] = entry[t]
            BY <2>1 DEF StartSource, LaunchOk, TypeOK
        <3>4. s = t => ~Tended(entry[t]) BY <2>1 DEF StartSource, Tended
        <3> QED BY <1>e, <3>3, <3>4, TendedFrame DEF GivesUp
    <2>2. CASE ShutdownAll \/ \E s \in Source : StopSource(s)
        <3>1. entry'[t] = NoEntry \/ entry'[t] = entry[t]
            BY <2>2 DEF ShutdownAll, StopSource, Freed
        <3>2. ~NoEntry.present BY DEF NoEntry
        <3> QED BY <1>e, <3>1, <3>2, TendedFrame
    <2> QED BY <1>1, <2>1, <2>2 DEF Api
<1>2. ASSUME NEW s \in Source, Worker(s) PROVE GivesUp(t)
    BY <1>2, <1>e, TendedFrame DEF Worker, WorkerConnect, WorkerClose, WorkerExit
<1>3. ASSUME NEW s \in Source, Callback(s) PROVE GivesUp(t)
    <2>1. CASE AcceptWorker(s) \/ ConnectionLost(s) \/ AcceptTimeout(s) \/ StableTimer(s)
        <3>1. /\ entry'[t].pid = entry[t].pid /\ entry'[t].present = entry[t].present
              /\ entry'[t].restart = entry[t].restart
            <4>1. CASE s = t
                BY <1>e, <2>1, <4>1
                   DEF AcceptWorker, ConnectionLost, AcceptTimeout, StableTimer, TypeOK,
                       EntryType
            <4>2. CASE s # t
                BY <2>1, <4>2
                   DEF AcceptWorker, ConnectionLost, AcceptTimeout, StableTimer, TypeOK
            <4> QED BY <4>1, <4>2
        <3> QED BY <1>e, <3>1, TendedFrame
    <2>2. CASE ChildExit(s)
        <3> DEFINE e == ChildReaped(entry[t])
        <3>1. s = t => entry'[t] = Scheduled(e)
            BY <2>2 DEF ChildExit, TypeOK
        <3>2. s # t => entry'[t] = entry[t]
            BY <2>2 DEF ChildExit, TypeOK
        <3>3. e \in EntryType /\ e.present = entry[t].present
            BY <1>e, EntryTypes, ReapedFields
        <3> HIDE DEF e
        <3>4. e.restart \in Nat BY <3>3 DEF EntryType
        <3>5. Scheduled(e).restart > 0 \/ Scheduled(e).attempts > MaxAttempts
            BY <3>3, <3>4, ScheduledFields
        <3>6. s = t => GivesUp(t) BY <3>1, <3>5 DEF GivesUp, Tended
        <3>7. s # t => GivesUp(t) BY <1>e, <3>2, TendedFrame
        <3> QED BY <3>6, <3>7
    <2>3. ASSUME NEW ok \in BOOLEAN, NEW fast \in BOOLEAN, RestartTimer(s, ok, fast)
          PROVE  GivesUp(t)
        <3>1. entry[s] \in EntryType BY DEF TypeOK
        <3>2. [entry[s] EXCEPT !.restart = @ - 1] \in EntryType
            BY <2>3, <3>1, EntryTypes DEF RestartTimer
        <3> QED BY <2>3, <3>2, RelaunchGivesUp DEF RestartTimer
    <2> QED BY <1>3, <2>1, <2>2, <2>3 DEF Callback
<1>4. ASSUME NEW s \in Source, Dangling(s) PROVE GivesUp(t)
    <2>1. ASSUME NEW u \in Source, NEW ok \in BOOLEAN, NEW fast \in BOOLEAN,
                 DanglingTimerReused(s, u, ok, fast)
          PROVE  GivesUp(t)
        <3>1. entry[u] \in EntryType BY DEF TypeOK
        <3> QED BY <2>1, <3>1, RelaunchGivesUp DEF DanglingTimerReused
    <2>2. CASE DanglingTimerIgnored(s)
        BY <1>e, <2>2, TendedFrame DEF DanglingTimerIgnored
    <2> QED BY <1>4, <2>1, <2>2 DEF Dangling
<1>5. CASE UNCHANGED vars BY <1>e, <1>5, TendedFrame DEF vars
<1> QED BY <1>1, <1>2, <1>3, <1>4, <1>5 DEF Next

\* schedule_restart gives a source up only once its attempts are used up: no
\* other step leaves a source in the table without worker and without timer.
THEOREM GivesUpCorrect == Spec => GivesUpWhenExhausted
<1>1. TypeOK /\ [Next]_vars =>
          [\A s \in Source :
               Tended(entry[s]) /\ entry'[s].present /\ ~Tended(entry'[s])
                   => entry'[s].attempts > MaxAttempts]_vars
    BY GivesUpNext DEF GivesUp
<1> QED BY <1>1, TypesCorrect, PTL DEF Spec, GivesUpWhenExhausted
=============================================================================
