------------------------ MODULE OutputSupervisorProofs ------------------------
(***************************************************************************)
(* Proofs about OutputSupervisor, for any outputs, any limit of restart    *)
(* attempts, any room in the sockets and any number of descriptors.        *)
(*                                                                         *)
(* WorkerOwned is not inductive: the restart timer's clean-up forgets the  *)
(* worker of its entry, a reaped worker leaves a child watch behind, and   *)
(* only the watch tells the table that the entry may be freed (Owned).     *)
(***************************************************************************)
EXTENDS OutputSupervisor, SequenceTheorems, TLAPS

EntryType ==
    [present : BOOLEAN, pid : BOOLEAN, listen : BOOLEAN, conn : BOOLEAN,
     connected : BOOLEAN, io : {"none", "listen", "conn"}, child : BOOLEAN,
     accept : BOOLEAN, stable : BOOLEAN, restart : BOOLEAN, shutting : BOOLEAN,
     attempts : Nat]

ProcType == Live \cup {"none", "exited"}

SenderType ==
    [pc : {"idle", "send", "close"}, kind : {"frame", "audio"},
     out : Output \cup {NoOutput}, freed : BOOLEAN]

DrainType ==
    [stage : {"none", "grace", "term"}, by : {"client", "main"},
     list : SUBSET Output]

TypeOK ==
    /\ entry \in [Output -> EntryType]
    /\ proc \in [Output -> ProcType]
    /\ dialed \in [Output -> BOOLEAN]
    /\ inbox \in [Output -> Seq(Msg)]
    /\ sender \in SenderType
    /\ sender.pc # "idle" => sender.out \in Output
    /\ leaked \in Nat
    /\ drain \in DrainType
    /\ main \in {"loop", "shutdown", "quit", "freed"}

\* What holds of an entry e and its process p.
EntryOK(e, p) ==
    /\ p # "none" <=> e.pid
    /\ e.pid => e.child
    /\ e.child => e.present
    /\ e.restart => ~e.pid /\ e.present

Owned(o) == EntryOK(entry[o], proc[o])
NoneLeft == main = "freed" => \A o \in Output : proc[o] = "none"

IInv == TypeOK /\ (\A o \in Output : Owned(o)) /\ NoneLeft

-----------------------------------------------------------------------------
(* The operators on entries and processes.                                 *)

\* The empty entry, and the entry a start creates.
LEMMA FreshFields ==
    /\ NoEntry \in EntryType /\ [NoEntry EXCEPT !.present = TRUE] \in EntryType
    /\ [NoEntry EXCEPT !.present = TRUE].present
    /\ ~[NoEntry EXCEPT !.present = TRUE].restart
    /\ EntryOK(NoEntry, "none")
BY DEF NoEntry, EntryType, EntryOK

\* A launch gives an entry of the table without a restart timer a watched worker.
LEMMA LaunchedFields ==
    ASSUME NEW e \in EntryType, NEW fast \in BOOLEAN
    PROVE  /\ Launched(e, fast) \in EntryType
           /\ Launched(e, fast).pid /\ Launched(e, fast).child
           /\ Launched(e, fast).present = e.present
           /\ Launched(e, fast).restart = e.restart
BY DEF Launched, EntryType

\* A clean-up keeps an entry's place in the table and nothing else.
LEMMA CleanedFields ==
    ASSUME NEW e \in EntryType
    PROVE  /\ Cleaned(e) \in EntryType
           /\ ~Cleaned(e).pid /\ ~Cleaned(e).child /\ ~Cleaned(e).restart
           /\ Cleaned(e).present = e.present
BY DEF Cleaned, NoEntry, EntryType

\* The reaction to the worker's exit forgets the worker and its watch.
LEMMA ReapedFields ==
    ASSUME NEW e \in EntryType
    PROVE  /\ ChildReaped(e) \in EntryType
           /\ ~ChildReaped(e).pid /\ ~ChildReaped(e).child
           /\ ChildReaped(e).present = e.present
           /\ ChildReaped(e).restart = e.restart
BY DEF ChildReaped, EntryType

\* Scheduling a restart changes only the attempts and the restart timer.
LEMMA ScheduledFields ==
    ASSUME NEW e \in EntryType
    PROVE  /\ Scheduled(e) \in EntryType
           /\ Scheduled(e).pid = e.pid /\ Scheduled(e).child = e.child
           /\ Scheduled(e).present = e.present
<1> DEFINE more == e.attempts + 1 <= MaxAttempts
           n == e.attempts + 1
<1>1. n \in Nat /\ more \in BOOLEAN BY DEF EntryType
<1>2. Scheduled(e) = [e EXCEPT !.attempts = n, !.restart = more]
    BY DEF Scheduled
<1> HIDE DEF more, n
<1> QED BY <1>1, <1>2 DEF EntryType

\* SIGKILL and SIGTERM keep a process a process: only waiting for it ends it.
LEMMA SignalFacts ==
    ASSUME NEW p \in ProcType
    PROVE  /\ SigKilled(p) \in ProcType /\ (SigKilled(p) = "none" <=> p = "none")
           /\ \A q \in SigTermed(p) : q \in ProcType /\ (q = "none" <=> p = "none")
BY DEF SigKilled, SigTermed, ProcType, Live

\* A send appends a message or leaves the socket as it was.
LEMMA SentType ==
    ASSUME TypeOK, NEW o \in Output, NEW m \in Msg
    PROVE  Sent(o, m) \in Seq(Msg)
<1>1. inbox[o] \in Seq(Msg) BY DEF TypeOK
<1>2. Append(inbox[o], m) \in Seq(Msg) BY <1>1, AppendProperties
<1> QED BY <1>1, <1>2 DEF Sent

\* What freeing entries of the table does to the types.
LEMMA FreedType ==
    ASSUME TypeOK, NEW S \in SUBSET Output, Freed(S)
    PROVE  /\ entry' \in [Output -> EntryType] /\ proc' \in [Output -> ProcType]
           /\ dialed' \in [Output -> BOOLEAN] /\ inbox' \in [Output -> Seq(Msg)]
           /\ sender' \in SenderType /\ sender'.pc = sender.pc
           /\ sender'.out = sender.out
<1>1. "none" \in ProcType /\ <<>> \in Seq(Msg) BY DEF ProcType
<1>2. entry' \in [Output -> EntryType] BY FreshFields DEF Freed, TypeOK
<1>3. proc' \in [Output -> ProcType] BY <1>1 DEF Freed, TypeOK
<1>4. dialed' \in [Output -> BOOLEAN] BY DEF Freed, TypeOK
<1>5. inbox' \in [Output -> Seq(Msg)] BY <1>1 DEF Freed, TypeOK
<1>6. /\ sender' \in SenderType /\ sender'.pc = sender.pc
      /\ sender'.out = sender.out
    BY DEF Freed, TypeOK, SenderType
<1> QED BY <1>2, <1>3, <1>4, <1>5, <1>6

\* What it does to the workers: none is left behind.
LEMMA FreedOwned ==
    ASSUME TypeOK, NEW S \in SUBSET Output, Freed(S), NEW o \in Output, Owned(o)
    PROVE  /\ EntryOK(entry'[o], proc'[o])
           /\ o \in S => proc'[o] = "none"
           /\ proc[o] = "none" => proc'[o] = "none"
<1>1. CASE o \in S
    <2>1. entry'[o] = NoEntry /\ proc'[o] = "none"
        BY <1>1 DEF Freed, Owned, EntryOK
    <2> QED BY <1>1, <2>1, FreshFields
<1>2. CASE o \notin S
    <2>1. entry'[o] = entry[o] /\ proc'[o] = proc[o] BY <1>2 DEF Freed
    <2> QED BY <1>2, <2>1 DEF Owned
<1> QED BY <1>1, <1>2

-----------------------------------------------------------------------------
(* Types.                                                                  *)

\* Requests of the control clients (start, stop and restart) keep the types.
LEMMA ClientType == TypeOK /\ Client => TypeOK'
<1> SUFFICES ASSUME TypeOK, Client PROVE TypeOK'
    OBVIOUS
<1>e. \A o \in Output : entry[o] \in EntryType BY DEF TypeOK
<1>1. ASSUME NEW o \in Output, NEW fast \in BOOLEAN, StartOutput(o, fast)
      PROVE  TypeOK'
    <2>1. Launched([NoEntry EXCEPT !.present = TRUE], fast) \in EntryType
        BY FreshFields, LaunchedFields
    <2>2. "boot" \in ProcType /\ <<>> \in Seq(Msg) BY DEF ProcType, Live
    <2> QED BY <1>1, <2>1, <2>2 DEF StartOutput, Forked, TypeOK
<1>2. ASSUME NEW o \in Output, StopOutput(o) PROVE TypeOK'
    <2>1. CASE /\ entry' = [entry EXCEPT ![o].shutting = TRUE, ![o].restart = FALSE]
               /\ inbox' = [inbox EXCEPT ![o] = Sent(o, "shutdown")]
               /\ \E p \in SigTermed(proc[o]) : proc' = [proc EXCEPT ![o] = p]
               /\ UNCHANGED <<dialed, sender>>
        <3>1. [entry[o] EXCEPT !.shutting = TRUE, !.restart = FALSE] \in EntryType
            BY <1>e DEF EntryType
        <3>2. Sent(o, "shutdown") \in Seq(Msg) BY SentType DEF Msg
        <3>3. proc' \in [Output -> ProcType] BY <2>1, SignalFacts DEF TypeOK
        <3>4. entry' \in [Output -> EntryType] BY <2>1, <3>1 DEF TypeOK
        <3>5. inbox' \in [Output -> Seq(Msg)] BY <2>1, <3>2 DEF TypeOK
        <3> QED BY <1>2, <2>1, <3>3, <3>4, <3>5 DEF StopOutput, TypeOK
    <2>2. CASE Freed({o})
        BY <1>2, <2>2, FreedType DEF StopOutput, TypeOK
    <2> QED BY <1>2, <2>1, <2>2 DEF StopOutput
<1> QED BY <1>1, <1>2 DEF Client

\* The steps of a shutdown, with its grace and termination stages, keep the types.
LEMMA DrainStepType ==
    TypeOK /\ (Drain \/ Exit \/ \E by \in {"client", "main"} : ShutdownBegin(by))
        => TypeOK'
<1> SUFFICES ASSUME TypeOK,
                    Drain \/ Exit \/ \E by \in {"client", "main"} : ShutdownBegin(by)
             PROVE  TypeOK'
    OBVIOUS
<1>e. \A o \in Output : entry[o] \in EntryType BY DEF TypeOK
<1>0. Present \in SUBSET Output /\ NotDraining \in DrainType
    BY DEF Present, NotDraining, DrainType
<1>1. ASSUME NEW by \in {"client", "main"}, ShutdownBegin(by) PROVE TypeOK'
    <2>1. \A o \in Output :
              [entry[o] EXCEPT !.shutting = @ \/ o \in Present] \in EntryType
        <3> SUFFICES ASSUME NEW o \in Output
                     PROVE  [entry[o] EXCEPT !.shutting = @ \/ o \in Present] \in EntryType
            OBVIOUS
        <3> DEFINE b == entry[o].shutting \/ o \in Present
        <3>1. b \in BOOLEAN OBVIOUS
        <3>2. [entry[o] EXCEPT !.shutting = @ \/ o \in Present]
                  = [entry[o] EXCEPT !.shutting = b]
            OBVIOUS
        <3> HIDE DEF b
        <3> QED BY <1>e, <3>1, <3>2 DEF EntryType
    <2>2. \A o \in Output : Sent(o, "shutdown") \in Seq(Msg)
        BY SentType DEF Msg
    <2>3. [stage |-> "grace", by |-> by, list |-> Present] \in DrainType
        BY <1>0 DEF DrainType
    <2> QED BY <1>1, <2>1, <2>2, <2>3 DEF ShutdownBegin, TypeOK
<1>2. ASSUME NEW o \in Output, DrainReap(o) PROVE TypeOK'
    <2>1. [entry[o] EXCEPT !.pid = FALSE] \in EntryType
        BY <1>e DEF EntryType
    <2>2. "none" \in ProcType BY DEF ProcType
    <2> QED BY <1>2, <2>1, <2>2 DEF DrainReap, TypeOK
<1>3. CASE DrainDone \/ DrainKill
    BY <1>0, <1>3, FreedType DEF DrainDone, DrainKill, TypeOK
<1>4. CASE DrainTerm
    <2>1. [drain EXCEPT !.stage = "term"] \in DrainType BY DEF TypeOK, DrainType
    <2> QED BY <1>4, <2>1 DEF DrainTerm, TypeOK, ProcType
<1>5. CASE QuitIdle BY <1>5 DEF QuitIdle, TypeOK
<1>6. CASE SupervisorFree
    BY <1>0, <1>6, FreedType DEF SupervisorFree, TypeOK
<1> QED BY <1>1, <1>2, <1>3, <1>4, <1>5, <1>6 DEF Drain, Exit

\* Sending a frame or audio, to the end of the write or the loss of the
\* connection in the middle of it, keeps the types.
LEMMA SendType ==
    TypeOK /\ (SendRest \/ \E o \in Output, kind \in {"frame", "audio"} : SendPick(o, kind))
        => TypeOK'
<1> SUFFICES ASSUME TypeOK,
                    SendRest \/ \E o \in Output, kind \in {"frame", "audio"} : SendPick(o, kind)
             PROVE  TypeOK'
    OBVIOUS
<1>e. \A o \in Output : entry[o] \in EntryType BY DEF TypeOK
<1>0. IdleSender \in SenderType /\ IdleSender.pc = "idle" BY DEF IdleSender, SenderType
<1>1. ASSUME NEW o \in Output, NEW kind \in {"frame", "audio"}, SendPick(o, kind)
      PROVE  TypeOK'
    BY <1>1 DEF SendPick, TypeOK, SenderType
<1>2. CASE SendOk
    <2>1. sender.out \in Output /\ sender.kind \in Msg
        BY <1>2 DEF SendOk, TypeOK, SenderType, Msg
    <2>2. Append(inbox[sender.out], sender.kind) \in Seq(Msg)
        BY <2>1, AppendProperties DEF TypeOK
    <2> QED BY <1>0, <1>2, <2>1, <2>2 DEF SendOk, TypeOK
<1>3. CASE SendDropped BY <1>0, <1>3 DEF SendDropped, TypeOK
<1>4. CASE SendBroken
    <2>1. sender.out \in Output BY <1>4 DEF SendBroken, TypeOK
    <2>2. [entry[sender.out] EXCEPT !.connected = FALSE] \in EntryType
        BY <1>e, <2>1 DEF EntryType
    <2>3. [sender EXCEPT !.pc = "close"] \in SenderType BY DEF TypeOK, SenderType
    <2>4. [sender EXCEPT !.pc = "close"].out = sender.out BY DEF TypeOK, SenderType
    <2> QED BY <1>4, <2>1, <2>2, <2>3, <2>4 DEF SendBroken, TypeOK
<1>5. CASE SendClose
    <2>1. sender.out \in Output BY <1>5 DEF SendClose, TypeOK
    <2>2. [entry[sender.out] EXCEPT !.conn = FALSE] \in EntryType
        BY <1>e, <2>1 DEF EntryType
    <2>3. entry' \in [Output -> EntryType] BY <1>5, <2>2 DEF SendClose, TypeOK
    <2>4. proc' \in [Output -> ProcType]
        <3>1. proc[sender.out] \in ProcType /\ SigKilled(proc[sender.out]) \in ProcType
            BY <2>1, SignalFacts DEF TypeOK
        <3> QED BY <1>5, <3>1 DEF SendClose, TypeOK
    <2> QED BY <1>0, <1>5, <2>3, <2>4 DEF SendClose, TypeOK
<1> QED BY <1>1, <1>2, <1>3, <1>4, <1>5 DEF SendRest

\* A step of a worker process keeps the types.
LEMMA WorkerType ==
    ASSUME TypeOK, NEW o \in Output, Worker(o)
    PROVE  TypeOK'
<1>1. {"boot", "ready", "run", "finish", "exited"} \subseteq ProcType
    BY DEF ProcType, Live
<1>2. CASE WorkerRead(o)
    <2>1. Tail(inbox[o]) \in Seq(Msg)
        BY <1>2, HeadTailProperties DEF WorkerRead, TypeOK
    <2> QED BY <1>2, <2>1 DEF WorkerRead, TypeOK
<1>3. CASE WorkerConnect(o) BY <1>3 DEF WorkerConnect, TypeOK
<1>4. CASE WorkerInit(o) BY <1>1, <1>4 DEF WorkerInit, Step, TypeOK
<1>5. CASE WorkerRun(o) BY <1>1, <1>5 DEF WorkerRun, Step, TypeOK
<1>6. CASE WorkerQuits(o) BY <1>1, <1>6 DEF WorkerQuits, Step, TypeOK
<1>7. CASE WorkerExit(o) BY <1>1, <1>7 DEF WorkerExit, Step, TypeOK
<1>8. CASE WorkerDies(o) BY <1>1, <1>8 DEF WorkerDies, TypeOK
<1> QED BY <1>2, <1>3, <1>4, <1>5, <1>6, <1>7, <1>8 DEF Worker

\* The callbacks of the main loop on one output keep the types.
LEMMA CallbackType ==
    ASSUME TypeOK, NEW o \in Output, Callback(o)
    PROVE  TypeOK'
<1>e. entry[o] \in EntryType /\ proc[o] \in ProcType BY DEF TypeOK
<1>n. "none" \in ProcType /\ "boot" \in ProcType /\ <<>> \in Seq(Msg)
    BY DEF ProcType, Live
<1>1. CASE AcceptWorker(o)
    <2>1. [entry[o] EXCEPT !.conn = TRUE, !.connected = TRUE, !.io = "conn",
                           !.accept = FALSE, !.stable = TRUE] \in EntryType
        BY <1>e DEF EntryType
    <2> QED BY <1>1, <2>1 DEF AcceptWorker, TypeOK
<1>2. CASE ConnectionLost(o)
    <2>1. [entry[o] EXCEPT !.conn = FALSE, !.connected = FALSE, !.io = "none"]
              \in EntryType
        BY <1>e DEF EntryType
    <2> QED BY <1>2, <2>1 DEF ConnectionLost, TypeOK
<1>3. CASE ChildExit(o)
    <2>1. CASE /\ entry' = [entry EXCEPT ![o] = Scheduled(ChildReaped(@))]
               /\ proc' = [proc EXCEPT ![o] = "none"]
               /\ dialed' = [dialed EXCEPT ![o] = FALSE]
               /\ inbox' = [inbox EXCEPT ![o] = <<>>]
               /\ UNCHANGED <<sender, drain>>
        <3>1. Scheduled(ChildReaped(entry[o])) \in EntryType
            BY <1>e, ReapedFields, ScheduledFields
        <3> QED BY <1>3, <1>n, <2>1, <3>1 DEF ChildExit, TypeOK
    <2>2. CASE /\ Freed({o})
               /\ \E l \in {drain.list, drain.list \ {o}} :
                      drain' = [drain EXCEPT !.list = l]
        <3>1. drain' \in DrainType BY <2>2 DEF TypeOK, DrainType
        <3> QED BY <1>3, <2>2, <3>1, FreedType DEF ChildExit, TypeOK
    <2> QED BY <1>3, <2>1, <2>2 DEF ChildExit
<1>4. CASE AcceptTimeout(o)
    <2>1. [entry[o] EXCEPT !.accept = FALSE] \in EntryType BY <1>e DEF EntryType
    <2>2. proc' \in [Output -> ProcType]
        BY <1>e, <1>4, SignalFacts DEF AcceptTimeout, TypeOK
    <2> QED BY <1>4, <2>1, <2>2 DEF AcceptTimeout, TypeOK
<1>5. CASE StableTimer(o)
    <2>1. [entry[o] EXCEPT !.stable = FALSE, !.attempts = 0] \in EntryType
        BY <1>e DEF EntryType
    <2> QED BY <1>5, <2>1 DEF StableTimer, TypeOK
<1>6. ASSUME NEW ok \in BOOLEAN, NEW fast \in BOOLEAN, RestartTimer(o, ok, fast)
      PROVE  TypeOK'
    <2>1. [entry[o] EXCEPT !.restart = FALSE] \in EntryType BY <1>e DEF EntryType
    <2>2. /\ Launched(Cleaned(entry[o]), fast) \in EntryType
          /\ Scheduled(Cleaned(entry[o])) \in EntryType
        BY <1>e, CleanedFields, LaunchedFields, ScheduledFields
    <2>3. entry' \in [Output -> EntryType]
        BY <1>6, <2>1, <2>2 DEF RestartTimer, TypeOK
    <2>4. proc' \in [Output -> ProcType]
        BY <1>6, <1>n DEF RestartTimer, Forked, TypeOK
    <2>5. dialed' \in [Output -> BOOLEAN] /\ inbox' \in [Output -> Seq(Msg)]
        BY <1>6, <1>n DEF RestartTimer, Forked, TypeOK
    <2> QED BY <1>6, <2>3, <2>4, <2>5 DEF RestartTimer, TypeOK
<1> QED BY <1>1, <1>2, <1>3, <1>4, <1>5, <1>6 DEF Callback

\* Every step keeps the types.
LEMMA TypeNext == TypeOK /\ [Next]_vars => TypeOK'
<1>1. TypeOK /\ UNCHANGED vars => TypeOK' BY DEF vars, TypeOK
<1> QED BY <1>1, ClientType, DrainStepType, SendType, WorkerType, CallbackType DEF Next

-----------------------------------------------------------------------------
(* Workers are owned.                                                      *)

\* A step keeps an entry owned when it changes none of what Owned looks at.
LEMMA OwnedFrame ==
    ASSUME NEW o \in Output, Owned(o), entry'[o].pid = entry[o].pid,
           entry'[o].child = entry[o].child, entry'[o].present = entry[o].present,
           entry'[o].restart = entry[o].restart,
           proc'[o] = "none" <=> proc[o] = "none"
    PROVE  Owned(o)'
BY DEF Owned, EntryOK

\* ... nor a worker after the end.
LEMMA NoneLeftFrame ==
    ASSUME NoneLeft, main' = main \/ main' # "freed",
           \A o \in Output : proc[o] = "none" => proc'[o] = "none"
    PROVE  NoneLeft'
BY DEF NoneLeft

\* A request leaves each worker owned by its entry: what it replaces it has
\* cleaned up before.
LEMMA ClientOwned ==
    ASSUME IInv, Client, NEW q \in Output
    PROVE  Owned(q)' /\ NoneLeft'
<1>t. TypeOK /\ Owned(q) /\ NoneLeft BY DEF IInv
<1>e. entry[q] \in EntryType /\ proc[q] \in ProcType BY <1>t DEF TypeOK
<1>1. ASSUME NEW o \in Output, NEW fast \in BOOLEAN, StartOutput(o, fast)
      PROVE  Owned(q)' /\ NoneLeft'
    <2> DEFINE e == [NoEntry EXCEPT !.present = TRUE]
    <2>1. entry' = [entry EXCEPT ![o] = Launched(e, fast)]
        BY <1>1 DEF StartOutput
    <2>2. proc' = [proc EXCEPT ![o] = "boot"] BY <1>1 DEF StartOutput, Forked
    <2>3. e \in EntryType /\ e.present /\ ~e.restart BY FreshFields
    <2>4. main # "freed" /\ main' = main BY <1>1 DEF StartOutput
    <2> HIDE DEF e
    <2>5. CASE o = q
        <3>1. entry'[q] = Launched(e, fast) /\ proc'[q] = "boot"
            BY <1>t, <2>1, <2>2, <2>5 DEF TypeOK
        <3> QED BY <2>3, <2>4, <3>1, LaunchedFields DEF Owned, EntryOK, NoneLeft
    <2>6. CASE o # q
        BY <1>t, <2>1, <2>2, <2>4, <2>6 DEF Owned, NoneLeft, TypeOK
    <2> QED BY <2>5, <2>6
<1>2. ASSUME NEW o \in Output, StopOutput(o) PROVE Owned(q)' /\ NoneLeft'
    <2>0. main # "freed" /\ main' = main BY <1>2 DEF StopOutput
    <2>1. CASE entry[o].pid /\ ~Freed({o})
        <3>1. /\ entry' = [entry EXCEPT ![o].shutting = TRUE, ![o].restart = FALSE]
              /\ \E p \in SigTermed(proc[o]) : proc' = [proc EXCEPT ![o] = p]
            BY <1>2, <2>1 DEF StopOutput
        <3>2. proc'[q] = "none" <=> proc[q] = "none"
            BY <1>t, <1>e, <3>1, SignalFacts DEF TypeOK
        <3>3. /\ entry'[q].pid = entry[q].pid /\ entry'[q].child = entry[q].child
              /\ entry'[q].present = entry[q].present
              /\ entry'[q].restart = IF o = q THEN FALSE ELSE entry[q].restart
            BY <1>t, <1>e, <3>1 DEF TypeOK, EntryType
        <3> QED BY <1>t, <2>0, <3>2, <3>3 DEF Owned, EntryOK, NoneLeft
    <2>2. CASE Freed({o})
        BY <1>t, <2>0, <2>2, FreedOwned DEF Owned, NoneLeft
    <2> QED BY <1>2, <2>1, <2>2 DEF StopOutput
<1> QED BY <1>1, <1>2 DEF Client

\* A shutdown reaps workers through their entries and starts none.
LEMMA DrainOwned ==
    ASSUME IInv, NEW q \in Output,
           Drain \/ Exit \/ \E by \in {"client", "main"} : ShutdownBegin(by)
    PROVE  Owned(q)' /\ (proc[q] = "none" => proc'[q] = "none")
<1>t. TypeOK /\ Owned(q) BY DEF IInv
<1>e. entry[q] \in EntryType /\ proc[q] \in ProcType BY <1>t DEF TypeOK
<1>0. Present \in SUBSET Output BY DEF Present
<1>1. ASSUME NEW by \in {"client", "main"}, ShutdownBegin(by)
      PROVE  Owned(q)' /\ proc' = proc
    <2>1. /\ entry'[q].pid = entry[q].pid /\ entry'[q].child = entry[q].child
          /\ entry'[q].present = entry[q].present
          /\ entry'[q].restart = entry[q].restart
        BY <1>e, <1>1 DEF ShutdownBegin, EntryType
    <2>2. proc' = proc BY <1>1 DEF ShutdownBegin
    <2> QED BY <1>t, <2>1, <2>2, OwnedFrame
<1>2. ASSUME NEW o \in Output, DrainReap(o)
      PROVE  Owned(q)' /\ (proc[q] = "none" => proc'[q] = "none")
    <2>1. CASE o = q
        <3>1. proc'[q] = "none" BY <1>t, <1>2, <2>1 DEF DrainReap, TypeOK
        <3>2. /\ ~entry'[q].pid /\ entry'[q].child = entry[q].child
              /\ entry'[q].present = entry[q].present
              /\ entry'[q].restart = entry[q].restart
            BY <1>t, <1>e, <1>2, <2>1 DEF DrainReap, TypeOK, EntryType
        <3> QED BY <1>t, <3>1, <3>2 DEF Owned, EntryOK
    <2>2. CASE o # q
        <3>1. entry'[q] = entry[q] /\ proc'[q] = proc[q]
            BY <1>t, <1>2, <2>2 DEF DrainReap, TypeOK
        <3> QED BY <1>t, <3>1, OwnedFrame
    <2> QED BY <2>1, <2>2
<1>3. CASE DrainDone \/ DrainKill \/ SupervisorFree
    <2>1. Freed(Present) BY <1>3 DEF DrainDone, DrainKill, SupervisorFree
    <2> QED BY <1>t, <1>0, <2>1, FreedOwned DEF Owned
<1>4. CASE DrainTerm
    <2>1. proc'[q] = "none" <=> proc[q] = "none"
        BY <1>e, <1>4, SignalFacts DEF DrainTerm
    <2> QED BY <1>t, <1>4, <2>1, OwnedFrame DEF DrainTerm
<1>5. CASE QuitIdle BY <1>t, <1>5, OwnedFrame DEF QuitIdle
<1> QED BY <1>1, <1>2, <1>3, <1>4, <1>5 DEF Drain, Exit

\* The end of the server frees every entry of the table, and with it the last
\* workers.
LEMMA DrainNoneLeft ==
    ASSUME IInv,
           Drain \/ Exit \/ \E by \in {"client", "main"} : ShutdownBegin(by)
    PROVE  NoneLeft'
<1>t. TypeOK /\ NoneLeft BY DEF IInv
<1>1. CASE SupervisorFree
    <2> SUFFICES ASSUME NEW o \in Output PROVE proc'[o] = "none"
        BY DEF NoneLeft
    <2>1. Owned(o) /\ Freed(Present) BY <1>1 DEF IInv, SupervisorFree
    <2>2. o \in Present \/ ~entry[o].present BY DEF Present
    <2>3. o \notin Present => proc[o] = "none" BY <2>1, <2>2 DEF Owned, EntryOK
    <2>4. Present \in SUBSET Output BY DEF Present
    <2> QED BY <1>t, <2>1, <2>3, <2>4, FreedOwned
<1>2. CASE ~SupervisorFree
    <2>1. main' = main \/ main' # "freed"
        BY <1>2 DEF Drain, Exit, ShutdownBegin, DrainReap, DrainDone, DrainTerm, DrainKill,
                    QuitIdle
    <2>2. \A o \in Output : proc[o] = "none" => proc'[o] = "none" BY DrainOwned
    <2> QED BY <1>t, <2>1, <2>2, NoneLeftFrame
<1> QED BY <1>1, <1>2

\* A failed send lets go of a connection, never of a worker.
LEMMA SendOwned ==
    ASSUME IInv, NEW q \in Output,
           SendRest \/ \E o \in Output, kind \in {"frame", "audio"} : SendPick(o, kind)
    PROVE  Owned(q)' /\ (proc[q] = "none" => proc'[q] = "none")
<1>t. TypeOK /\ Owned(q) BY DEF IInv
<1>e. entry[q] \in EntryType /\ proc[q] \in ProcType BY <1>t DEF TypeOK
<1>1. CASE SendOk \/ SendDropped \/ \E o \in Output, kind \in {"frame", "audio"} : SendPick(o, kind)
    <2>1. entry' = entry /\ proc' = proc BY <1>1 DEF SendOk, SendDropped, SendPick
    <2> QED BY <1>t, <2>1, OwnedFrame
<1>2. CASE SendBroken
    <2>1. /\ entry'[q].pid = entry[q].pid /\ entry'[q].child = entry[q].child
          /\ entry'[q].present = entry[q].present
          /\ entry'[q].restart = entry[q].restart
        BY <1>t, <1>e, <1>2 DEF SendBroken, TypeOK, EntryType
    <2>2. proc' = proc BY <1>2 DEF SendBroken
    <2> QED BY <1>t, <2>1, <2>2, OwnedFrame
<1>3. CASE SendClose
    <2>1. /\ entry'[q].pid = entry[q].pid /\ entry'[q].child = entry[q].child
          /\ entry'[q].present = entry[q].present
          /\ entry'[q].restart = entry[q].restart
        <3>1. entry' = entry \/ entry' = [entry EXCEPT ![sender.out].conn = FALSE]
            BY <1>3 DEF SendClose
        <3>2. entry'[q] = entry[q] \/ entry'[q] = [entry[q] EXCEPT !.conn = FALSE]
            BY <1>t, <3>1 DEF TypeOK
        <3> QED BY <1>e, <3>2 DEF EntryType
    <2>2. proc'[q] = "none" <=> proc[q] = "none"
        <3>1. proc' = proc \/ proc' = [proc EXCEPT ![sender.out] =
                     IF entry[sender.out].pid /\ ~entry[sender.out].shutting
                     THEN SigKilled(@) ELSE @]
            BY <1>3 DEF SendClose
        <3>2. CASE q = sender.out
            <4>1. proc'[q] = proc[q] \/ proc'[q] = SigKilled(proc[q])
                BY <1>t, <3>1, <3>2 DEF TypeOK
            <4> QED BY <1>e, <4>1, SignalFacts
        <3>3. CASE q # sender.out
            BY <1>t, <3>1, <3>3 DEF TypeOK
        <3> QED BY <3>2, <3>3
    <2> QED BY <1>t, <2>1, <2>2, OwnedFrame
<1> QED BY <1>1, <1>2, <1>3 DEF SendRest

\* A worker does not touch the table, and one that is gone stays gone.
LEMMA WorkerOwnedStep ==
    ASSUME IInv, NEW q \in Output, NEW o \in Output, Worker(o)
    PROVE  Owned(q)' /\ (proc[q] = "none" => proc'[q] = "none")
<1>t. TypeOK /\ Owned(q) BY DEF IInv
<1>1. entry' = entry
    BY DEF Worker, WorkerConnect, WorkerInit, WorkerRun, WorkerRead, WorkerQuits,
           WorkerExit, WorkerDies
<1>2. \/ proc' = proc
      \/ /\ proc[o] \in Live
         /\ \E p \in ProcType \ {"none"} : proc' = [proc EXCEPT ![o] = p]
    BY DEF Worker, WorkerConnect, WorkerInit, WorkerRun, WorkerRead, WorkerQuits,
           WorkerExit, WorkerDies, Step, ProcType, Live
<1>3. proc'[q] = "none" <=> proc[q] = "none"
    BY <1>t, <1>2 DEF TypeOK, Live
<1> QED BY <1>t, <1>1, <1>3, OwnedFrame

\* The callbacks, the restart timer and the child watch among them, leave each
\* worker owned by its entry.
LEMMA CallbackOwned ==
    ASSUME IInv, NEW q \in Output, NEW o \in Output, Callback(o)
    PROVE  Owned(q)'
<1>t. TypeOK /\ Owned(q) BY DEF IInv
<1>e. entry[q] \in EntryType /\ proc[q] \in ProcType BY <1>t DEF TypeOK
<1>1. CASE AcceptWorker(o) \/ ConnectionLost(o) \/ StableTimer(o)
    <2>1. proc' = proc BY <1>1 DEF AcceptWorker, ConnectionLost, StableTimer
    <2>2. CASE o = q
        <3>1. /\ entry'[q].pid = entry[q].pid /\ entry'[q].child = entry[q].child
              /\ entry'[q].present = entry[q].present
              /\ entry'[q].restart = entry[q].restart
            BY <1>t, <1>e, <1>1, <2>2
               DEF AcceptWorker, ConnectionLost, StableTimer, TypeOK, EntryType
        <3> QED BY <1>t, <2>1, <3>1, OwnedFrame
    <2>3. CASE o # q
        <3>1. entry'[q] = entry[q]
            BY <1>t, <1>1, <2>3 DEF AcceptWorker, ConnectionLost, StableTimer, TypeOK
        <3> QED BY <1>t, <2>1, <3>1, OwnedFrame
    <2> QED BY <2>2, <2>3
<1>2. CASE AcceptTimeout(o)
    <2>1. proc'[q] = "none" <=> proc[q] = "none"
        BY <1>t, <1>e, <1>2, SignalFacts DEF AcceptTimeout, TypeOK
    <2>2. /\ entry'[q].pid = entry[q].pid /\ entry'[q].child = entry[q].child
          /\ entry'[q].present = entry[q].present
          /\ entry'[q].restart = entry[q].restart
        BY <1>t, <1>e, <1>2 DEF AcceptTimeout, TypeOK, EntryType
    <2> QED BY <1>t, <2>1, <2>2, OwnedFrame
<1>3. CASE ChildExit(o)
    <2>1. CASE Freed({o}) BY <1>t, <2>1, FreedOwned DEF Owned
    <2>2. CASE /\ entry' = [entry EXCEPT ![o] = Scheduled(ChildReaped(@))]
               /\ proc' = [proc EXCEPT ![o] = "none"]
               /\ o = q
        <3> DEFINE e == ChildReaped(entry[q])
        <3>1. entry'[q] = Scheduled(e) /\ proc'[q] = "none" BY <1>t, <2>2 DEF TypeOK
        <3>2. e \in EntryType /\ ~e.pid /\ ~e.child /\ e.present = entry[q].present
            BY <1>e, ReapedFields
        <3>3. entry[q].present BY <1>t, <1>3, <2>2 DEF ChildExit, Owned, EntryOK
        <3> HIDE DEF e
        <3> QED BY <3>1, <3>2, <3>3, ScheduledFields DEF Owned, EntryOK
    <2>3. CASE /\ entry' = [entry EXCEPT ![o] = Scheduled(ChildReaped(@))]
               /\ proc' = [proc EXCEPT ![o] = "none"]
               /\ o # q
        BY <1>t, <2>3, OwnedFrame DEF TypeOK
    <2> QED BY <1>3, <2>1, <2>2, <2>3 DEF ChildExit
<1>4. ASSUME NEW ok \in BOOLEAN, NEW fast \in BOOLEAN, RestartTimer(o, ok, fast)
      PROVE  Owned(q)'
    <2>1. CASE o # q
        <3>1. entry'[q] = entry[q] /\ proc'[q] = proc[q]
            BY <1>t, <1>4, <2>1 DEF RestartTimer, Forked, TypeOK
        <3> QED BY <1>t, <3>1, OwnedFrame
    <2>2. CASE o = q
        <3> DEFINE e == Cleaned(entry[q])
        <3>1. entry[q].restart /\ entry[q].present /\ proc[q] = "none"
            BY <1>t, <1>e, <1>4, <2>2 DEF RestartTimer, Owned, EntryOK
        <3>2. /\ e \in EntryType /\ ~e.pid /\ ~e.child /\ ~e.restart
              /\ e.present = entry[q].present
            BY <1>e, CleanedFields
        <3>3. \/ entry'[q] = [entry[q] EXCEPT !.restart = FALSE] /\ proc' = proc
              \/ entry'[q] = Launched(e, fast) /\ proc'[q] = "boot"
              \/ entry'[q] = Scheduled(e) /\ proc' = proc
            BY <1>t, <1>4, <2>2 DEF RestartTimer, Forked, TypeOK
        <3> HIDE DEF e
        <3>4. CASE entry'[q] = [entry[q] EXCEPT !.restart = FALSE] /\ proc' = proc
            <4>1. /\ entry'[q].pid = entry[q].pid /\ entry'[q].child = entry[q].child
                  /\ entry'[q].present = entry[q].present /\ ~entry'[q].restart
                BY <1>e, <3>4 DEF EntryType
            <4> QED BY <1>t, <3>4, <4>1 DEF Owned, EntryOK
        <3>5. CASE entry'[q] = Launched(e, fast) /\ proc'[q] = "boot"
            BY <3>1, <3>2, <3>5, LaunchedFields DEF Owned, EntryOK
        <3>6. CASE entry'[q] = Scheduled(e) /\ proc' = proc
            BY <3>1, <3>2, <3>6, ScheduledFields DEF Owned, EntryOK
        <3> QED BY <3>3, <3>4, <3>5, <3>6
    <2> QED BY <2>1, <2>2
<1> QED BY <1>1, <1>2, <1>3, <1>4 DEF Callback

\* Every step keeps the invariant.
LEMMA NextIInv == IInv /\ [Next]_vars => IInv'
<1> SUFFICES ASSUME IInv, [Next]_vars PROVE IInv'
    OBVIOUS
<1>1. TypeOK' BY TypeNext DEF IInv
<1>2. ASSUME NEW q \in Output PROVE Owned(q)'
    <2>1. CASE UNCHANGED vars
        BY <2>1, OwnedFrame DEF vars, IInv
    <2> QED BY <2>1, ClientOwned, DrainOwned, SendOwned, WorkerOwnedStep, CallbackOwned
            DEF Next
<1>3. NoneLeft'
    <2>0. NoneLeft BY DEF IInv
    <2>1. CASE Client
        BY <2>0, <2>1, ClientOwned DEF NoneLeft
    <2>2. CASE Drain \/ Exit \/ \E by \in {"client", "main"} : ShutdownBegin(by)
        BY <2>2, DrainNoneLeft
    <2>3. CASE SendRest \/ \E o \in Output, kind \in {"frame", "audio"} : SendPick(o, kind)
        <3>1. main' = main
            BY <2>3 DEF SendRest, SendPick, SendOk, SendDropped, SendBroken, SendClose
        <3> QED BY <2>0, <2>3, <3>1, SendOwned, NoneLeftFrame
    <2>4. CASE \E o \in Output : Worker(o)
        <3>1. main' = main
            BY <2>4 DEF Worker, WorkerConnect, WorkerInit, WorkerRun, WorkerRead,
                        WorkerQuits, WorkerExit, WorkerDies
        <3> QED BY <2>0, <2>4, <3>1, WorkerOwnedStep, NoneLeftFrame
    <2>5. CASE \E o \in Output : Callback(o)
        <3>1. main' = "loop"
            BY <2>5 DEF Callback, AcceptWorker, ConnectionLost, ChildExit, AcceptTimeout,
                        StableTimer, RestartTimer
        <3> QED BY <3>1 DEF NoneLeft
    <2>6. CASE UNCHANGED vars BY <2>0, <2>6 DEF vars, NoneLeft
    <2> QED BY <2>1, <2>2, <2>3, <2>4, <2>5, <2>6 DEF Next
<1> QED BY <1>1, <1>2, <1>3 DEF IInv

-----------------------------------------------------------------------------
\* Initially there are no entries, no workers and nobody sends.
LEMMA InitIInv == Init => IInv
<1> SUFFICES ASSUME Init PROVE IInv
    OBVIOUS
<1>1. TypeOK
    <2>1. "none" \in ProcType /\ <<>> \in Seq(Msg) BY DEF ProcType
    <2>2. IdleSender \in SenderType /\ IdleSender.pc = "idle"
        BY DEF IdleSender, SenderType
    <2>3. NotDraining \in DrainType BY DEF NotDraining, DrainType
    <2> QED BY <2>1, <2>2, <2>3, FreshFields DEF Init, TypeOK
<1>2. \A o \in Output : Owned(o) BY FreshFields DEF Init, Owned
<1>3. NoneLeft BY DEF Init, NoneLeft
<1> QED BY <1>1, <1>2, <1>3 DEF IInv

\* The invariant holds in every state.
LEMMA Invariance == Spec => []IInv
BY InitIInv, NextIInv, PTL DEF Spec

\* The state only takes the values the code can give it; the thread that sends
\* holds an output of the table while it sends.
THEOREM TypesCorrect == Spec => []TypeOK
<1>1. IInv => TypeOK BY DEF IInv
<1> QED BY <1>1, Invariance, PTL

\* Whatever the order of stops, restarts, crashes, broken pipes and shutdowns on
\* their threads, a worker process not waited for belongs to an entry of the
\* table that knows its pid and watches it, and none outlives the supervisor.
THEOREM OwnedCorrect == Spec => []WorkerOwned
<1>1. IInv => WorkerOwned
    <2> SUFFICES ASSUME IInv, NEW o \in Output
                 PROVE  /\ proc[o] # "none" =>
                               entry[o].present /\ entry[o].pid /\ entry[o].child
                        /\ main = "freed" => proc[o] = "none"
        BY DEF WorkerOwned
    <2> QED BY DEF IInv, Owned, EntryOK, NoneLeft
<1> QED BY <1>1, Invariance, PTL
=============================================================================
