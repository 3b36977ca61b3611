------------------------ MODULE InstanceManagerProofs ------------------------
(***************************************************************************)
(* Proofs about InstanceManager, for any number of ids, spawns and crashes *)
(* of the controller.                                                      *)
(*                                                                         *)
(* Handlers are compositions of functions of the manager's state, so the   *)
(* invariant is stated of such a state, t, and a lemma for each function   *)
(* says that it keeps it.  Four parts: an entry that runs has a watched    *)
(* process and one that is not there has none (Tabled); a running process  *)
(* is the entry's own or a lost one (Known); ids on disk and ids handed    *)
(* out are below the next one (Numbered); the disk holds the table, but    *)
(* for the ids of b, a stop that waits (Current).                          *)
(***************************************************************************)
EXTENDS InstanceManager, FiniteSetTheorems, SequenceTheorems, TLAPS

Entry == [present : BOOLEAN, desired : BOOLEAN, running : BOOLEAN, pid : {0} \cup Pid]
Life == {"running", "zombie", "reaped"}

\* What the functions of the manager work on.
State ==
    [inst : [Id -> Entry], next : 1 .. MaxId + 1, watch : [Id -> SUBSET Pid],
     disk : [next : 0 .. MaxId + 1, want : [Id -> {"absent", "on", "off"}]],
     proc : [Id -> Seq(Life)], forks : 0 .. MaxSpawn,
     failed : [Id -> BOOLEAN], unsaved : SUBSET {"last", "ever"}]

TypeOK ==
    /\ up \in BOOLEAN
    /\ Now \in State
    /\ idle \in [Id -> Nat]
    /\ blocked \in [id : Id, pid : {0} \cup Pid, then : After]
    /\ crashes \in Nat
    /\ lost \in [Id -> SUBSET Pid]
    /\ used \subseteq Id

\* An entry that runs has a process of its own, which is watched; one that is
\* not there neither runs nor wishes to.
Tabled(t) ==
    \A i \in Id :
        /\ t.inst[i].running => /\ t.inst[i].pid \in t.watch[i]
                                /\ t.inst[i].pid \in 1 .. Len(t.proc[i])
        /\ ~ t.inst[i].running => t.inst[i].pid = 0
        /\ ~ t.inst[i].present => ~ t.inst[i].running /\ ~ t.inst[i].desired
        /\ Len(t.proc[i]) <= t.forks

\* A process that runs is its entry's, or one of those lost, l.
Known(t, l) ==
    \A i \in Id : \A p \in 1 .. Len(t.proc[i]) :
        t.proc[i][p] = "running" => p = t.inst[i].pid \/ p \in l[i]

\* Every id in the table, in the file, or handed out before, u, is below the
\* next one.
Numbered(t, u) ==
    /\ \A i \in Id : t.inst[i].present => i < t.next
    /\ \A i \in Id : t.disk.want[i] # "absent" => i < t.disk.next
    /\ "ever" \notin t.unsaved => "last" \notin t.unsaved /\ \A i \in u : i < t.next

Sound(t, l, u) == t \in State /\ Tabled(t) /\ Known(t, l) /\ Numbered(t, u)

\* The file holds the table, but for the ids in b.
Current(t, b) ==
    "last" \notin t.unsaved =>
        /\ t.disk.next = t.next
        /\ \A i \in Id \ b : t.disk.want[i] = Want(t.inst[i])

\* The id whose stop waits.
Waiting == IF blocked # NotBlocked THEN {blocked.id} ELSE {}

\* A controller that is down has nothing in memory; every id handed out is in
\* the file's count.
Down ==
    ~ up => /\ inst = [i \in Id |-> NoEntry]
            /\ "ever" \notin unsaved => \A i \in used : i < disk.next

IInv ==
    /\ TypeOK /\ Tabled(Now) /\ Known(Now, lost)
    /\ up => Numbered(Now, used) /\ Current(Now, Waiting)
    /\ \A i \in Id : disk.want[i] # "absent" => i < disk.next
    /\ "ever" \notin unsaved => "last" \notin unsaved
    /\ Down

-----------------------------------------------------------------------------
(* What the functions of the manager keep.                                 *)

\* A list of processes with one of them in another state.
Marked(s, k, e) == [s EXCEPT ![k] = e]

\* Marking one process of a list changes that one, if it is there.
LEMMA MarkedSeq ==
    ASSUME NEW s \in Seq(Life), NEW k, NEW e \in Life
    PROVE  /\ Marked(s, k, e) \in Seq(Life) /\ Len(Marked(s, k, e)) = Len(s)
           /\ \A j \in 1 .. Len(s) : Marked(s, k, e)[j] = IF j = k THEN e ELSE s[j]
<1>1. CASE k \in 1 .. Len(s) BY <1>1, ExceptSeq DEF Marked
<1>2. CASE k \notin 1 .. Len(s)
    <2>1. DOMAIN s = 1 .. Len(s) /\ s = [j \in 1 .. Len(s) |-> s[j]] OBVIOUS
    <2>2. Marked(s, k, e) = s BY <1>2, <2>1, Zenon DEF Marked
    <2> QED BY <1>2, <2>2
<1> QED BY <1>1, <1>2

\* save_metadata: after it the file holds the table, or it failed.
LEMMA SavedSound ==
    ASSUME NEW t, NEW l, NEW u, NEW sv \in BOOLEAN, Sound(t, l, u)
    PROVE  /\ Sound(Saved(t, sv), l, u) /\ Current(Saved(t, sv), {})
           /\ Saved(t, sv).inst = t.inst
<1> USE DEF Sound
<1>1. CASE ~ sv
    <2>1. Saved(t, sv) = [t EXCEPT !.unsaved = {"last", "ever"}] BY <1>1 DEF Saved
    <2>2. Saved(t, sv) \in State BY <2>1 DEF State
    <2>3. /\ Saved(t, sv).inst = t.inst /\ Saved(t, sv).next = t.next
          /\ Saved(t, sv).watch = t.watch /\ Saved(t, sv).disk = t.disk
          /\ Saved(t, sv).proc = t.proc /\ Saved(t, sv).forks = t.forks
          /\ Saved(t, sv).unsaved = {"last", "ever"}
        BY <2>1 DEF State
    <2> QED BY <2>2, <2>3 DEF Tabled, Known, Numbered, Current
<1>2. CASE sv
    <2> DEFINE d == [next |-> t.next, want |-> [i \in Id |-> Want(t.inst[i])]]
    <2>1. Saved(t, sv) = [t EXCEPT !.unsaved = @ \ {"last"}, !.disk = d] BY <1>2 DEF Saved
    <2>2. \A i \in Id : Want(t.inst[i]) \in {"absent", "on", "off"} BY DEF Want
    <2>3. d \in [next : 0 .. MaxId + 1, want : [Id -> {"absent", "on", "off"}]]
        <3>1. t.next \in 0 .. MaxId + 1 BY BoundsAssumption DEF State
        <3> QED BY <2>2, <3>1
    <2>4. d.next = t.next /\ \A i \in Id : d.want[i] = Want(t.inst[i]) OBVIOUS
    <2> HIDE DEF d
    <2>5. Saved(t, sv) \in State BY <2>1, <2>3 DEF State
    <2>6. /\ Saved(t, sv).inst = t.inst /\ Saved(t, sv).next = t.next
          /\ Saved(t, sv).watch = t.watch /\ Saved(t, sv).disk = d
          /\ Saved(t, sv).proc = t.proc /\ Saved(t, sv).forks = t.forks
          /\ Saved(t, sv).unsaved = t.unsaved \ {"last"}
        BY <2>1 DEF State
    <2>7. \A i \in Id : d.want[i] # "absent" => i < d.next
        BY <2>4 DEF Want, Numbered
    <2> QED BY <2>4, <2>5, <2>6, <2>7 DEF Tabled, Known, Numbered, Current
<1> QED BY <1>1, <1>2

\* refresh_all_states: an entry whose process ended is cleared, and nothing else
\* happens to it.
LEMMA RefreshedSound ==
    ASSUME NEW t, NEW l, NEW u, NEW b, Sound(t, l, u)
    PROVE  /\ Sound(Refreshed(t), l, u)
           /\ Current(t, b) => Current(Refreshed(t), b)
           /\ \A i \in Id : /\ Refreshed(t).inst[i].present = t.inst[i].present
                            /\ Refreshed(t).inst[i].desired = t.inst[i].desired
<1> USE DEF Sound
<1> DEFINE r == Refreshed(t)
           n == [i \in Id |-> IF Finished(t, i)
                              THEN Cleared(t.inst[i])
                              ELSE t.inst[i]]
           w == [i \in Id |-> IF Finished(t, i)
                              THEN [t.proc[i] EXCEPT ![t.inst[i].pid] = "reaped"]
                              ELSE t.proc[i]]
<1>1. r = [t EXCEPT !.inst = n, !.proc = w] BY DEF Refreshed
<1>2. ASSUME NEW i \in Id
      PROVE  /\ n[i] \in Entry
             /\ n[i].present = t.inst[i].present /\ n[i].desired = t.inst[i].desired
             /\ ~ Finished(t, i) => n[i] = t.inst[i] /\ w[i] = t.proc[i]
             /\ Finished(t, i) => ~ n[i].running /\ n[i].pid = 0
    <2>1. t.inst[i] \in Entry BY DEF State
    <2> QED BY <2>1 DEF Entry, Cleared
<1>3. ASSUME NEW i \in Id
      PROVE  /\ w[i] \in Seq(Life) /\ Len(w[i]) = Len(t.proc[i])
             /\ \A p \in 1 .. Len(t.proc[i]) :
                    w[i][p] = "running" =>
                        t.proc[i][p] = "running" /\ (Finished(t, i) => p # t.inst[i].pid)
    <2>1. t.proc[i] \in Seq(Life) /\ "reaped" \in Life BY DEF State, Life
    <2>2. CASE Finished(t, i)
        <3>1. w[i] = Marked(t.proc[i], t.inst[i].pid, "reaped") BY <2>2 DEF Marked
        <3> HIDE DEF w
        <3> QED BY <2>1, <3>1, MarkedSeq
    <2>3. CASE ~ Finished(t, i) BY <2>1, <2>3
    <2> QED BY <2>2, <2>3
<1>4. n \in [Id -> Entry] /\ w \in [Id -> Seq(Life)] BY <1>2, <1>3
<1> HIDE DEF n, w, r
<1>5. r \in State BY <1>1, <1>4 DEF State
<1>6. /\ r.inst = n /\ r.next = t.next /\ r.watch = t.watch /\ r.disk = t.disk
      /\ r.proc = w /\ r.forks = t.forks /\ r.unsaved = t.unsaved
    BY <1>1 DEF State
<1>7. Tabled(r) BY <1>2, <1>3, <1>6 DEF Tabled
<1>8. Known(r, l) BY <1>2, <1>3, <1>6 DEF Known
<1>9. Numbered(r, u) BY <1>2, <1>6 DEF Numbered
<1>10. Current(t, b) => Current(r, b) BY <1>2, <1>6 DEF Current, Want
<1>11. Sound(r, l, u) BY <1>5, <1>7, <1>8, <1>9
<1>12. \A i \in Id : /\ r.inst[i].present = t.inst[i].present
                     /\ r.inst[i].desired = t.inst[i].desired
    BY <1>2, <1>6
<1> HIDE DEF Sound
<1> QED BY <1>10, <1>11, <1>12 DEF r

\* A spawn of an instance that does not run.
LEMMA ForkedSound ==
    ASSUME NEW t, NEW l, NEW u, NEW i \in Id, Sound(t, l, u),
           t.inst[i].present, ~ t.inst[i].running, t.forks < MaxSpawn
    PROVE  /\ Sound(Forked(t, i), l, u)
           /\ Forked(t, i).forks = t.forks + 1 /\ Forked(t, i).next = t.next
<1> USE DEF Sound
<1> DEFINE r == Forked(t, i)
           p == Len(t.proc[i]) + 1
           e == [t.inst[i] EXCEPT !.pid = p, !.running = TRUE, !.desired = TRUE]
           n == [t.inst EXCEPT ![i] = e]
           q == Append(t.proc[i], "running")
<1>0. /\ t.inst \in [Id -> Entry] /\ t.proc \in [Id -> Seq(Life)]
      /\ t.watch \in [Id -> SUBSET Pid] /\ t.failed \in [Id -> BOOLEAN]
      /\ t.forks \in 0 .. MaxSpawn
      /\ t.inst[i] \in Entry /\ t.proc[i] \in Seq(Life) /\ Len(t.proc[i]) \in Nat
    BY DEF State
<1>1. p \in Pid /\ p # 0
    BY <1>0, BoundsAssumption DEF Tabled, Pid
<1>2. e \in Entry BY <1>0, <1>1 DEF Entry
<1>3. /\ q \in Seq(Life) /\ Len(q) = p
      /\ \A j \in 1 .. Len(q) : q[j] = IF j = p THEN "running" ELSE t.proc[i][j]
    BY <1>0, AppendProperties DEF Life
<1>4. r = [t EXCEPT !.proc = [t.proc EXCEPT ![i] = q], !.forks = t.forks + 1, !.inst = n,
                    !.watch = [t.watch EXCEPT ![i] = @ \cup {p}],
                    !.failed = [t.failed EXCEPT ![i] = FALSE]]
    BY DEF Forked, State
<1>b. n \in [Id -> Entry] /\ \A j \in Id : n[j] = IF j = i THEN e ELSE t.inst[j]
    BY <1>0, <1>2
<1>a. e.present /\ e.running /\ e.pid = p BY <1>0 DEF Entry
<1> HIDE DEF e, q, r, n
<1>5. /\ [t.proc EXCEPT ![i] = q] \in [Id -> Seq(Life)]
      /\ n \in [Id -> Entry]
      /\ [t.watch EXCEPT ![i] = @ \cup {p}] \in [Id -> SUBSET Pid]
      /\ [t.failed EXCEPT ![i] = FALSE] \in [Id -> BOOLEAN]
      /\ t.forks + 1 \in 0 .. MaxSpawn
    BY <1>0, <1>1, <1>2, <1>3, <1>b, BoundsAssumption
<1>6. r \in State BY <1>4, <1>5 DEF State
<1>7. /\ r.next = t.next /\ r.disk = t.disk /\ r.unsaved = t.unsaved /\ r.forks = t.forks + 1
      /\ \A j \in Id : /\ r.inst[j] = IF j = i THEN e ELSE t.inst[j]
                       /\ r.proc[j] = IF j = i THEN q ELSE t.proc[j]
                       /\ r.watch[j] = IF j = i THEN t.watch[j] \cup {p} ELSE t.watch[j]
    BY <1>0, <1>4, <1>b DEF State
<1>c. p = Len(t.proc[i]) + 1 /\ p <= t.forks + 1 /\ p \in 1 .. p
    BY <1>0, BoundsAssumption DEF Tabled
<1>d. p \in Nat /\ \A k \in 1 .. p : k = p \/ k \in 1 .. Len(t.proc[i]) BY <1>0, <1>c
<1> HIDE DEF p
<1>8. Tabled(r)
    <2>1. ASSUME NEW j \in Id
          PROVE  /\ r.inst[j].running => /\ r.inst[j].pid \in r.watch[j]
                                         /\ r.inst[j].pid \in 1 .. Len(r.proc[j])
                 /\ ~ r.inst[j].running => r.inst[j].pid = 0
                 /\ ~ r.inst[j].present => ~ r.inst[j].running /\ ~ r.inst[j].desired
                 /\ Len(r.proc[j]) <= r.forks
        <3>1. CASE j = i
            <4>1. r.inst[j] = e /\ r.proc[j] = q /\ p \in r.watch[j] BY <1>7, <3>1
            <4>2. Len(q) = p /\ p \in 1 .. p /\ p <= t.forks + 1 BY <1>3, <1>c
            <4> QED BY <1>7, <1>a, <4>1, <4>2
        <3>2. CASE j # i
            <4>1. Len(t.proc[j]) <= t.forks + 1
                <5>1. Len(t.proc[j]) \in Nat BY <1>0
                <5>2. Len(t.proc[j]) <= t.forks BY DEF Tabled
                <5> QED BY <1>0, <5>1, <5>2
            <4>2. r.inst[j] = t.inst[j] /\ r.proc[j] = t.proc[j] /\ r.watch[j] = t.watch[j]
                BY <1>7, <3>2
            <4> QED BY <1>7, <4>1, <4>2 DEF Tabled
        <3> QED BY <3>1, <3>2
    <2> QED BY <2>1 DEF Tabled
<1>9. Known(r, l)
    <2>1. ASSUME NEW j \in Id, NEW k \in 1 .. Len(r.proc[j]), r.proc[j][k] = "running"
          PROVE  k = r.inst[j].pid \/ k \in l[j]
        <3>1. CASE j = i
            <4>1. CASE k = p BY <1>7, <1>a, <3>1, <4>1
            <4>2. CASE k # p
                <5>1. k \in 1 .. Len(t.proc[i]) /\ t.proc[i][k] = "running"
                    BY <1>3, <1>7, <1>d, <2>1, <3>1, <4>2
                <5>2. t.inst[i].pid = 0 BY DEF Tabled
                <5> QED BY <3>1, <5>1, <5>2 DEF Known
            <4> QED BY <4>1, <4>2
        <3>2. CASE j # i BY <1>7, <2>1, <3>2 DEF Known
        <3> QED BY <3>1, <3>2
    <2> QED BY <2>1 DEF Known
<1>10. Numbered(r, u) BY <1>7, <1>a DEF Numbered
<1>11. Sound(r, l, u) BY <1>6, <1>8, <1>9, <1>10
<1> HIDE DEF Sound
<1> QED BY <1>7, <1>11 DEF r

\* The last spawn failed.
LEMMA FailedSound ==
    ASSUME NEW t, NEW l, NEW u, NEW b, NEW i \in Id, Sound(t, l, u)
    PROVE  /\ Sound([t EXCEPT !.failed[i] = TRUE], l, u)
           /\ Current(t, b) => Current([t EXCEPT !.failed[i] = TRUE], b)
<1> USE DEF Sound
<1> DEFINE r == [t EXCEPT !.failed[i] = TRUE]
           f == [t.failed EXCEPT ![i] = TRUE]
<1>1. r = [t EXCEPT !.failed = f] OBVIOUS
<1>2. f \in [Id -> BOOLEAN] BY DEF State
<1> HIDE DEF r, f
<1>3. r \in State BY <1>1, <1>2 DEF State
<1>4. /\ r.inst = t.inst /\ r.next = t.next /\ r.watch = t.watch /\ r.disk = t.disk
      /\ r.proc = t.proc /\ r.forks = t.forks /\ r.unsaved = t.unsaved
    BY <1>1 DEF State
<1>5. Sound(r, l, u) BY <1>3, <1>4 DEF Tabled, Known, Numbered
<1>6. Current(t, b) => Current(r, b) BY <1>4 DEF Current
<1> HIDE DEF Sound
<1> QED BY <1>5, <1>6 DEF r

\* spawn_instance: nothing, a spawn that is saved, or one that failed.
LEMMA SpawnedSound ==
    ASSUME NEW t, NEW l, NEW u, NEW b, NEW i \in Id, NEW ok \in BOOLEAN, NEW sv \in BOOLEAN,
           Sound(t, l, u), Current(t, b), t.inst[i].present
    PROVE  Sound(Spawned(t, i, ok, sv), l, u) /\ Current(Spawned(t, i, ok, sv), b)
<1>1. CASE t.inst[i].running BY <1>1 DEF Spawned
<1>2. CASE ~ t.inst[i].running /\ ok /\ t.forks < MaxSpawn
    <2>1. Spawned(t, i, ok, sv) = Saved(Forked(t, i), sv) BY <1>2 DEF Spawned
    <2>2. Sound(Forked(t, i), l, u) BY <1>2, ForkedSound
    <2>3. Sound(Saved(Forked(t, i), sv), l, u) /\ Current(Saved(Forked(t, i), sv), {})
        BY <2>2, SavedSound
    <2>4. \A r : Current(r, {}) => Current(r, b) BY DEF Current
    <2> QED BY <2>1, <2>3, <2>4
<1>3. CASE ~ t.inst[i].running /\ ~(ok /\ t.forks < MaxSpawn)
    <2>1. Spawned(t, i, ok, sv) = [t EXCEPT !.failed[i] = TRUE] BY <1>3 DEF Spawned
    <2> QED BY <2>1, FailedSound
<1> QED BY <1>1, <1>2, <1>3

\* An entry is replaced, and the next id is n.
WithEntry(t, i, e, n) == [t EXCEPT !.inst = [t.inst EXCEPT ![i] = e], !.next = n]

\* An entry is replaced by one that does not run, below the next id n.
LEMMA EntrySound ==
    ASSUME NEW t, NEW l, NEW u, NEW v, NEW i \in Id, NEW e \in Entry, Sound(t, l, u),
           NEW n \in 1 .. MaxId + 1, t.next <= n, e.present => i < n,
           v \subseteq Id, ~ t.inst[i].running, ~ e.running /\ e.pid = 0 /\ (~ e.present => ~ e.desired),
           \A x \in v : x \in u \/ x < n
    PROVE  /\ Sound(WithEntry(t, i, e, n), l, v)
           /\ WithEntry(t, i, e, n).inst[i] = e
<1> USE DEF Sound
<1> DEFINE r == WithEntry(t, i, e, n)
<1>0. r = [t EXCEPT !.inst = [t.inst EXCEPT ![i] = e], !.next = n] BY DEF WithEntry
<1> HIDE DEF r
<1>1. [t.inst EXCEPT ![i] = e] \in [Id -> Entry] BY DEF State
<1>2. r \in State BY <1>0, <1>1 DEF State
<1>3. /\ r.next = n /\ r.watch = t.watch /\ r.disk = t.disk
      /\ r.proc = t.proc /\ r.forks = t.forks /\ r.unsaved = t.unsaved
      /\ \A j \in Id : r.inst[j] = IF j = i THEN e ELSE t.inst[j]
    BY <1>0 DEF State
<1>4. Tabled(r) BY <1>3 DEF Tabled
<1>5. Known(r, l)
    <2>1. t.inst[i].pid = 0 BY DEF Tabled
    <2> QED BY <1>3, <2>1 DEF Known
<1>6. Numbered(r, v)
    <2>1. t.next \in Nat /\ n \in Nat BY BoundsAssumption DEF State
    <2>2. ASSUME NEW j \in Id, r.inst[j].present PROVE j < n
        BY <1>3, <2>1, <2>2 DEF Numbered, Id
    <2>3. ASSUME "ever" \notin t.unsaved, NEW x \in v PROVE x < n
        <3>1. CASE x < n BY <3>1
        <3>2. CASE x \in u
            <4>1. x < t.next BY <2>3, <3>2 DEF Numbered
            <4>2. x \in Nat BY DEF Id
            <4> HIDE DEF Sound
            <4> QED BY <2>1, <4>1, <4>2
        <3> QED BY <3>1, <3>2
    <2> QED BY <1>3, <2>2, <2>3 DEF Numbered
<1>7. Sound(r, l, v) BY <1>2, <1>4, <1>5, <1>6
<1> HIDE DEF Sound
<1> QED BY <1>3, <1>7 DEF r

\* The end of a stop, and what its caller does next.
LEMMA StoppedSound ==
    ASSUME NEW t, NEW l, NEW u, NEW i \in Id, NEW then \in After,
           NEW ok \in BOOLEAN, NEW sv1 \in BOOLEAN, NEW sv2 \in BOOLEAN, u \subseteq Id,
           Sound(t, l, u), t.inst[i].present, ~ t.inst[i].running
    PROVE  /\ Sound(Stopped(t, i, then, ok, sv1, sv2), l, u)
           /\ Current(Stopped(t, i, then, ok, sv1, sv2), {})
<1> DEFINE r == Saved(t, sv1)
<1>1. Sound(r, l, u) /\ Current(r, {}) /\ r.inst = t.inst BY SavedSound
<1> HIDE DEF r
<1>2. CASE then = "start" /\ sv1
    <2>1. Stopped(t, i, then, ok, sv1, sv2) = Spawned(r, i, ok, sv2) BY <1>2 DEF Stopped, r
    <2> QED BY <1>1, <2>1, SpawnedSound
<1>3. CASE then = "remove" /\ sv1
    <2> DEFINE d == [r EXCEPT !.inst[i] = NoEntry]
    <2>1. Stopped(t, i, then, ok, sv1, sv2) = Saved(d, sv2) BY <1>3 DEF Stopped, r
    <2>2. r \in State /\ r.next \in 1 .. MaxId + 1 BY <1>1 DEF Sound, State
    <2>3. NoEntry \in Entry /\ ~ NoEntry.running /\ NoEntry.pid = 0
              /\ ~ NoEntry.present /\ ~ NoEntry.desired
        BY DEF NoEntry, Entry
    <2>4. d = WithEntry(r, i, NoEntry, r.next)
        BY <2>2 DEF State, WithEntry
    <2> HIDE DEF d
    <2>5. r.next <= r.next BY <2>2, BoundsAssumption
    <2>6. Sound(d, l, u) BY <1>1, <2>2, <2>3, <2>4, <2>5, EntrySound
    <2> QED BY <2>1, <2>6, SavedSound
<1>4. CASE ~(then = "start" /\ sv1) /\ ~(then = "remove" /\ sv1)
    <2>1. Stopped(t, i, then, ok, sv1, sv2) = r BY <1>4 DEF Stopped, r
    <2> QED BY <1>1, <2>1
<1> QED BY <1>2, <1>3, <1>4

\* A stop withdraws the wish to run.
LEMMA UnwishedSound ==
    ASSUME NEW t, NEW l, NEW u, NEW i \in Id, Sound(t, l, u), t.inst[i].present,
           NEW r, r = [t EXCEPT !.inst[i].desired = FALSE]
    PROVE  /\ Sound(r, l, u) /\ (Current(t, {}) => Current(r, {i}))
           /\ r.inst[i].present /\ r.inst[i].running = t.inst[i].running
           /\ r.inst[i].pid = t.inst[i].pid
<1> USE DEF Sound
<1> DEFINE e == [t.inst[i] EXCEPT !.desired = FALSE]
           n == [t.inst EXCEPT ![i] = e]
<1>1. r = [t EXCEPT !.inst = n] BY DEF State
<1>2. t.inst[i] \in Entry BY DEF State
<1>3. /\ e \in Entry /\ e.present /\ e.running = t.inst[i].running /\ e.pid = t.inst[i].pid
    BY <1>2 DEF Entry
<1> HIDE DEF e
<1>4. n \in [Id -> Entry] /\ \A j \in Id : n[j] = IF j = i THEN e ELSE t.inst[j]
    BY <1>3 DEF State
<1> HIDE DEF n
<1>5. r \in State BY <1>1, <1>4 DEF State
<1>6. /\ r.next = t.next /\ r.watch = t.watch /\ r.disk = t.disk /\ r.inst = n
      /\ r.proc = t.proc /\ r.forks = t.forks /\ r.unsaved = t.unsaved
    BY <1>1 DEF State
<1>7. Tabled(r) BY <1>3, <1>4, <1>6 DEF Tabled
<1>8. Known(r, l) BY <1>3, <1>4, <1>6 DEF Known
<1>9. Numbered(r, u) BY <1>3, <1>4, <1>6 DEF Numbered
<1>10. Current(t, {}) => Current(r, {i}) BY <1>3, <1>4, <1>6 DEF Current
<1> QED BY <1>3, <1>4, <1>5, <1>6, <1>7, <1>8, <1>9, <1>10

\* Entries, processes and watches are replaced.
WithTable(t, n, w, v) == [t EXCEPT !.inst = n, !.proc = w, !.watch = v]

\* The entry of i is cleared on the word of a process p that ended: a newer one
\* that runs is lost.  The processes are w and the watches v then.
LEMMA ClearedSound ==
    ASSUME NEW t, NEW l, NEW m, NEW u, NEW i \in Id, Sound(t, l, u),
           NEW n \in [Id -> Entry], NEW w \in [Id -> Seq(Life)], NEW v \in [Id -> SUBSET Pid],
           \A j \in Id \ {i} : n[j] = t.inst[j] /\ w[j] = t.proc[j] /\ v[j] = t.watch[j],
           n[i].present = t.inst[i].present, n[i].desired = t.inst[i].desired,
           ~ n[i].running, n[i].pid = 0,
           Len(w[i]) = Len(t.proc[i]),
           \A k \in 1 .. Len(w[i]) :
               w[i][k] = "running" =>
                   t.proc[i][k] = "running" /\ (k = t.inst[i].pid => k \in m[i]),
           \A j \in Id : l[j] \subseteq m[j]
    PROVE  /\ Sound(WithTable(t, n, w, v), m, u)
           /\ \A b : Current(t, b) => Current(WithTable(t, n, w, v), b)
<1> USE DEF Sound
<1> DEFINE r == WithTable(t, n, w, v)
<1>0. r = [t EXCEPT !.inst = n, !.proc = w, !.watch = v] BY DEF WithTable
<1> HIDE DEF r
<1>1. r \in State BY <1>0 DEF State
<1>2. /\ r.next = t.next /\ r.watch = v /\ r.disk = t.disk /\ r.inst = n
      /\ r.proc = w /\ r.forks = t.forks /\ r.unsaved = t.unsaved
    BY <1>0 DEF State
<1>3. Tabled(r)
    <2>1. ASSUME NEW j \in Id
          PROVE  /\ n[j].running => n[j].pid \in v[j] /\ n[j].pid \in 1 .. Len(w[j])
                 /\ ~ n[j].running => n[j].pid = 0
                 /\ ~ n[j].present => ~ n[j].running /\ ~ n[j].desired
                 /\ Len(w[j]) <= t.forks
        <3>1. CASE j = i BY <3>1 DEF Tabled
        <3>2. CASE j # i BY <3>2 DEF Tabled
        <3> QED BY <3>1, <3>2
    <2> QED BY <1>2, <2>1 DEF Tabled
<1>4. Known(r, m)
    <2>1. ASSUME NEW j \in Id, NEW k \in 1 .. Len(w[j]), w[j][k] = "running"
          PROVE  k = n[j].pid \/ k \in m[j]
        <3>1. CASE j = i
            <4>1. /\ t.proc[i][k] = "running" /\ k \in 1 .. Len(t.proc[i])
                  /\ k = t.inst[i].pid => k \in m[i]
                BY <2>1, <3>1
            <4>2. k = t.inst[i].pid \/ k \in l[i] BY <4>1 DEF Known
            <4> QED BY <3>1, <4>1, <4>2
        <3>2. CASE j # i BY <2>1, <3>2 DEF Known
        <3> QED BY <3>1, <3>2
    <2> QED BY <1>2, <2>1 DEF Known
<1>5. Numbered(r, u)
    <2>1. \A j \in Id : n[j].present = t.inst[j].present OBVIOUS
    <2> QED BY <1>2, <2>1 DEF Numbered
<1>6. ASSUME NEW b, Current(t, b) PROVE Current(r, b)
    <2>1. \A j \in Id : n[j].present = t.inst[j].present /\ n[j].desired = t.inst[j].desired
        OBVIOUS
    <2>2. \A j \in Id : Want(n[j]) = Want(t.inst[j]) BY <2>1 DEF Want
    <2>3. \A j \in Id : Want(r.inst[j]) = Want(t.inst[j]) BY <1>2, <2>2
    <2> QED BY <1>2, <1>6, <2>3 DEF Current
<1>7. Sound(r, m, u) BY <1>1, <1>3, <1>4, <1>5
<1> HIDE DEF Sound
<1> QED BY <1>6, <1>7 DEF r

-----------------------------------------------------------------------------
(* The steps of a controller that is up.                                   *)

\* What a handler leaves is the next state.
LEMMA BecomeNow ==
    ASSUME NEW t \in State, Become(t)
    PROVE  Now' = t
BY DEF Become, Now, State

\* A step of a controller that is up keeps the invariant if it leaves a sound
\* state.
LEMMA UpStep ==
    ASSUME up', NEW t, Now' = t, Sound(t, lost', used'), Current(t, Waiting'),
           idle' \in [Id -> Nat], blocked' \in [id : Id, pid : {0} \cup Pid, then : After],
           crashes' \in Nat, lost' \in [Id -> SUBSET Pid], used' \subseteq Id
    PROVE  IInv'
<1>1. /\ t.disk = disk' /\ t.unsaved = unsaved' BY DEF Now
<1>2. TypeOK' BY DEF TypeOK, Sound
<1>3. (Tabled(Now) /\ Known(Now, lost) /\ Numbered(Now, used))' BY DEF Sound
<1>4. Current(Now, Waiting)' OBVIOUS
<1>5. (\A i \in Id : disk.want[i] # "absent" => i < disk.next)'
    BY <1>1 DEF Sound, Numbered
<1>6. ("ever" \notin unsaved => "last" \notin unsaved)' BY <1>1 DEF Sound, Numbered
<1> QED BY <1>2, <1>3, <1>4, <1>5, <1>6 DEF IInv, Down

\* What a handler finds.
LEMMA UpNow ==
    ASSUME IInv, up
    PROVE  Sound(Now, lost, used) /\ Current(Now, Waiting)
BY DEF IInv, TypeOK, Sound

\* A table that is on the disk but for nothing is so but for anything.
LEMMA CurrentMore ==
    ASSUME NEW t, NEW b, Current(t, {})
    PROVE  Current(t, b)
BY DEF Current

\* A handler that takes and leaves ids, waits and history as they are.
LEMMA PlainStep ==
    ASSUME IInv, up, UNCHANGED <<up, idle, blocked, crashes, lost, used>>,
           NEW t, Become(t), Sound(t, lost, used), Current(t, Waiting)
    PROVE  IInv'
<1>1. Now' = t BY BecomeNow DEF Sound
<1>2. Waiting' = Waiting BY DEF Waiting
<1> QED BY <1>1, <1>2, UpStep DEF IInv, TypeOK

\* A new instance has an id that none had.
LEMMA CreateStep ==
    ASSUME IInv, NEW ok \in BOOLEAN, NEW sv \in BOOLEAN, Create(ok, sv)
    PROVE  IInv'
<1> DEFINE t == [Now EXCEPT !.inst[next] = NewEntry, !.next = @ + 1]
           r == Saved(t, sv)
<1>0. up /\ next <= MaxId /\ used' = used \cup {next} /\ Become(Spawned(r, next, ok, sv))
          /\ UNCHANGED <<up, idle, blocked, crashes, lost>>
    BY DEF Create
<1>1. Sound(Now, lost, used) /\ Now \in State BY <1>0, UpNow DEF Sound
<1>2. /\ next \in 1 .. MaxId + 1 /\ Now.next = next /\ Now.inst = inst /\ used \subseteq Id
      /\ inst \in [Id -> Entry]
    BY <1>1 DEF Now, State, IInv, TypeOK
<1>3. next \in Id /\ next + 1 \in 1 .. MaxId + 1 /\ next <= next + 1 /\ next < next + 1
    BY <1>0, <1>2, BoundsAssumption DEF Id
<1>4. ~ inst[next].running
    <2>1. ~ inst[next].present BY <1>1, <1>2, <1>3 DEF Sound, Numbered, Id
    <2> QED BY <1>1, <1>2, <1>3, <2>1 DEF Sound, Tabled
<1> DEFINE m == next + 1
<1>5. t = WithEntry(Now, next, NewEntry, m) BY <1>2 DEF Now, WithEntry
<1>6. NewEntry \in Entry /\ NewEntry.present /\ ~ NewEntry.running /\ NewEntry.pid = 0
    BY DEF NewEntry, NoEntry, Entry
<1> HIDE DEF t
<1>7. \A x \in used' : x \in used \/ x < m BY <1>0, <1>3
<1>8. used' \subseteq Id BY <1>0, <1>2, <1>3
<1>a. m \in 1 .. MaxId + 1 /\ Now.next <= m /\ next < m /\ ~ Now.inst[next].running
    BY <1>2, <1>3, <1>4
<1> HIDE DEF m
<1>9. Sound(t, lost, used') /\ t.inst[next] = NewEntry
    <2>1. Sound(Now, lost, used) /\ next \in Id /\ NewEntry \in Entry BY <1>1, <1>3, <1>6
    <2>2. m \in 1 .. MaxId + 1 /\ Now.next <= m /\ (NewEntry.present => next < m) BY <1>a
    <2>3. ~ Now.inst[next].running /\ ~ NewEntry.running /\ NewEntry.pid = 0
              /\ (~ NewEntry.present => ~ NewEntry.desired)
        BY <1>6, <1>a
    <2>4. Sound(WithEntry(Now, next, NewEntry, m), lost, used')
              /\ WithEntry(Now, next, NewEntry, m).inst[next] = NewEntry
        BY ONLY <1>7, <1>8, <2>1, <2>2, <2>3, EntrySound, SMTT(30)
    <2> QED BY <1>5, <2>4
<1>10. Sound(r, lost, used') /\ Current(r, {}) /\ r.inst = t.inst BY <1>9, SavedSound
<1> HIDE DEF r
<1>11. r.inst[next].present BY <1>6, <1>9, <1>10
<1>12. Sound(Spawned(r, next, ok, sv), lost, used') /\ Current(Spawned(r, next, ok, sv), {})
    BY <1>3, <1>10, <1>11, SpawnedSound
<1>13. Now' = Spawned(r, next, ok, sv) BY <1>0, <1>12, BecomeNow DEF Sound
<1>14. Current(Spawned(r, next, ok, sv), Waiting') BY <1>12, CurrentMore
<1> QED BY <1>0, <1>8, <1>12, <1>13, <1>14, UpStep DEF IInv, TypeOK

\* The handlers that start an instance, save the table or only look.
LEMMA StartStep ==
    ASSUME IInv,
           \/ \E i \in Id, ok \in BOOLEAN, sv \in BOOLEAN : Start(i, ok, sv)
           \/ \E i \in Id, sv \in BOOLEAN : Update(i, sv)
           \/ Look
    PROVE  IInv'
<1> DEFINE t == Refreshed(Now)
<1>0. up BY DEF Start, Update, Look
<1>1. Sound(Now, lost, used) /\ Current(Now, Waiting) BY <1>0, UpNow
<1>2. Sound(t, lost, used) /\ Current(t, Waiting)
          /\ \A i \in Id : t.inst[i].present = inst[i].present
    <2>1. Now.inst = inst BY DEF Now
    <2> QED BY <1>1, <2>1, RefreshedSound
<1> HIDE DEF t
<1>3. ASSUME NEW i \in Id, NEW ok \in BOOLEAN, NEW sv \in BOOLEAN, Start(i, ok, sv)
      PROVE  IInv'
    <2>1. /\ Become(Spawned(t, i, ok, sv)) /\ inst[i].present
          /\ UNCHANGED <<up, idle, blocked, crashes, lost, used>>
        BY <1>3 DEF Start, t
    <2>2. Sound(Spawned(t, i, ok, sv), lost, used) /\ Current(Spawned(t, i, ok, sv), Waiting)
        BY <1>2, <2>1, SpawnedSound
    <2> QED BY <1>0, <2>1, <2>2, PlainStep
<1>4. ASSUME NEW i \in Id, NEW sv \in BOOLEAN, Update(i, sv) PROVE IInv'
    <2>1. /\ Become(Saved(t, sv)) /\ UNCHANGED <<up, idle, blocked, crashes, lost, used>>
        BY <1>4 DEF Update, t
    <2>2. Sound(Saved(t, sv), lost, used) /\ Current(Saved(t, sv), Waiting)
        BY <1>2, SavedSound, CurrentMore
    <2> QED BY <1>0, <2>1, <2>2, PlainStep
<1>5. CASE Look
    <2>1. Become(t) /\ UNCHANGED <<up, idle, blocked, crashes, lost, used>>
        BY <1>5 DEF Look, t
    <2> QED BY <1>0, <1>2, <2>1, PlainStep
<1> QED BY <1>3, <1>4, <1>5

\* What a stop finds, and the wish to run withdrawn.
LEMMA StopFinds ==
    ASSUME IInv, up, NEW i \in Id, inst[i].present, NEW r,
           r = [Refreshed(Now) EXCEPT !.inst[i].desired = FALSE]
    PROVE  /\ Sound(r, lost, used) /\ r.inst[i].present
           /\ Current(Now, {}) => Current(r, {i})
<1> DEFINE t == Refreshed(Now)
<1>1. Sound(Now, lost, used) BY UpNow
<1>2. Now.inst = inst BY DEF Now
<1>3. Sound(t, lost, used) /\ (Current(Now, {}) => Current(t, {})) /\ t.inst[i].present
    BY <1>1, <1>2, RefreshedSound
<1> HIDE DEF t
<1>4. r = [t EXCEPT !.inst[i].desired = FALSE] BY DEF t
<1> QED BY <1>3, <1>4, UnwishedSound

\* A stop of an instance that does not run.
LEMMA StopStep ==
    ASSUME IInv, NEW i \in Id, NEW then \in After,
           NEW ok \in BOOLEAN, NEW sv1 \in BOOLEAN, NEW sv2 \in BOOLEAN,
           Stop(i, then, ok, sv1, sv2)
    PROVE  IInv'
<1> DEFINE t == [Refreshed(Now) EXCEPT !.inst[i].desired = FALSE]
           r == Stopped(t, i, then, ok, sv1, sv2)
<1>0. /\ up /\ inst[i].present /\ ~ t.inst[i].running /\ Become(r)
      /\ UNCHANGED <<up, idle, blocked, crashes, lost, used>>
    BY DEF Stop
<1>1. Sound(t, lost, used) /\ t.inst[i].present BY <1>0, StopFinds
<1>2. used \subseteq Id BY DEF IInv, TypeOK
<1> HIDE DEF t
<1>3. Sound(r, lost, used) /\ Current(r, {}) BY <1>0, <1>1, <1>2, StoppedSound
<1> HIDE DEF r
<1> QED BY <1>0, <1>3, CurrentMore, PlainStep

\* A stop of one that runs: it waits, and only its wish is not yet saved.
LEMMA StopBlocksStep ==
    ASSUME IInv, NEW i \in Id, NEW then \in After, StopBlocks(i, then)
    PROVE  IInv'
<1> DEFINE t == [Refreshed(Now) EXCEPT !.inst[i].desired = FALSE]
<1>0. /\ up /\ inst[i].present /\ t.inst[i].running /\ Become(t) /\ blocked = NotBlocked
      /\ blocked' = [id |-> i, pid |-> t.inst[i].pid, then |-> then]
      /\ UNCHANGED <<up, idle, crashes, lost, used>>
    BY DEF StopBlocks
<1>1. Sound(t, lost, used) /\ (Current(Now, {}) => Current(t, {i})) BY <1>0, StopFinds
<1>2. Current(Now, {})
    <2>1. Waiting = {} BY <1>0 DEF Waiting
    <2> QED BY <1>0, <2>1, UpNow
<1> HIDE DEF t
<1>3. t.inst[i].pid \in Pid
    <2>1. t.inst[i] \in Entry /\ t.inst[i].pid \in t.watch[i] /\ t.watch[i] \in SUBSET Pid
        BY <1>0, <1>1 DEF Sound, State, Tabled
    <2> QED BY <2>1
<1>4. /\ blocked' \in [id : Id, pid : {0} \cup Pid, then : After]
      /\ blocked'.id = i /\ blocked'.pid # 0
    BY <1>0, <1>3 DEF Pid
<1>5. Waiting' = {i} BY <1>4 DEF Waiting, NotBlocked
<1>6. Now' = t BY <1>0, <1>1, BecomeNow DEF Sound
<1> QED BY <1>0, <1>1, <1>2, <1>4, <1>5, <1>6, UpStep DEF IInv, TypeOK

\* waitpid of a stop returns.
LEMMA StopResumesStep ==
    ASSUME IInv, NEW ok \in BOOLEAN, NEW sv1 \in BOOLEAN, NEW sv2 \in BOOLEAN,
           StopResumes(ok, sv1, sv2)
    PROVE  IInv'
<1> DEFINE i == blocked.id
           p == blocked.pid
           w == [proc EXCEPT ![i] = Marked(proc[i], p, "reaped")]
           n == IF inst[i].present
                THEN [inst EXCEPT ![i] = Cleared(@)] ELSE inst
           r == WithTable(Now, n, w, watch)
           z == IF inst[i].present
                THEN Stopped(r, i, blocked.then, ok, sv1, sv2) ELSE Saved(r, sv1)
<1>0. /\ up /\ blocked' = NotBlocked
      /\ lost' = [lost EXCEPT ![i] = @ \cup ({inst[i].pid} \ {0, p})]
      /\ UNCHANGED <<up, idle, crashes, used>>
    BY DEF StopResumes
<1>1. Sound(Now, lost, used) /\ Now \in State BY <1>0, UpNow DEF Sound
<1>2. /\ Now.inst = inst /\ Now.proc = proc /\ Now.watch = watch
      /\ inst \in [Id -> Entry] /\ proc \in [Id -> Seq(Life)] /\ watch \in [Id -> SUBSET Pid]
      /\ i \in Id /\ p \in {0} \cup Pid /\ blocked.then \in After
      /\ lost \in [Id -> SUBSET Pid] /\ used \subseteq Id
    BY <1>1 DEF Now, State, IInv, TypeOK
<1>3. /\ Marked(proc[i], p, "reaped") \in Seq(Life)
      /\ Len(Marked(proc[i], p, "reaped")) = Len(proc[i])
      /\ \A k \in 1 .. Len(proc[i]) :
            Marked(proc[i], p, "reaped")[k] = IF k = p THEN "reaped" ELSE proc[i][k]
    BY <1>2, MarkedSeq DEF Life
<1>4. /\ n \in [Id -> Entry]
      /\ \A j \in Id \ {i} : n[j] = inst[j]
      /\ n[i].present = inst[i].present /\ n[i].desired = inst[i].desired
      /\ ~ n[i].running /\ n[i].pid = 0
    <2>1. inst[i] \in Entry BY <1>2
    <2>2. CASE inst[i].present
        <3>1. n = [inst EXCEPT ![i] = Cleared(@)] BY <2>2
        <3> HIDE DEF n
        <3> QED BY <1>2, <2>1, <3>1 DEF Entry, Cleared
    <2>3. CASE ~ inst[i].present
        <3>1. n = inst BY <2>3
        <3>2. ~ inst[i].running /\ inst[i].pid = 0
            BY <1>1, <1>2, <2>3 DEF Sound, Tabled
        <3> HIDE DEF n
        <3> QED BY <1>2, <3>1, <3>2
    <2> QED BY <2>2, <2>3
<1>5. /\ w \in [Id -> Seq(Life)]
      /\ \A j \in Id \ {i} : w[j] = proc[j]
      /\ Len(w[i]) = Len(proc[i])
      /\ \A k \in 1 .. Len(w[i]) : w[i][k] = "running" => k # p /\ proc[i][k] = "running"
    <2>1. w[i] = Marked(proc[i], p, "reaped") BY <1>2
    <2>2. w \in [Id -> Seq(Life)] /\ \A j \in Id \ {i} : w[j] = proc[j] BY <1>2, <1>3
    <2> HIDE DEF w
    <2> QED BY <1>3, <2>1, <2>2
<1>6. /\ \A j \in Id : lost[j] \subseteq lost'[j]
      /\ {inst[i].pid} \ {0, p} \subseteq lost'[i]
      /\ lost' \in [Id -> SUBSET Pid]
    <2>1. inst[i] \in Entry BY <1>2
    <2>2. {inst[i].pid} \ {0, p} \subseteq Pid BY <2>1 DEF Entry
    <2> QED BY <1>0, <1>2, <2>2
<1>7. Become(z)
    <2>1. CASE inst[i].present
        <3>1. r = [Now EXCEPT !.proc[i][p] = "reaped", !.inst[i] = Cleared(@)]
            <4>1. n = [inst EXCEPT ![i] = Cleared(@)] BY <2>1
            <4> QED BY <1>2, <4>1 DEF Now, Marked, WithTable
        <3> HIDE DEF r
        <3>2. z = Stopped(r, i, blocked.then, ok, sv1, sv2) BY <2>1
        <3> HIDE DEF z
        <3> QED BY <2>1, <3>1, <3>2 DEF StopResumes
    <2>2. CASE ~ inst[i].present
        <3>1. r = [Now EXCEPT !.proc[i][p] = "reaped"]
            <4>1. n = inst BY <2>2
            <4> QED BY <1>2, <4>1 DEF Now, Marked, WithTable
        <3> HIDE DEF r
        <3>2. z = Saved(r, sv1) BY <2>2
        <3> HIDE DEF z
        <3> QED BY <2>2, <3>1, <3>2 DEF StopResumes
    <2> QED BY <2>1, <2>2
<1>8. r = WithTable(Now, n, w, watch) OBVIOUS
<1>9. r.inst = n BY <1>1, <1>4 DEF State, WithTable
<1> HIDE DEF n, w, r
<1>10. Sound(r, lost', used)
    <2>1. Sound(Now, lost, used) /\ i \in Id /\ n \in [Id -> Entry]
              /\ w \in [Id -> Seq(Life)] /\ watch \in [Id -> SUBSET Pid]
        BY <1>1, <1>2, <1>4, <1>5
    <2>2. \A j \in Id \ {i} : n[j] = Now.inst[j] /\ w[j] = Now.proc[j] /\ watch[j] = Now.watch[j]
        BY <1>2, <1>4, <1>5
    <2>3. /\ n[i].present = Now.inst[i].present /\ n[i].desired = Now.inst[i].desired
          /\ ~ n[i].running /\ n[i].pid = 0 /\ Len(w[i]) = Len(Now.proc[i])
        BY <1>2, <1>4, <1>5
    <2>4. \A k \in 1 .. Len(w[i]) :
              w[i][k] = "running" =>
                  Now.proc[i][k] = "running" /\ (k = Now.inst[i].pid => k \in lost'[i])
        BY <1>2, <1>5, <1>6
    <2>5. \A j \in Id : lost[j] \subseteq lost'[j] BY <1>6
    <2> HIDE DEF i, p
    <2> QED BY ONLY <1>8, <2>1, <2>2, <2>3, <2>4, <2>5, ClearedSound
<1>11. Sound(z, lost', used) /\ Current(z, {})
    <2>1. CASE inst[i].present
        <3>1. r.inst[i].present /\ ~ r.inst[i].running BY <1>4, <1>9, <2>1
        <3> HIDE DEF i
        <3> QED BY <1>2, <1>10, <2>1, <3>1, StoppedSound
    <2>2. CASE ~ inst[i].present BY <1>10, <2>2, SavedSound
    <2> QED BY <2>1, <2>2
<1> HIDE DEF z
<1>12. Now' = z BY <1>7, <1>11, BecomeNow DEF Sound
<1>13. NotBlocked \in [id : Id, pid : {0} \cup Pid, then : After]
    BY BoundsAssumption DEF NotBlocked, Id, After
<1> QED BY <1>0, <1>2, <1>6, <1>11, <1>12, <1>13, CurrentMore, UpStep DEF IInv, TypeOK

-----------------------------------------------------------------------------
(* Processes and callbacks.                                                *)

\* A process that ends, or is waited for, is none that runs.
LEMMA ProcessStep ==
    ASSUME IInv, NEW i \in Id, NEW p \in Pid, Exit(i, p) \/ Reap(i, p)
    PROVE  IInv'
<1>0. /\ UNCHANGED <<up, inst, next, watch, idle, blocked, disk, forks, crashes, hist>>
      /\ \E e \in Life : e # "running" /\ proc' = [proc EXCEPT ![i] = Marked(proc[i], p, e)]
    BY DEF Exit, Reap, Marked, Life
<1>1. PICK e \in Life : e # "running" /\ proc' = [proc EXCEPT ![i] = Marked(proc[i], p, e)]
    BY <1>0
<1>2. Now \in State /\ proc \in [Id -> Seq(Life)] BY DEF IInv, TypeOK, Now, State
<1>3. /\ Marked(proc[i], p, e) \in Seq(Life) /\ Len(Marked(proc[i], p, e)) = Len(proc[i])
      /\ \A k \in 1 .. Len(proc[i]) :
            Marked(proc[i], p, e)[k] = IF k = p THEN e ELSE proc[i][k]
    BY <1>2, MarkedSeq
<1>4. /\ proc' \in [Id -> Seq(Life)]
      /\ \A j \in Id : /\ Len(proc'[j]) = Len(proc[j])
                       /\ \A k \in 1 .. Len(proc[j]) :
                             proc'[j][k] = "running" => proc[j][k] = "running"
    <2>1. proc' \in [Id -> Seq(Life)] BY <1>1, <1>2, <1>3
    <2>2. proc'[i] = Marked(proc[i], p, e) /\ \A j \in Id \ {i} : proc'[j] = proc[j]
        BY <1>1, <1>2
    <2>3. ASSUME NEW j \in Id
          PROVE  /\ Len(proc'[j]) = Len(proc[j])
                 /\ \A k \in 1 .. Len(proc[j]) :
                        proc'[j][k] = "running" => proc[j][k] = "running"
        <3>1. CASE j = i BY <1>1, <1>3, <2>2, <3>1
        <3>2. CASE j # i BY <2>2, <3>2
        <3> QED BY <3>1, <3>2
    <2> QED BY <2>1, <2>3
<1>5. Now' = [Now EXCEPT !.proc = proc'] BY <1>0 DEF Now, hist
<1>6. /\ Now'.inst = Now.inst /\ Now'.next = Now.next /\ Now'.watch = Now.watch
      /\ Now'.disk = Now.disk /\ Now'.unsaved = Now.unsaved /\ Now'.forks = Now.forks
      /\ Now'.proc = proc' /\ Now.proc = proc
    BY <1>0 DEF Now, hist
<1>7. TypeOK'
    <2>1. Now' \in State BY <1>2, <1>4, <1>5 DEF State
    <2> QED BY <1>0, <2>1 DEF IInv, TypeOK, hist
<1>8. Tabled(Now)' BY <1>4, <1>6 DEF IInv, Tabled
<1>9. Known(Now, lost)' BY <1>0, <1>4, <1>6 DEF IInv, Known, hist
<1>10. (up => Numbered(Now, used) /\ Current(Now, Waiting))'
    BY <1>0, <1>6 DEF IInv, Numbered, Current, Waiting, hist
<1> QED BY <1>0, <1>7, <1>8, <1>9, <1>10 DEF IInv, Down, hist

\* A child watch clears the entry, whoever its process is by now.
LEMMA ChildWatchStep ==
    ASSUME IInv, NEW i \in Id, NEW p \in Pid, ChildWatch(i, p)
    PROVE  IInv'
<1>0. /\ up /\ proc[i][p] = "reaped"
      /\ watch' = [watch EXCEPT ![i] = @ \ {p}]
      /\ inst' = [inst EXCEPT ![i] = Cleared(@)]
      /\ idle' = [idle EXCEPT ![i] = IF inst[i].desired THEN @ + 1 ELSE @]
      /\ lost' = [lost EXCEPT ![i] = @ \cup ({inst[i].pid} \ {0, p})]
      /\ UNCHANGED <<up, next, blocked, disk, proc, forks, crashes, failed, used, unsaved>>
    BY DEF ChildWatch, Unwatched
<1>1. Sound(Now, lost, used) /\ Current(Now, Waiting) /\ Now \in State
    BY <1>0, UpNow DEF Sound
<1>2. /\ Now.inst = inst /\ Now.proc = proc /\ Now.watch = watch
      /\ inst \in [Id -> Entry] /\ proc \in [Id -> Seq(Life)] /\ watch \in [Id -> SUBSET Pid]
      /\ lost \in [Id -> SUBSET Pid] /\ used \subseteq Id /\ idle \in [Id -> Nat]
      /\ inst[i] \in Entry
    BY <1>1 DEF Now, State, IInv, TypeOK
<1>3. /\ inst' \in [Id -> Entry]
      /\ \A j \in Id \ {i} : inst'[j] = inst[j]
      /\ inst'[i].present = inst[i].present /\ inst'[i].desired = inst[i].desired
      /\ ~ inst'[i].running /\ inst'[i].pid = 0
    BY <1>0, <1>2 DEF Entry, Cleared
<1>4. /\ watch' \in [Id -> SUBSET Pid] /\ \A j \in Id \ {i} : watch'[j] = watch[j]
      /\ idle' \in [Id -> Nat]
    BY <1>0, <1>2
<1>5. /\ \A j \in Id : lost[j] \subseteq lost'[j]
      /\ {inst[i].pid} \ {0, p} \subseteq lost'[i]
      /\ lost' \in [Id -> SUBSET Pid]
    <2>1. {inst[i].pid} \ {0, p} \subseteq Pid BY <1>2 DEF Entry
    <2> QED BY <1>0, <1>2, <2>1
<1>7. \A k \in 1 .. Len(proc[i]) :
         proc[i][k] = "running" => proc[i][k] = "running" /\ (k = inst[i].pid => k \in lost'[i])
    BY <1>0, <1>5
<1> DEFINE t == WithTable(Now, inst', proc, watch')
<1>6. Become(t) BY <1>0 DEF Become, Now, WithTable
<1>8. t = WithTable(Now, inst', proc, watch') OBVIOUS
<1> HIDE DEF t
<1>9. Sound(t, lost', used) /\ (Current(Now, Waiting) => Current(t, Waiting))
    <2>1. Sound(Now, lost, used) /\ i \in Id /\ inst' \in [Id -> Entry]
              /\ proc \in [Id -> Seq(Life)] /\ watch' \in [Id -> SUBSET Pid]
        BY <1>1, <1>2, <1>3, <1>4
    <2>2. \A j \in Id \ {i} : inst'[j] = Now.inst[j] /\ proc[j] = Now.proc[j]
                               /\ watch'[j] = Now.watch[j]
        BY <1>2, <1>3, <1>4
    <2>3. /\ inst'[i].present = Now.inst[i].present /\ inst'[i].desired = Now.inst[i].desired
          /\ ~ inst'[i].running /\ inst'[i].pid = 0 /\ Len(proc[i]) = Len(Now.proc[i])
        BY <1>2, <1>3
    <2>4. \A k \in 1 .. Len(proc[i]) :
              proc[i][k] = "running" =>
                  Now.proc[i][k] = "running" /\ (k = Now.inst[i].pid => k \in lost'[i])
        BY <1>2, <1>7
    <2>5. \A j \in Id : lost[j] \subseteq lost'[j] BY <1>5
    <2> QED BY ONLY <1>8, <2>1, <2>2, <2>3, <2>4, <2>5, ClearedSound
<1>10. Waiting' = Waiting BY <1>0 DEF Waiting
<1>11. Now' = t BY <1>6, <1>9, BecomeNow DEF Sound
<1> QED BY <1>0, <1>1, <1>2, <1>4, <1>5, <1>9, <1>10, <1>11, UpStep DEF IInv, TypeOK

\* A queued restart, if the wish to run is still there.
LEMMA RestartIdleStep ==
    ASSUME IInv, NEW i \in Id, NEW ok \in BOOLEAN, NEW sv \in BOOLEAN, RestartIdle(i, ok, sv)
    PROVE  IInv'
<1> DEFINE z == IF inst[i].desired THEN Spawned(Now, i, ok, sv) ELSE Now
<1>0. /\ up /\ idle[i] > 0 /\ idle' = [idle EXCEPT ![i] = @ - 1] /\ Become(z)
      /\ UNCHANGED <<up, blocked, crashes, lost, used>>
    BY DEF RestartIdle
<1>1. Sound(Now, lost, used) /\ Current(Now, Waiting) BY <1>0, UpNow
<1>2. idle' \in [Id -> Nat]
    <2>1. idle \in [Id -> Nat] BY DEF IInv, TypeOK
    <2>2. idle[i] - 1 \in Nat BY <1>0, <2>1
    <2> QED BY <1>0, <2>1, <2>2
<1>3. Sound(z, lost, used) /\ Current(z, Waiting)
    <2>1. CASE inst[i].desired
        <3>1. Now.inst = inst BY DEF Now
        <3>2. Now.inst[i].present BY <1>1, <2>1, <3>1 DEF Sound, Tabled, State, Entry
        <3> QED BY <1>1, <2>1, <3>2, SpawnedSound
    <2>2. CASE ~ inst[i].desired BY <1>1, <2>2
    <2> QED BY <2>1, <2>2
<1> HIDE DEF z
<1>4. Now' = z BY <1>0, <1>3, BecomeNow DEF Sound
<1>5. Waiting' = Waiting BY <1>0 DEF Waiting
<1> QED BY <1>0, <1>2, <1>3, <1>4, <1>5, UpStep DEF IInv, TypeOK

-----------------------------------------------------------------------------
(* The controller's own life.                                              *)

\* A controller that ends, in whatever way, loses its memory; every process it
\* did not wait for is lost.
LEMMA ForgetStep ==
    ASSUME IInv, up, Forget, UNCHANGED <<disk, forks, failed, used, unsaved>>,
           crashes' \in Nat, lost' \in [Id -> SUBSET Pid], proc' \in [Id -> Seq(Life)],
           \A i \in Id : /\ Len(proc'[i]) = Len(proc[i])
                         /\ \A k \in 1 .. Len(proc[i]) :
                                proc'[i][k] = "running" => k \in lost'[i]
    PROVE  IInv'
<1>0. Sound(Now, lost, used) /\ Current(Now, Waiting) BY UpNow
<1>1. /\ Now.disk = disk /\ Now.next = next /\ Now.unsaved = unsaved /\ Now.proc = proc
      /\ Now.forks = forks /\ Now.failed = failed
    BY DEF Now
<1>2. NoEntry \in Entry /\ ~ NoEntry.present /\ ~ NoEntry.running /\ ~ NoEntry.desired
          /\ NoEntry.pid = 0
    BY DEF NoEntry, Entry
<1>3. inst' = [i \in Id |-> NoEntry] /\ next' = 1 /\ watch' = [i \in Id |-> {}]
          /\ up' = FALSE /\ idle' = [i \in Id |-> 0] /\ blocked' = NotBlocked
    BY DEF Forget
<1>4. TypeOK'
    <2>1. inst' \in [Id -> Entry] /\ watch' \in [Id -> SUBSET Pid] /\ next' \in 1 .. MaxId + 1
        BY <1>2, <1>3, BoundsAssumption
    <2>2. disk \in [next : 0 .. MaxId + 1, want : [Id -> {"absent", "on", "off"}]]
              /\ forks \in 0 .. MaxSpawn /\ failed \in [Id -> BOOLEAN]
              /\ unsaved \in SUBSET {"last", "ever"}
        BY <1>0, <1>1 DEF Sound, State
    <2>3. Now' \in State BY <2>1, <2>2 DEF Now, State
    <2>4. NotBlocked \in [id : Id, pid : {0} \cup Pid, then : After]
        BY BoundsAssumption DEF NotBlocked, Id, After
    <2> QED BY <1>3, <2>3, <2>4 DEF IInv, TypeOK
<1>5. Tabled(Now)'
    <2>1. \A i \in Id : Len(proc'[i]) <= forks' BY <1>0, <1>1 DEF Sound, Tabled
    <2>2. \A i \in Id : inst'[i] = NoEntry BY <1>3
    <2>3. Now'.inst = inst' /\ Now'.proc = proc' /\ Now'.forks = forks' BY DEF Now
    <2> QED BY <1>2, <2>1, <2>2, <2>3 DEF Tabled
<1>6. Known(Now, lost)'
    <2>1. Now'.proc = proc' BY DEF Now
    <2> QED BY <2>1 DEF Known
<1>7. "ever" \notin unsaved => "last" \notin unsaved /\ \A i \in used : i < disk.next
    BY <1>0, <1>1 DEF Sound, Numbered, Current
<1>8. \A i \in Id : disk.want[i] # "absent" => i < disk.next BY DEF IInv
<1> QED BY <1>3, <1>4, <1>5, <1>6, <1>7, <1>8 DEF IInv, Down

\* The controller exits after it waited for its processes, or dies.
LEMMA EndStep ==
    ASSUME IInv, Shutdown \/ Crash
    PROVE  IInv'
<1>0. up /\ Forget /\ UNCHANGED <<disk, forks, failed, used, unsaved>>
    BY DEF Shutdown, Crash, hist
<1>1. Sound(Now, lost, used) BY <1>0, UpNow
<1>2. /\ Now.inst = inst /\ Now.proc = proc
      /\ inst \in [Id -> Entry] /\ proc \in [Id -> Seq(Life)] /\ lost \in [Id -> SUBSET Pid]
      /\ crashes \in Nat
    BY <1>1 DEF Now, Sound, State, IInv, TypeOK
<1>3. ASSUME NEW i \in Id, NEW k \in 1 .. Len(proc[i]), proc[i][k] = "running"
      PROVE  k \in lost[i] \/ (k = inst[i].pid /\ inst[i].running /\ k # 0)
    BY <1>1, <1>2, <1>3 DEF Sound, Known, Tabled
<1>4. CASE Shutdown
    <2>1. /\ proc' = [i \in Id |-> IF inst[i].running
                                   THEN Marked(proc[i], inst[i].pid, "reaped") ELSE proc[i]]
          /\ UNCHANGED <<crashes, lost>>
        BY <1>4 DEF Shutdown, Marked, hist
    <2>2. ASSUME NEW i \in Id
          PROVE  /\ proc'[i] \in Seq(Life) /\ Len(proc'[i]) = Len(proc[i])
                 /\ \A k \in 1 .. Len(proc[i]) : proc'[i][k] = "running" => k \in lost[i]
        <3>1. proc[i] \in Seq(Life) /\ "reaped" \in Life BY <1>2 DEF Life
        <3>2. CASE inst[i].running
            <4>1. proc'[i] = Marked(proc[i], inst[i].pid, "reaped") BY <2>1, <3>2
            <4>2. /\ proc'[i] \in Seq(Life) /\ Len(proc'[i]) = Len(proc[i])
                  /\ \A k \in 1 .. Len(proc[i]) :
                        proc'[i][k] = IF k = inst[i].pid THEN "reaped" ELSE proc[i][k]
                BY <3>1, <4>1, MarkedSeq
            <4> QED BY <1>3, <4>2
        <3>3. CASE ~ inst[i].running
            <4>1. proc'[i] = proc[i] BY <2>1, <3>3
            <4> QED BY <1>3, <3>1, <3>3, <4>1
        <3> QED BY <3>2, <3>3
    <2>3. proc' \in [Id -> Seq(Life)] BY <2>1, <2>2
    <2> QED BY <1>0, <1>2, <2>1, <2>2, <2>3, ForgetStep
<1>5. CASE Crash
    <2>1. /\ lost' = [i \in Id |-> lost[i] \cup ({inst[i].pid} \ {0})]
          /\ proc' = proc /\ crashes' = crashes + 1
        BY <1>5 DEF Crash
    <2>2. lost' \in [Id -> SUBSET Pid]
        <3>1. \A i \in Id : {inst[i].pid} \ {0} \subseteq Pid BY <1>2 DEF Entry
        <3> QED BY <1>2, <2>1, <3>1
    <2>3. \A i \in Id : \A k \in 1 .. Len(proc[i]) :
              proc'[i][k] = "running" => k \in lost'[i]
        BY <1>3, <2>1
    <2> QED BY <1>0, <1>2, <2>1, <2>2, <2>3, ForgetStep
<1> QED BY <1>4, <1>5

\* load_metadata counts on from the file.
LEMMA LoadedNextIs ==
    ASSUME NEW d \in [next : 0 .. MaxId + 1, want : [Id -> {"absent", "on", "off"}]],
           \A i \in Id : d.want[i] # "absent" => i < d.next
    PROVE  LoadedNext(d) = IF d.next = 0 THEN 1 ELSE d.next
<1> DEFINE S == {i + 1 : i \in {j \in Id : d.want[j] # "absent"}} \cup {1, d.next}
           m == IF d.next = 0 THEN 1 ELSE d.next
<1>1. d.next \in Nat BY BoundsAssumption
<1>2. m \in S /\ m \in Nat BY <1>1
<1>3. \A x \in S : x \in Nat /\ x <= m
    <2>1. ASSUME NEW i \in Id, d.want[i] # "absent" PROVE i + 1 \in Nat /\ i + 1 <= m
        <3>1. i \in Nat /\ i < d.next BY <2>1 DEF Id
        <3> QED BY <1>1, <3>1
    <2>2. 1 \in Nat /\ 1 <= m /\ d.next \in Nat /\ d.next <= m BY <1>1
    <2> HIDE DEF m
    <2> QED BY <2>1, <2>2
<1>4. LoadedNext(d) = CHOOSE n \in S : \A k \in S : k <= n BY DEF LoadedNext
<1> HIDE DEF S, m
<1>5. \A n \in S : (\A k \in S : k <= n) => n = m BY <1>2, <1>3
<1>6. \E n \in S : \A k \in S : k <= n BY <1>2, <1>3
<1>7. LoadedNext(d) = m BY <1>4, <1>5, <1>6
<1> QED BY <1>7 DEF m

\* load_metadata and sbs_instance_manager_ensure_default: the table of the file,
\* in which nothing runs.
LEMMA LoadedSound ==
    ASSUME IInv, ~ up, NEW sv \in BOOLEAN
    PROVE  /\ Sound(Loaded(Now, sv), lost, used \cup {0}) /\ Current(Loaded(Now, sv), {})
           /\ \A i \in Id : ~ Loaded(Now, sv).inst[i].running
           /\ Loaded(Now, sv).forks = forks
<1> DEFINE e == [i \in Id |-> IF disk.want[i] = "absent" THEN NoEntry
                              ELSE [NewEntry EXCEPT !.desired = disk.want[i] = "on"]]
           m == LoadedNext(disk)
           l == [Now EXCEPT !.inst = e, !.next = m]
           u == used \cup {0}
<1>1. /\ Now \in State /\ Tabled(Now) /\ Known(Now, lost) /\ used \subseteq Id /\ 0 \in Id
      /\ Now.disk = disk /\ Now.inst = inst /\ Now.forks = forks /\ Now.unsaved = unsaved
      /\ Now.proc = proc
    BY BoundsAssumption DEF IInv, TypeOK, Now, Id
<1>2. /\ disk \in [next : 0 .. MaxId + 1, want : [Id -> {"absent", "on", "off"}]]
      /\ \A i \in Id : disk.want[i] # "absent" => i < disk.next
    BY <1>1 DEF State, IInv
<1>3. m = IF disk.next = 0 THEN 1 ELSE disk.next BY <1>2, LoadedNextIs
<1> HIDE DEF m
<1>4. m \in 1 .. MaxId + 1 /\ m \in Nat /\ 0 < m /\ disk.next <= m
    BY <1>2, <1>3, BoundsAssumption
<1>5. ASSUME NEW i \in Id
      PROVE  /\ e[i] \in Entry /\ ~ e[i].running /\ e[i].pid = 0
             /\ e[i].present <=> disk.want[i] # "absent"
             /\ ~ e[i].present => ~ e[i].desired
             /\ Want(e[i]) = disk.want[i]
    <2>1. disk.want[i] \in {"absent", "on", "off"} BY <1>2
    <2>2. CASE disk.want[i] = "absent"
        <3>1. e[i] = NoEntry BY <2>2
        <3> HIDE DEF e
        <3>2. /\ e[i] \in Entry /\ ~ e[i].running /\ e[i].pid = 0
              /\ ~ e[i].present /\ ~ e[i].desired
            BY <3>1 DEF NoEntry, Entry
        <3> QED BY <2>2, <3>2 DEF Want
    <2>3. CASE disk.want[i] # "absent"
        <3>1. e[i] = [NewEntry EXCEPT !.desired = disk.want[i] = "on"] BY <2>3
        <3>2. /\ e[i] \in Entry /\ ~ e[i].running /\ e[i].pid = 0 /\ e[i].present
              /\ e[i].desired <=> disk.want[i] = "on"
            <4> HIDE DEF e
            <4> QED BY <3>1 DEF NewEntry, NoEntry, Entry
        <3> HIDE DEF e
        <3> QED BY <2>1, <2>3, <3>2 DEF Want
    <2> QED BY <2>2, <2>3
<1>6. e \in [Id -> Entry] BY <1>5
<1> HIDE DEF e
<1>7. l \in State BY <1>1, <1>4, <1>6 DEF State
<1>8. /\ l.inst = e /\ l.next = m /\ l.disk = disk /\ l.forks = forks /\ l.unsaved = unsaved
      /\ l.proc = proc
    BY <1>1 DEF State
<1> HIDE DEF l
<1>9. Sound(l, lost, u)
    <2>1. Tabled(l) BY <1>1, <1>5, <1>8 DEF Tabled
    <2>2. Known(l, lost)
        <3>1. \A i \in Id : inst[i].pid = 0
            BY DEF IInv, Down, NoEntry
        <3>2. \A i \in Id : \A p \in 1 .. Len(proc[i]) : proc[i][p] = "running" => p \in lost[i]
            BY <1>1, <3>1 DEF Known
        <3> QED BY <1>8, <3>2 DEF Known
    <2>3. Numbered(l, u)
        <3>1. \A i \in Id : disk.want[i] # "absent" => i < m
            <4>1. \A i \in Id : i \in Nat BY DEF Id
            <4>2. disk.next \in Nat BY <1>2
            <4> QED BY <1>2, <1>4, <4>1, <4>2
        <3>2. "ever" \notin unsaved => "last" \notin unsaved /\ \A i \in u : i < m
            <4>1. \A i \in used : i \in Nat BY <1>1 DEF Id
            <4>2. disk.next \in Nat BY <1>2
            <4>3. "ever" \notin unsaved =>
                      "last" \notin unsaved /\ \A i \in used : i < disk.next
                BY DEF IInv, Down
            <4> QED BY <1>4, <4>1, <4>2, <4>3
        <3> QED BY <1>2, <1>5, <1>8, <3>1, <3>2 DEF Numbered
    <2> QED BY <1>7, <2>1, <2>2, <2>3 DEF Sound
<1>10. CASE e[0].present
    <2>1. Loaded(Now, sv) = l BY <1>10 DEF Loaded, l, e, m, Now
    <2>2. disk.next = m BY <1>1, <1>2, <1>3, <1>5, <1>10
    <2>3. Current(l, {}) BY <1>5, <1>8, <2>2 DEF Current
    <2> QED BY <1>5, <1>8, <1>9, <2>1, <2>3
<1>11. CASE ~ e[0].present
    <2> DEFINE w == WithEntry(l, 0, NewEntry, m)
    <2>1. Loaded(Now, sv) = Saved([l EXCEPT !.inst[0] = NewEntry], sv)
        BY <1>1, <1>11 DEF Loaded, l, e, m
    <2>2. [l EXCEPT !.inst[0] = NewEntry] = w BY <1>7, <1>8 DEF WithEntry, State
    <2>3. NewEntry \in Entry /\ NewEntry.present /\ ~ NewEntry.running /\ NewEntry.pid = 0
        BY DEF NewEntry, NoEntry, Entry
    <2>4. Sound(w, lost, u)
        <3>1. l.next <= m /\ (NewEntry.present => 0 < m) /\ 0 \in Id BY <1>1, <1>4, <1>8
        <3>2. ~ l.inst[0].running /\ (~ NewEntry.present => ~ NewEntry.desired) /\ u \subseteq Id
            BY <1>1, <1>5, <1>8, <2>3
        <3>3. \A x \in u : x \in u \/ x < m OBVIOUS
        <3> HIDE DEF u
        <3> QED BY ONLY <1>4, <1>9, <2>3, <3>1, <3>2, <3>3, EntrySound
    <2>5. w.forks = forks /\ \A i \in Id : ~ w.inst[i].running
        BY <1>5, <1>7, <1>8, <2>3 DEF WithEntry, State
    <2> HIDE DEF w
    <2>6. Sound(Saved(w, sv), lost, u) /\ Current(Saved(w, sv), {}) /\ Saved(w, sv).inst = w.inst
        BY <2>4, SavedSound
    <2>7. Saved(w, sv).forks = w.forks
        <3>1. w \in State BY <2>4 DEF Sound
        <3> QED BY <3>1 DEF Saved, State
    <2> QED BY <2>1, <2>2, <2>5, <2>6, <2>7
<1> QED BY <1>10, <1>11

\* sbs_instance_manager_start_desired of a table in which nothing runs.
LEMMA StartedSound ==
    ASSUME NEW t, NEW l, NEW u, NEW S \in SUBSET Id, NEW sv \in BOOLEAN,
           Sound(t, l, u), Current(t, {}), \A i \in Id : ~ t.inst[i].running,
           t.forks + Cardinality(S) <= MaxSpawn
    PROVE  Sound(StartedDesired(t, S, sv), l, u) /\ Current(StartedDesired(t, S, sv), {})
<1> DEFINE go == {i \in S : t.inst[i].desired}
           n == [i \in Id |-> IF i \in go THEN Forked(t, i).inst[i] ELSE t.inst[i]]
           q == [i \in Id |-> IF i \in go THEN Forked(t, i).proc[i] ELSE t.proc[i]]
           v == [i \in Id |-> IF i \in go THEN Forked(t, i).watch[i] ELSE t.watch[i]]
           f == [i \in Id |-> t.inst[i].desired /\ i \notin go]
           k == t.forks + Cardinality(go)
           r == [t EXCEPT !.inst = n, !.proc = q, !.watch = v, !.forks = k, !.failed = f]
<1>1. StartedDesired(t, S, sv) = IF go = {} THEN r ELSE Saved(r, sv)
    BY Zenon DEF StartedDesired
<1>2. t \in State BY DEF Sound
<1>3. /\ IsFiniteSet(S) /\ IsFiniteSet(go)
      /\ Cardinality(S) \in Nat /\ Cardinality(go) \in Nat /\ Cardinality(go) <= Cardinality(S)
      /\ go # {} => Cardinality(go) >= 1
    <2>1. IsFiniteSet(Id) BY FS_Interval, BoundsAssumption DEF Id
    <2>2. IsFiniteSet(S) BY <2>1, FS_Subset
    <2>3. IsFiniteSet(go) /\ Cardinality(go) <= Cardinality(S) BY <2>2, FS_Subset
    <2>4. Cardinality(S) \in Nat /\ Cardinality(go) \in Nat BY <2>2, <2>3, FS_CardinalityType
    <2>5. go # {} => Cardinality(go) # 0 BY <2>3, FS_EmptySet
    <2> QED BY <2>2, <2>3, <2>4, <2>5
<1>4. t.forks \in Nat /\ k \in 0 .. MaxSpawn /\ t.forks <= k
          /\ (go # {} => t.forks < MaxSpawn /\ t.forks + 1 <= k)
    BY <1>2, <1>3, BoundsAssumption DEF State
<1>5. ASSUME NEW i \in go
      PROVE  /\ i \in Id /\ Sound(Forked(t, i), l, u)
             /\ Forked(t, i).forks = t.forks + 1 /\ Forked(t, i).next = t.next
    <2>1. i \in Id /\ t.inst[i].desired OBVIOUS
    <2>2. t.inst[i].present BY <2>1 DEF Sound, Tabled
    <2>3. t.forks < MaxSpawn BY <1>4
    <2> HIDE DEF go
    <2> QED BY <2>1, <2>2, <2>3, ForkedSound
<1>6. ASSUME NEW i \in Id
      PROVE  /\ n[i] \in Entry /\ q[i] \in Seq(Life) /\ v[i] \in SUBSET Pid
             /\ n[i].running => n[i].pid \in v[i] /\ n[i].pid \in 1 .. Len(q[i])
             /\ ~ n[i].running => n[i].pid = 0
             /\ ~ n[i].present => ~ n[i].running /\ ~ n[i].desired
             /\ Len(q[i]) <= k
             /\ \A p \in 1 .. Len(q[i]) : q[i][p] = "running" => p = n[i].pid \/ p \in l[i]
             /\ n[i].present => i < t.next
    <2> HIDE DEF k
    <2>1. CASE i \in go
        <3> DEFINE z == Forked(t, i)
        <3>1. n[i] = z.inst[i] /\ q[i] = z.proc[i] /\ v[i] = z.watch[i] BY <2>1
        <3>2. Sound(z, l, u) /\ z.forks = t.forks + 1 /\ z.next = t.next BY <1>5, <2>1
        <3> HIDE DEF z, n, q, v
        <3>3. z.inst[i] \in Entry /\ z.proc[i] \in Seq(Life) /\ z.watch[i] \in SUBSET Pid
            BY <3>2 DEF Sound, State
        <3>4. Len(z.proc[i]) <= k
            <4>1. Len(z.proc[i]) <= t.forks + 1 BY <3>2 DEF Sound, Tabled
            <4>2. Len(z.proc[i]) \in Nat BY <3>3
            <4>3. t.forks + 1 <= k /\ k \in Nat BY <1>4, <2>1, BoundsAssumption
            <4> QED BY <1>4, <4>1, <4>2, <4>3
        <3>5. /\ z.inst[i].running => z.inst[i].pid \in z.watch[i]
                                          /\ z.inst[i].pid \in 1 .. Len(z.proc[i])
              /\ ~ z.inst[i].running => z.inst[i].pid = 0
              /\ ~ z.inst[i].present => ~ z.inst[i].running /\ ~ z.inst[i].desired
            BY <3>2 DEF Sound, Tabled
        <3>6. /\ \A p \in 1 .. Len(z.proc[i]) :
                     z.proc[i][p] = "running" => p = z.inst[i].pid \/ p \in l[i]
              /\ z.inst[i].present => i < t.next
            BY <3>2 DEF Sound, Known, Numbered
        <3> QED BY <3>1, <3>3, <3>4, <3>5, <3>6
    <2>2. CASE i \notin go
        <3>1. n[i] = t.inst[i] /\ q[i] = t.proc[i] /\ v[i] = t.watch[i] BY <2>2
        <3> HIDE DEF n, q, v
        <3>3. t.inst[i] \in Entry /\ t.proc[i] \in Seq(Life) /\ t.watch[i] \in SUBSET Pid
            BY <1>2 DEF State
        <3>4. Len(t.proc[i]) <= k
            <4>1. Len(t.proc[i]) <= t.forks BY DEF Sound, Tabled
            <4>2. Len(t.proc[i]) \in Nat BY <3>3
            <4>3. k \in Nat BY <1>4, BoundsAssumption
            <4> QED BY <1>4, <4>1, <4>2, <4>3
        <3>5. /\ t.inst[i].running => t.inst[i].pid \in t.watch[i]
                                          /\ t.inst[i].pid \in 1 .. Len(t.proc[i])
              /\ ~ t.inst[i].running => t.inst[i].pid = 0
              /\ ~ t.inst[i].present => ~ t.inst[i].running /\ ~ t.inst[i].desired
            BY DEF Sound, Tabled
        <3>6. /\ \A p \in 1 .. Len(t.proc[i]) :
                     t.proc[i][p] = "running" => p = t.inst[i].pid \/ p \in l[i]
              /\ t.inst[i].present => i < t.next
            BY DEF Sound, Known, Numbered
        <3> QED BY <3>1, <3>3, <3>4, <3>5, <3>6
    <2> QED BY <2>1, <2>2
<1>7. /\ n \in [Id -> Entry] /\ q \in [Id -> Seq(Life)] /\ v \in [Id -> SUBSET Pid]
      /\ f \in [Id -> BOOLEAN]
    BY <1>2, <1>6 DEF State, Entry
<1>8. go = {} => n = t.inst BY <1>2 DEF State
<1> HIDE DEF go, n, q, v, f, k
<1>9. r \in State BY <1>2, <1>4, <1>7 DEF State
<1>10. /\ r.inst = n /\ r.proc = q /\ r.watch = v /\ r.forks = k
       /\ r.next = t.next /\ r.disk = t.disk /\ r.unsaved = t.unsaved
    BY <1>2 DEF State
<1> HIDE DEF r
<1>11. Tabled(r) BY <1>6, <1>10 DEF Tabled
<1>12. Known(r, l) BY <1>6, <1>10 DEF Known
<1>13. Numbered(r, u) BY <1>6, <1>10 DEF Sound, Numbered
<1>14. Sound(r, l, u) BY <1>9, <1>11, <1>12, <1>13 DEF Sound
<1>15. CASE go = {}
    <2>1. Current(r, {}) BY <1>8, <1>10, <1>15 DEF Current
    <2> QED BY <1>1, <1>14, <1>15, <2>1
<1>16. CASE go # {} BY <1>1, <1>14, <1>16, SavedSound
<1> QED BY <1>15, <1>16

\* The controller starts.
LEMMA BootStep ==
    ASSUME IInv, NEW S \in SUBSET Id, NEW sv \in BOOLEAN, Boot(S, sv)
    PROVE  IInv'
<1> DEFINE t == Loaded(Now, sv)
           r == StartedDesired(t, S, sv)
<1>0. /\ ~ up /\ up' /\ forks + Cardinality(S) <= MaxSpawn /\ Become(r)
      /\ used' = used \cup {0} /\ UNCHANGED <<idle, blocked, crashes, lost>>
    BY DEF Boot
<1>1. /\ Sound(t, lost, used') /\ Current(t, {})
      /\ \A i \in Id : ~ t.inst[i].running
      /\ t.forks = forks
    BY <1>0, LoadedSound
<1> HIDE DEF t
<1>2. Sound(r, lost, used') /\ Current(r, {}) BY <1>0, <1>1, StartedSound
<1> HIDE DEF r
<1>3. Now' = r BY <1>0, <1>2, BecomeNow DEF Sound
<1>4. used' \subseteq Id
    <2>1. 0 \in Id BY BoundsAssumption DEF Id
    <2> QED BY <1>0, <2>1 DEF IInv, TypeOK
<1> QED BY <1>0, <1>2, <1>3, <1>4, CurrentMore, UpStep DEF IInv, TypeOK

-----------------------------------------------------------------------------
(* The theorems.                                                           *)

\* Before the first start there is no table, no file and no process.
LEMMA InitIInv == Init => IInv
<1> SUFFICES ASSUME Init PROVE IInv OBVIOUS
<1>1. NoEntry \in Entry /\ ~ NoEntry.present /\ ~ NoEntry.running /\ ~ NoEntry.desired
          /\ NoEntry.pid = 0
    BY DEF NoEntry, Entry
<1>2. << >> \in Seq(Life) /\ Len(<< >>) = 0 OBVIOUS
<1>3. TypeOK
    <2>1. inst \in [Id -> Entry] BY <1>1 DEF Init
    <2>2. proc \in [Id -> Seq(Life)] BY <1>2 DEF Init
    <2>3. disk \in [next : 0 .. MaxId + 1, want : [Id -> {"absent", "on", "off"}]]
        BY BoundsAssumption DEF Init
    <2>4. Now \in State BY <2>1, <2>2, <2>3, BoundsAssumption DEF Now, State, Init
    <2>5. NotBlocked \in [id : Id, pid : {0} \cup Pid, then : After]
        BY BoundsAssumption DEF NotBlocked, Id, After
    <2> QED BY <2>4, <2>5 DEF TypeOK, Init
<1>4. Now.inst = inst /\ Now.proc = proc /\ Now.forks = forks BY DEF Now
<1>5. \A i \in Id : inst[i] = NoEntry /\ proc[i] = << >> BY DEF Init
<1>6. Tabled(Now) BY <1>1, <1>2, <1>4, <1>5 DEF Tabled, Init
<1>7. Known(Now, lost) BY <1>2, <1>4, <1>5 DEF Known
<1> QED BY <1>3, <1>6, <1>7 DEF IInv, Down, Init

\* Every handler, callback, exit, crash and start keeps the invariant.
LEMMA NextIInv == IInv /\ [Next]_vars => IInv'
<1> SUFFICES ASSUME IInv, [Next]_vars PROVE IInv' OBVIOUS
<1>1. CASE Handler BY <1>1, CreateStep, StartStep, StopStep, StopBlocksStep, StopResumesStep
                   DEF Handler
<1>2. ASSUME NEW i \in Id, Callback(i) PROVE IInv'
    BY <1>2, ProcessStep, ChildWatchStep, RestartIdleStep DEF Callback
<1>3. ASSUME NEW i \in Id, NEW p \in Pid, Exit(i, p) PROVE IInv' BY <1>3, ProcessStep
<1>4. CASE Shutdown \/ Crash BY <1>4, EndStep
<1>5. ASSUME NEW S \in SUBSET Id, NEW sv \in BOOLEAN, Boot(S, sv) PROVE IInv'
    BY <1>5, BootStep
<1>6. CASE UNCHANGED vars
    <2>1. Now' = Now /\ Waiting' = Waiting BY <1>6 DEF vars, Now, Waiting
    <2> QED BY <1>6, <2>1 DEF IInv, TypeOK, Tabled, Known, Numbered, Current, Down, vars
<1> QED BY <1>1, <1>2, <1>3, <1>4, <1>5, <1>6 DEF Next

\* The invariant holds in every behaviour.
LEMMA Invariance == Spec => []IInv
<1> QED BY InitIInv, NextIInv, PTL DEF Spec

\* The table, the watches, the file and the processes have their types, for any
\* number of ids, spawns and crashes.
THEOREM TypesCorrect == Spec => []TypeOK
<1>1. IInv => TypeOK BY DEF IInv
<1> QED BY <1>1, Invariance, PTL

\* An entry that counts as running has a child watch on its process: spawn sets
\* both, and whatever takes the watch away clears the entry.
THEOREM WatchedCorrect == Spec => []RunningIsWatched
<1>1. IInv => RunningIsWatched BY DEF IInv, Tabled, RunningIsWatched, Now
<1> QED BY <1>1, Invariance, PTL

\* A running process is its entry's, or was lost to a late child watch, to a
\* stop that waited, or to the death of the controller: no start, removal or
\* shutdown leaves one behind.
THEOREM StraysCorrect == Spec => []OnlyTheLostStray
<1>1. IInv => OnlyTheLostStray
    <2> SUFFICES ASSUME IInv, NEW i \in Id, NEW p \in Pid,
                        p <= Len(proc[i]), proc[i][p] = "running"
                 PROVE  p \in {inst[i].pid} \cup lost[i]
        BY DEF OnlyTheLostStray, Live
    <2>1. Now.inst = inst /\ Now.proc = proc BY DEF Now
    <2>2. proc[i] \in Seq(Life) BY <2>1 DEF IInv, TypeOK, State
    <2>3. p \in 1 .. Len(proc[i]) BY <2>2, BoundsAssumption DEF Pid
    <2> QED BY <2>1, <2>3 DEF IInv, Known
<1> QED BY <1>1, Invariance, PTL

\* After every handler the file holds the table, unless the last save failed or,
\* for its own instance, a stop still waits.
THEOREM DiskCorrect == Spec => []DiskCurrent
<1>1. IInv => DiskCurrent
    <2> SUFFICES ASSUME IInv, up, "last" \notin unsaved
                 PROVE  /\ disk.next = next
                        /\ \A i \in Id : \/ disk.want[i] = Want(inst[i])
                                         \/ (blocked # NotBlocked /\ blocked.id = i)
        BY DEF DiskCurrent
    <2>1. Current(Now, Waiting) /\ Now.disk = disk /\ Now.next = next /\ Now.inst = inst
              /\ Now.unsaved = unsaved
        BY DEF IInv, Now
    <2> QED BY <2>1 DEF Current, Waiting
<1> QED BY <1>1, Invariance, PTL

\* As long as every save succeeded no id is handed out twice, across removals
\* and restarts of the controller.
THEOREM IdsCorrect == Spec => []IdsFresh
<1>1. IInv => IdsFresh
    <2> SUFFICES ASSUME IInv, up, "ever" \notin unsaved PROVE next \notin used
        BY DEF IdsFresh
    <2>1. Numbered(Now, used) /\ Now.next = next /\ Now.unsaved = unsaved BY DEF IInv, Now
    <2>2. \A i \in used : i < next BY <2>1 DEF Numbered
    <2>3. \A i \in used : i \in Nat BY DEF IInv, TypeOK, Id
    <2> QED BY <2>2, <2>3
<1> QED BY <1>1, Invariance, PTL
=============================================================================
