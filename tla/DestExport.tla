----------------------------- MODULE DestExport -----------------------------
(***************************************************************************)
(* The destination export path, taken when the compositor has no native    *)
(* canvas: the export thread submits a GPU pass from the render target     *)
(* drawn last into a slot of a destination's ring, takes finished slots    *)
(* out again and hands them to the encoder or the preview.                 *)
(*                                                                         *)
(* Two threads share a slot.  The export thread takes it through           *)
(* FREE -> IN_USE -> SUBMITTED -> READY -> IN_USE -> FREE.  The compositor *)
(* thread, before it draws into a render target again, waits for the slot  *)
(* that last read it (retire_slot), takes back that target's reference     *)
(* (retire_refs) and frees the slot when its consumer is already done with *)
(* it (release_pending_free).  retire_slot_mutex protects the pointers;    *)
(* the counters and flags are not under it on the export thread, so each   *)
(* of its accesses is a step of its own.                                   *)
(***************************************************************************)
EXTENDS Integers, Sequences, FiniteSets

CONSTANTS
    Slots,      \* SBS_EXPORT_SLOT_COUNT
    Targets,    \* SBS_RENDER_TARGET_COUNT
    RefModulus, \* 2^32, retire_refs is a uint32
    MaxFrames,  \* bound: frames the compositor renders
    MaxModes,   \* bound: changes of the colour mode
    None        \* NULL

ASSUME RingAssumption ==
    /\ Slots \in Nat \ {0}
    /\ Targets \in Nat \ {0}
    /\ RefModulus \in Nat \ {0, 1}
    /\ {MaxFrames, MaxModes} \subseteq Nat

Dest == {"output", "preview"}
Slot == Dest \X (0 .. Slots - 1)
Target == 0 .. Targets - 1
Mode == {"SDR", "HDR10"}

ASSUME NoneAssumption == None \notin Slot

VARIABLES
    slots,     \* per slot: state, refs, pending, frame, and reset: a fence no pass signals
    dests,     \* per destination: initialized, its colour mode, submit_idx
    inited,    \* dest_output_inited and dest_preview_inited of the router
    colorMode, \* the router's color_mode
    modes,     \* how often it changed
    retire,    \* per render target: retire_slot
    gpu,       \* the export passes on the graphics queue, oldest first
    rendered,  \* the number of the compositor's last frame event
    ct,        \* the compositor thread
    xp,        \* the export thread
    raced      \* history: the slots both threads worked on at once

exportVars == <<slots, dests, inited, colorMode, modes, retire, gpu, rendered,
                ct, xp, raced>>

InFlight(s) == \E k \in DOMAIN gpu : gpu[k] = s

\* vkGetFenceStatus of the slot's fence, which a submit resets first; after one
\* that failed it stays so until the slot is submitted again.
Signalled(s) == ~InFlight(s) /\ ~slots[s].reset /\ ~(xp.pc = "queue" /\ xp.slot = s)

\* retire_slot_mutex is held by the compositor thread.
Locked == ct.pc \in {"fence", "sub", "check", "free", "clear"}

\* init_slot
FreshSlot == [state |-> "FREE", refs |-> 0, pending |-> FALSE, frame |-> 0, reset |-> FALSE]

\* A destination as memset leaves it, and as sbs_export_dest_init makes it.
NoDest == [ready |-> FALSE, mode |-> "SDR", submit |-> 0]
NewDest(m) == [ready |-> TRUE, mode |-> m, submit |-> 0]

ExportInit ==
    /\ slots = [s \in Slot |-> FreshSlot]
    /\ dests = [d \in Dest |-> NoDest]
    /\ inited = [d \in Dest |-> FALSE]
    /\ colorMode = "SDR"
    /\ modes = 0
    /\ retire = [t \in Target |-> None]
    /\ gpu = <<>>
    /\ rendered = 0
    /\ ct = [pc |-> "wait", slot |-> None, r |-> 0, cur |-> 0, last |-> 0]
    /\ xp = [pc |-> "idle", jobs |-> <<>>, need |-> {}, frame |-> 0,
             slot |-> None, target |-> 0, old |-> None, r |-> 0, i |-> 0,
             mode |-> "SDR"]
    /\ raced = {}

ExportTypeOK ==
    /\ slots \in [Slot -> [state : {"FREE", "SUBMITTED", "READY", "IN_USE"},
                           refs : 0 .. RefModulus - 1, pending : BOOLEAN,
                           frame : Nat, reset : BOOLEAN]]
    /\ dests \in [Dest -> [ready : BOOLEAN, mode : Mode, submit : 0 .. Slots - 1]]
    /\ inited \in [Dest -> BOOLEAN]
    /\ colorMode \in Mode /\ modes \in Nat
    /\ retire \in [Target -> Slot \cup {None}]
    /\ gpu \in Seq(Slot)
    /\ rendered \in Nat
    /\ ct \in [pc : {"wait", "lock", "fence", "sub", "check", "free",
                     "clear", "render"},
               slot : Slot \cup {None}, r : 0 .. RefModulus - 1,
               cur : Target, last : Target]
    /\ xp.pc \in {"idle", "next", "plan", "waitIdle", "unname", "destroy",
                  "create", "describe", "note", "queue", "old", "oldLoad", "oldSub",
                  "oldCheck", "oldClear", "name", "count", "mark", "poll",
                  "pick", "consume", "decide", "store"}
    /\ raced \subseteq Slot

----------------------------------------------------------------------------
(* The graphics queue finishes its export passes in order.                 *)

GpuFinishes ==
    /\ gpu # <<>>
    /\ gpu' = Tail(gpu)
    /\ UNCHANGED <<slots, dests, inited, colorMode, modes, retire, rendered, ct, xp>>

----------------------------------------------------------------------------
(* The compositor thread: the retire part of its loop.                     *)

\* The unlocked look at the target's retire_slot.
Wait ==
    /\ ct.pc = "wait"
    /\ ct' = [ct EXCEPT !.pc = IF retire[ct.cur] = None THEN "render" ELSE "lock"]
    /\ UNCHANGED <<slots, dests, inited, colorMode, modes, retire, gpu, rendered, xp>>

\* The pointer is read again under the lock.
Lock ==
    /\ ct.pc = "lock"
    /\ ct' = [ct EXCEPT !.pc = IF retire[ct.cur] = None THEN "render" ELSE "fence",
                        !.slot = retire[ct.cur]]
    /\ UNCHANGED <<slots, dests, inited, colorMode, modes, retire, gpu, rendered, xp>>

\* The wait for the fence times out and the frame is dropped, or the fence
\* signals and the references are read.
FenceTimeout ==
    /\ ct.pc = "fence" /\ ~Signalled(ct.slot)
    /\ ct' = [ct EXCEPT !.pc = "wait", !.slot = None]
    /\ UNCHANGED <<slots, dests, inited, colorMode, modes, retire, gpu, rendered, xp>>

LoadRefs ==
    /\ ct.pc = "fence" /\ Signalled(ct.slot)
    /\ LET r == slots[ct.slot].refs IN
       ct' = [ct EXCEPT !.r = r, !.pc = IF r > 0 THEN "sub" ELSE "check"]
    /\ UNCHANGED <<slots, dests, inited, colorMode, modes, retire, gpu, rendered, xp>>

SubRefs ==
    /\ ct.pc = "sub"
    /\ LET r == (slots[ct.slot].refs - 1) % RefModulus IN
       /\ slots' = [slots EXCEPT ![ct.slot].refs = r]
       /\ ct' = [ct EXCEPT !.r = r, !.pc = "check"]
    /\ UNCHANGED <<dests, inited, colorMode, modes, retire, gpu, rendered, xp>>

CheckPending ==
    /\ ct.pc = "check"
    /\ ct' = [ct EXCEPT !.pc = IF ct.r = 0 /\ slots[ct.slot].pending
                               THEN "free" ELSE "clear"]
    /\ UNCHANGED <<slots, dests, inited, colorMode, modes, retire, gpu, rendered, xp>>

FreeSlot ==
    /\ ct.pc = "free"
    /\ slots' = [slots EXCEPT ![ct.slot].state = "FREE"]
    /\ ct' = [ct EXCEPT !.pc = "clear"]
    /\ UNCHANGED <<dests, inited, colorMode, modes, retire, gpu, rendered, xp>>

ClearTarget ==
    /\ ct.pc = "clear"
    /\ retire' = [retire EXCEPT ![ct.cur] = None]
    /\ ct' = [ct EXCEPT !.pc = "render", !.slot = None, !.r = 0]
    /\ UNCHANGED <<slots, dests, inited, colorMode, modes, gpu, rendered, xp>>

\* sbs_compositor_render_frame: the target becomes the last rendered one, or
\* its submit fails; the frame event is pushed in both cases.
Render ==
    /\ ct.pc = "render"
    /\ rendered < MaxFrames
    /\ rendered' = rendered + 1
    /\ \/ ct' = [ct EXCEPT !.pc = "wait", !.last = ct.cur,
                            !.cur = (ct.cur + 1) % Targets]
       \/ ct' = [ct EXCEPT !.pc = "wait"]
    /\ UNCHANGED <<slots, dests, inited, colorMode, modes, retire, gpu, xp>>

----------------------------------------------------------------------------
(* The export thread: one frame of the compositor, or a timed-out select.  *)

Then(pc) == [xp EXCEPT !.pc = pc]
Work(jobs) == [xp EXCEPT !.pc = IF jobs = <<>> THEN "idle" ELSE "next",
                         !.jobs = jobs, !.need = {}, !.slot = None, !.target = 0,
                         !.old = None, !.r = 0, !.i = 0, !.mode = "SDR"]
NextJob == [Work(Tail(xp.jobs)) EXCEPT !.need = xp.need]
At(kind) == xp.pc = "next" /\ Head(xp.jobs).kind = kind

Job(kind, d) == [kind |-> kind, dest |-> d]
JobIf(b, kind, d) == IF b THEN <<Job(kind, d)>> ELSE <<>>

Visits(need) == (\E d \in Dest : dests[d].ready) \/ (\E d \in need : ~inited[d])

\* export_thread_process_frame: need is who wants frames, sampled once.  The
\* destinations come first when one of them is there already or is still to be
\* initialised; dest_output_inited is read again after the preview's turn.
TakeEvent(need) ==
    /\ xp.pc = "idle"
    /\ xp.frame < rendered
    /\ xp' = [xp EXCEPT !.pc = "next", !.need = need, !.frame = xp.frame + 1,
                 !.jobs = JobIf("preview" \in need /\ ~inited["preview"], "init", "preview")
                          \o JobIf("output" \in need /\ Visits(need), "init", "output")
                          \o <<Job("plan", "output")>>]
    /\ UNCHANGED <<slots, dests, inited, colorMode, modes, retire, gpu, rendered, ct>>

\* dest_preview_ok and dest_output_ok; a preview frame may be skipped by rate.
Plan ==
    /\ At("plan")
    /\ LET ok == {d \in xp.need : inited[d] /\ dests[d].ready} IN
       \E due \in BOOLEAN :
           xp' = Work(JobIf("output" \in ok, "submit", "output")
                      \o JobIf("preview" \in ok /\ due, "submit", "preview")
                      \o JobIf("output" \in ok, "take", "output")
                      \o JobIf("preview" \in ok, "take", "preview"))
    /\ UNCHANGED <<slots, dests, inited, colorMode, modes, retire, gpu, rendered, ct>>

\* The select of export_thread_func returned after 20 ms without an event.
Timeout ==
    /\ xp.pc = "idle"
    /\ xp.frame = rendered
    /\ xp' = Work(JobIf(inited["output"], "take", "output")
                  \o JobIf(inited["preview"], "take", "preview"))
    /\ UNCHANGED <<slots, dests, inited, colorMode, modes, retire, gpu, rendered, ct>>

\* sbs_compositor_init_export_dest: nothing to do, a teardown, or a new ring.
StartInit ==
    /\ At("init") /\ ~inited[Head(xp.jobs).dest]
    /\ LET d == Head(xp.jobs).dest
           m == IF d = "output" THEN colorMode ELSE "SDR"
       IN  xp' = [xp EXCEPT !.mode = m,
                     !.pc = IF ~dests[d].ready THEN "create"
                            ELSE IF dests[d].mode = m THEN "note" ELSE "waitIdle"]
    /\ UNCHANGED <<slots, dests, inited, colorMode, modes, retire, gpu, rendered, ct>>

\* The destination is there already.
SkipInit ==
    /\ At("init") /\ inited[Head(xp.jobs).dest]
    /\ xp' = NextJob
    /\ UNCHANGED <<slots, dests, inited, colorMode, modes, retire, gpu, rendered, ct>>

\* vkQueueWaitIdle
WaitIdle ==
    /\ xp.pc = "waitIdle"
    /\ gpu = <<>>
    /\ xp' = Then("unname")
    /\ UNCHANGED <<slots, dests, inited, colorMode, modes, retire, gpu, rendered, ct>>

\* Mutant of Unname: only the target drawn last is cleared.
UnnameSome ==
    /\ xp.pc = "unname" /\ ~Locked
    /\ retire' = [retire EXCEPT ![ct.last] = None]
    /\ xp' = Then("destroy")
    /\ UNCHANGED <<slots, dests, inited, colorMode, modes, gpu, rendered, ct>>

\* The retire pointers into the ring are cleared under the lock.
Unname ==
    /\ xp.pc = "unname" /\ ~Locked
    /\ retire' = [t \in Target |->
                    IF retire[t] # None /\ retire[t][1] = Head(xp.jobs).dest
                    THEN None ELSE retire[t]]
    /\ xp' = Then("destroy")
    /\ UNCHANGED <<slots, dests, inited, colorMode, modes, gpu, rendered, ct>>

\* sbs_export_dest_init_slots, and what a destroyed destination is reset to.
FreshRing(d) == [s \in Slot |-> IF s[1] = d THEN FreshSlot ELSE slots[s]]

\* sbs_export_dest_destroy zeroes the whole destination.
Destroyed(d) ==
    /\ slots' = FreshRing(d)
    /\ dests' = [dests EXCEPT ![d] = NoDest]

Destroy ==
    /\ xp.pc = "destroy"
    /\ Destroyed(Head(xp.jobs).dest)
    /\ xp' = Then("create")
    /\ UNCHANGED <<inited, colorMode, modes, retire, gpu, rendered, ct>>

\* The ring is made; when a slot fails, the destination is uninitialised
\* again and the next frame tries anew.
Create ==
    /\ xp.pc = "create"
    /\ LET d == Head(xp.jobs).dest IN
       \/ /\ dests' = [dests EXCEPT ![d] = NewDest(xp.mode)]
          /\ slots' = FreshRing(d)
          /\ xp' = Then("describe")
       \/ /\ xp' = NextJob
          /\ UNCHANGED <<dests, slots>>
    /\ UNCHANGED <<inited, colorMode, modes, retire, gpu, rendered, ct>>

\* init_dest_export_slots: a ring whose descriptors fail is destroyed.
Describe ==
    /\ xp.pc = "describe"
    /\ \/ xp' = Then("note") /\ UNCHANGED <<slots, dests>>
       \/ xp' = NextJob /\ Destroyed(Head(xp.jobs).dest)
    /\ UNCHANGED <<inited, colorMode, modes, retire, gpu, rendered, ct>>

\* rc == 0: the router notes that the destination is there.
NoteInited ==
    /\ xp.pc = "note"
    /\ inited' = [inited EXCEPT ![Head(xp.jobs).dest] = TRUE]
    /\ xp' = NextJob
    /\ UNCHANGED <<slots, dests, colorMode, modes, retire, gpu, rendered, ct>>

----------------------------------------------------------------------------
(* sbs_compositor_export_dest_submit                                       *)

\* sbs_export_dest_acquire_slot: the first FREE slot from submit_idx on.
FirstFree(d) ==
    LET at(k) == <<d, (dests[d].submit + k) % Slots>>
        free == {k \in 0 .. Slots - 1 : slots[at(k)].state = "FREE"}
    IN  IF free = {} THEN None
        ELSE at(CHOOSE k \in free : \A j \in free : k <= j)

\* last_rendered_target is read, and a slot claimed; a full ring drops the frame.
AcquireSlot ==
    /\ At("submit")
    /\ LET d == Head(xp.jobs).dest
           s == FirstFree(d)
       IN  \/ /\ s = None
              /\ xp' = NextJob
              /\ UNCHANGED <<slots, dests>>
           \/ /\ s # None
              /\ slots' = [slots EXCEPT ![s].state = "IN_USE"]
              /\ dests' = [dests EXCEPT ![d].submit = (s[2] + 1) % Slots]
              /\ xp' = [Then("queue") EXCEPT !.slot = s, !.target = ct.last]
    /\ UNCHANGED <<inited, colorMode, modes, retire, gpu, rendered, ct>>

\* The pass is recorded and vkQueueSubmit called; when that fails the slot is
\* free again, its fence reset.
QueueSubmit ==
    /\ xp.pc = "queue"
    /\ \/ /\ gpu' = Append(gpu, xp.slot)
          /\ xp' = Then("old")
          /\ slots' = [slots EXCEPT ![xp.slot].reset = FALSE]
       \/ /\ slots' = [slots EXCEPT ![xp.slot].state = "FREE", ![xp.slot].reset = TRUE]
          /\ xp' = NextJob
          /\ UNCHANGED gpu
    /\ UNCHANGED <<dests, inited, colorMode, modes, retire, rendered, ct>>

\* The slot the target was waiting for so far, read without the lock.
LookOld ==
    /\ xp.pc = "old"
    /\ LET s == retire[xp.target] IN
       xp' = IF s \in {None, xp.slot} THEN Then("name")
             ELSE [Then("oldLoad") EXCEPT !.old = s]
    /\ UNCHANGED <<slots, dests, inited, colorMode, modes, retire, gpu, rendered, ct>>

\* release_retire_slot_if_done, in the steps of its accesses.
OldLoad ==
    /\ xp.pc = "oldLoad"
    /\ LET r == slots[xp.old].refs IN
       xp' = [Then(IF r > 0 THEN "oldSub" ELSE "oldCheck") EXCEPT !.r = r]
    /\ UNCHANGED <<slots, dests, inited, colorMode, modes, retire, gpu, rendered, ct>>

OldSub ==
    /\ xp.pc = "oldSub"
    /\ LET r == (slots[xp.old].refs - 1) % RefModulus IN
       /\ slots' = [slots EXCEPT ![xp.old].refs = r]
       /\ xp' = [Then("oldCheck") EXCEPT !.r = r]
    /\ UNCHANGED <<dests, inited, colorMode, modes, retire, gpu, rendered, ct>>

OldCheck ==
    /\ xp.pc = "oldCheck"
    /\ slots' = IF xp.r = 0 /\ slots[xp.old].pending
                THEN [slots EXCEPT ![xp.old].state = "FREE"] ELSE slots
    /\ xp' = Then("oldClear")
    /\ UNCHANGED <<dests, inited, colorMode, modes, retire, gpu, rendered, ct>>

OldClear ==
    /\ xp.pc = "oldClear"
    /\ retire' = [retire EXCEPT ![xp.target] = None]
    /\ xp' = [Then("name") EXCEPT !.old = None, !.r = 0]
    /\ UNCHANGED <<slots, dests, inited, colorMode, modes, gpu, rendered, ct>>

\* The target waits for this slot from now on; the pointer is set under the
\* lock, the reference is counted after it.
NameTarget ==
    /\ xp.pc = "name" /\ ~Locked
    /\ retire' = [retire EXCEPT ![xp.target] = xp.slot]
    /\ xp' = Then("count")
    /\ UNCHANGED <<slots, dests, inited, colorMode, modes, gpu, rendered, ct>>

CountRef ==
    /\ xp.pc = "count"
    /\ slots' = [slots EXCEPT ![xp.slot].refs = (@ + 1) % RefModulus]
    /\ xp' = Then("mark")
    /\ UNCHANGED <<dests, inited, colorMode, modes, retire, gpu, rendered, ct>>

\* sbs_export_slot_mark_submitted
MarkSubmitted ==
    /\ xp.pc = "mark"
    /\ slots' = [slots EXCEPT ![xp.slot].state = "SUBMITTED",
                              ![xp.slot].pending = FALSE,
                              ![xp.slot].frame = xp.frame]
    /\ xp' = NextJob
    /\ UNCHANGED <<dests, inited, colorMode, modes, retire, gpu, rendered, ct>>

----------------------------------------------------------------------------
(* sbs_compositor_export_dest_acquire and _release                         *)

StartTake ==
    /\ At("take")
    /\ xp' = IF dests[Head(xp.jobs).dest].ready THEN Then("poll") ELSE NextJob
    /\ UNCHANGED <<slots, dests, inited, colorMode, modes, retire, gpu, rendered, ct>>

\* sbs_export_slot_poll_ready, of one slot after the other.
PollReady ==
    /\ xp.pc = "poll"
    /\ LET s == <<Head(xp.jobs).dest, xp.i>> IN
       slots' = IF slots[s].state = "SUBMITTED" /\ Signalled(s)
                THEN [slots EXCEPT ![s].state = "READY"] ELSE slots
    /\ xp' = IF xp.i = Slots - 1 THEN Then("pick") ELSE [xp EXCEPT !.i = @ + 1]
    /\ UNCHANGED <<dests, inited, colorMode, modes, retire, gpu, rendered, ct>>

\* The READY slot with the lowest frame number, the first of equal ones.
Oldest(d) ==
    LET ready == {s \in Slot : s[1] = d /\ slots[s].state = "READY"}
        before(a, b) == \/ slots[a].frame < slots[b].frame
                        \/ slots[a].frame = slots[b].frame /\ a[2] < b[2]
    IN  IF ready = {} THEN None
        ELSE CHOOSE s \in ready : \A o \in ready \ {s} : before(s, o)

PickOldest ==
    /\ xp.pc = "pick"
    /\ LET s == Oldest(Head(xp.jobs).dest) IN
       \/ /\ s = None
          /\ xp' = NextJob
          /\ UNCHANGED slots
       \/ /\ s # None
          /\ slots' = [slots EXCEPT ![s].state = "IN_USE"]
          /\ xp' = [Then("consume") EXCEPT !.slot = s, !.i = 0]
    /\ UNCHANGED <<dests, inited, colorMode, modes, retire, gpu, rendered, ct>>

\* The frame is handed to its consumers (the timeout path hands it to nobody);
\* sbs_export_slot_release then begins with a look at the references.
Consume ==
    /\ xp.pc = "consume"
    /\ xp' = [Then("decide") EXCEPT !.r = slots[xp.slot].refs]
    /\ UNCHANGED <<slots, dests, inited, colorMode, modes, retire, gpu, rendered, ct>>

\* Mutant of DecideRelease: the pending flag is not set.
DecideForgets ==
    /\ xp.pc = "decide"
    /\ slots' = IF xp.r = 0 THEN [slots EXCEPT ![xp.slot].state = "FREE"] ELSE slots
    /\ xp' = IF xp.r = 0 THEN NextJob ELSE Then("store")
    /\ UNCHANGED <<dests, inited, colorMode, modes, retire, gpu, rendered, ct>>

\* Free at once, or marked to be freed by whoever takes the last reference.
DecideRelease ==
    /\ xp.pc = "decide"
    /\ \/ /\ xp.r = 0
          /\ slots' = [slots EXCEPT ![xp.slot].state = "FREE"]
          /\ xp' = NextJob
       \/ /\ xp.r # 0
          /\ slots' = [slots EXCEPT ![xp.slot].pending = TRUE]
          /\ xp' = Then("store")
    /\ UNCHANGED <<dests, inited, colorMode, modes, retire, gpu, rendered, ct>>

StoreInUse ==
    /\ xp.pc = "store"
    /\ slots' = [slots EXCEPT ![xp.slot].state = "IN_USE"]
    /\ xp' = NextJob
    /\ UNCHANGED <<dests, inited, colorMode, modes, retire, gpu, rendered, ct>>

----------------------------------------------------------------------------
\* sbs_output_router_set_color_mode, called by the main loop at any time.
ChangeColorMode ==
    /\ modes < MaxModes
    /\ \E m \in Mode \ {colorMode} : colorMode' = m
    /\ modes' = modes + 1
    /\ inited' = [inited EXCEPT !["output"] = FALSE]
    /\ UNCHANGED <<slots, dests, retire, gpu, rendered, ct, xp>>

CompositorStep ==
    \/ Wait \/ Lock \/ FenceTimeout \/ LoadRefs \/ SubRefs \/ CheckPending
    \/ FreeSlot \/ ClearTarget \/ Render

ExportThreadStep ==
    \/ \E need \in SUBSET Dest \ {{}} : TakeEvent(need)
    \/ Plan \/ Timeout
    \/ SkipInit \/ StartInit \/ WaitIdle \/ Unname \/ Destroy \/ Create \/ Describe
    \/ NoteInited
    \/ AcquireSlot \/ QueueSubmit \/ LookOld \/ OldLoad \/ OldSub \/ OldCheck
    \/ OldClear \/ NameTarget \/ CountRef \/ MarkSubmitted
    \/ StartTake \/ PollReady \/ PickOldest \/ Consume \/ DecideRelease \/ StoreInUse

\* The compositor is between its load of the references and its unlock.
Retiring(s) == ct.slot = s /\ ct.pc \in {"sub", "check", "free", "clear"}

\* The export thread is between two accesses to the slot that belong together.
Touching(s) ==
    \/ xp.slot = s /\ xp.pc \in {"count", "mark", "decide", "store"}
    \/ xp.old = s /\ xp.pc \in {"oldLoad", "oldSub", "oldCheck", "oldClear"}

Overlap(s) == Retiring(s) /\ Touching(s)

ExportNext ==
    /\ \/ GpuFinishes \/ CompositorStep \/ ExportThreadStep \/ ChangeColorMode
    /\ raced' = {s \in Slot : dests'[s[1]].ready /\ (s \in raced \/ Overlap(s)')}

ExportSpec == ExportInit /\ [][ExportNext]_exportVars

----------------------------------------------------------------------------
(* Properties                                                              *)

Named(s) == {t \in Target : retire[t] = s}

\* The targets whose reference has been taken back while they still name the
\* slot, or that name it and whose reference is still to be counted.
Uncounted ==
    (IF ct.pc \in {"check", "free", "clear"} THEN {ct.cur} ELSE {})
    \cup (IF xp.pc \in {"oldCheck", "oldClear", "count"} THEN {xp.target} ELSE {})

\* The slots that can be relied on: no overlap on them, and no teardown of
\* their ring between clearing the pointers and zeroing the slots.
Sound == {s \in Slot \ raced : ~(xp.pc = "destroy" /\ Head(xp.jobs).dest = s[1])}

\* retire_refs is the number of render targets still waiting on the fence.
RefsExact ==
    \A s \in Sound : slots[s].refs = Cardinality(Named(s) \ Uncounted)

Held(s) == xp.slot = s

\* A slot nobody holds is not left IN_USE: it is pending and some target names
\* it, so the compositor frees it when it comes to that target.
NoneStranded ==
    \A s \in Sound :
        slots[s].state = "IN_USE" /\ ~Held(s) => slots[s].pending /\ Named(s) # {}

\* A slot of the ring is never lost: its reference count says how many render
\* targets wait for it, and one whose consumer let go of it is freed by the
\* target that still names it (export_dest.h "free once retire_refs hits 0"),
\* through submits that fail or supersede each other, timed-out waits and a
\* teardown.  Excepted are slots on which the two threads ran into each other
\* in the middle of their unlocked accesses: those the code can lose.
SlotsComeBack == RefsExact /\ NoneStranded

\* A slot's buffer and fence are on the queue at most once.
QueuedOnce ==
    \A j, k \in DOMAIN gpu : gpu[j] = gpu[k] /\ gpu[j] \notin raced => j = k

\* What a consumer reads has been written.
ConsumedIsDone == xp.pc = "consume" /\ xp.slot \notin raced => ~InFlight(xp.slot)

\* No destroyed slot is on the queue, named by a target or in the compositor's
\* hands.
NoDangling ==
    /\ \A k \in DOMAIN gpu : dests[gpu[k][1]].ready
    /\ \A t \in Target : retire[t] # None => dests[retire[t][1]].ready
    /\ Locked => dests[ct.slot[1]].ready

\* The export thread and the compositor never use a slot that is gone or that
\* the GPU still writes: a change of the colour mode destroys a ring while the
\* compositor retires targets (sbs_compositor_init_export_dest waits for the
\* queue and clears the targets' pointers first), and slots are resubmitted and
\* consumed only after their fence.
SlotsUsedSafely == QueuedOnce /\ ConsumedIsDone /\ NoDangling
=============================================================================
