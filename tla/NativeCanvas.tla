---------------------------- MODULE NativeCanvas ----------------------------
(***************************************************************************)
(* The native canvas of the compositor: two rings of GPU images (the       *)
(* program canvas and the scaled-down preview), their reference counts,    *)
(* and the three one-frame mailboxes through which the compositor thread   *)
(* hands finished images to the other threads of the server.               *)
(*                                                                         *)
(* Three kinds of actor take steps: the compositor thread (poll, publish,  *)
(* render, reconfigure), the GPU (completes submissions in order and       *)
(* signals their fences) and the consumer threads, which move leases       *)
(* around and drop them.  Only the compositor thread takes references and  *)
(* only it recycles entries; every thread gives references back.           *)
(*                                                                         *)
(* hold[p] is the entry that place p owns one reference of.  The places    *)
(* are the mailboxes, the cached frame of a scene transition, the two      *)
(* local variables of mailbox_publish (the entry it has referenced and not *)
(* inserted yet, the entry it has evicted and not released yet), and the   *)
(* lease variables of the consumer threads, the set Holder.                *)
(***************************************************************************)
EXTENDS Integers, Sequences, FiniteSets

CONSTANTS
    CanvasSize, \* entries of the canvas ring, SBS_NATIVE_CANVAS_RING_SIZE
    PreviewSize,\* entries of the preview ring, the same number in the code
    Holder,     \* the lease variables of the consumer threads
    NoEntry     \* UINT32_MAX, no entry

Mailbox == {"OUTPUT", "SNAPSHOT", "PREVIEW"}
LocalPlace == {"transition", "publishing", "dropped"}
Place == Mailbox \cup LocalPlace \cup Holder

Ring == {"canvas", "preview"}
Size(r) == IF r = "canvas" THEN CanvasSize ELSE PreviewSize
Index(r) == 0 .. (Size(r) - 1)
CanvasEntry == {"canvas"} \X Index("canvas")
PreviewEntry == {"preview"} \X Index("preview")
Entry == CanvasEntry \cup PreviewEntry

ASSUME SizeAssumption == CanvasSize \in Nat \ {0} /\ PreviewSize \in Nat \ {0}
ASSUME HolderAssumption == Holder \cap (Mailbox \cup LocalPlace) = {}
ASSUME HolderFinite == IsFiniteSet(Holder)
ASSUME NoEntryAssumption == NoEntry \notin Entry \cup Int

VARIABLES
    state,        \* per entry: FREE, RENDERING or READY
    refcount,     \* per entry: the reference count
    fence,        \* per entry: the render fence is signaled
    writeIdx,     \* per ring: where the next acquire starts to scan
    lastRendered, \* per ring: last_rendered_entry
    gpuQueue,     \* entries submitted to the GPU and not completed
    hold,         \* per place: the entry it owns a reference of
    previewOn,    \* native_preview.initialized
    pc,           \* the compositor thread's position in its loop
    want,         \* the iteration repeats the last frame or renders one
    pollIdx,      \* position of the two poll loops, canvas then preview
    pubEntry,     \* the entry being published
    pubs,         \* mailboxes it is still to be published to
    after,        \* where the thread goes on after the last of them
    timedOut,     \* history: a preview teardown gave up waiting
    newest        \* history: the canvas entry submitted last, NoEntry when
                  \* another was in flight then

ringVars == <<state, refcount, fence, writeIdx, lastRendered, gpuQueue,
              previewOn>>
pubVars == <<pubEntry, pubs, after>>
threadVars == <<pc, want, pollIdx, pubVars>>
historyVars == <<timedOut, newest>>
vars == <<ringVars, hold, threadVars, historyVars>>

PcValue == {"cmd", "poll", "ref", "swap", "unref", "republish",
            "republishPreview", "render", "preview", "wait", "destroy",
            "create"}

TypeOK ==
    /\ state \in [Entry -> {"FREE", "RENDERING", "READY"}]
    /\ refcount \in [Entry -> Nat]
    /\ fence \in [Entry -> BOOLEAN]
    /\ writeIdx \in [Ring -> Nat]
    /\ \A r \in Ring : writeIdx[r] \in Index(r)
    /\ lastRendered \in [Ring -> Nat \cup {NoEntry}]
    /\ \A r \in Ring : lastRendered[r] \in Index(r) \cup {NoEntry}
    /\ gpuQueue \in Seq(Entry)
    /\ hold \in [Place -> Entry \cup {NoEntry}]
    /\ previewOn \in BOOLEAN
    /\ pc \in PcValue
    /\ want \in {"repeat", "late", "render"}
    /\ pollIdx \in 0 .. (CanvasSize + PreviewSize)
    /\ pubEntry \in Entry \cup {NoEntry}
    /\ pubs \in Seq(Mailbox)
    /\ after \in {"poll", "republishPreview", "cmd"}
    /\ timedOut \in BOOLEAN
    /\ newest \in Index("canvas") \cup {NoEntry}

\* create_native_canvas_ring: every fence is created signaled; the canvas's
\* last_rendered_entry starts at 0, the preview's at UINT32_MAX.
Init ==
    /\ state = [e \in Entry |-> "FREE"]
    /\ refcount = [e \in Entry |-> 0]
    /\ fence = [e \in Entry |-> TRUE]
    /\ writeIdx = [r \in Ring |-> 0]
    /\ lastRendered = [r \in Ring |-> IF r = "canvas" THEN 0 ELSE NoEntry]
    /\ gpuQueue = << >>
    /\ hold = [p \in Place |-> NoEntry]
    /\ previewOn = FALSE
    /\ pc = "cmd"
    /\ want = "render"
    /\ pollIdx = 0
    /\ pubEntry = NoEntry
    /\ pubs = << >>
    /\ after = "poll"
    /\ timedOut = FALSE
    /\ newest = NoEntry

-----------------------------------------------------------------------------
Queued(e) == \E k \in 1 .. Len(gpuQueue) : gpuQueue[k] = e

(* Reference counting.                                                     *)

\* native_canvas_lookup_entry: a preview index finds an entry only while the
\* preview ring is initialized.
Lookup(e) == e \in CanvasEntry \/ previewOn

\* native_canvas_unref: the decrement stops at zero.
Unref(e) == IF Lookup(e) /\ refcount[e] > 0 THEN refcount[e] - 1
                                            ELSE refcount[e]

\* Mutant of Released: the reference is not given back.
ReleasedForgotten(p) == refcount

\* The reference counts after place p gave back the reference it owns, if any.
Released(p) == [e \in Entry |-> IF e = hold[p] THEN Unref(e) ELSE refcount[e]]

\* Mutant of Acquirable: the reference count is not looked at.
AcquirableLeased(e) == state[e] \in {"FREE", "READY"} /\ fence[e]

\* native_canvas_acquire, the test of one entry: nobody holds it, it is not
\* being rendered, and its fence is signaled.
Acquirable(e) == /\ refcount[e] = 0
                 /\ state[e] \in {"FREE", "READY"}
                 /\ fence[e]

\* The scan of native_canvas_acquire and native_preview_acquire: the first
\* acquirable entry at or after write_idx, cyclically.
Distance(r, i) == (i - writeIdx[r]) % Size(r)
Acquired(r, i) ==
    /\ Acquirable(<<r, i>>)
    /\ \A j \in Index(r) : Acquirable(<<r, j>>) => Distance(r, i) <= Distance(r, j)

-----------------------------------------------------------------------------
(* The compositor thread: commands.                                        *)

\* Mutant of CaptureTransition: the frame is cached whatever its state.
CaptureUnready ==
    LET last == <<"canvas", lastRendered["canvas"]>>
    IN  /\ pc = "cmd"
        /\ hold' = [hold EXCEPT !["transition"] = last]
        /\ refcount' = [Released("transition") EXCEPT ![last] = @ + 1]
        /\ UNCHANGED <<state, fence, writeIdx, lastRendered, gpuQueue,
                       previewOn, threadVars, historyVars>>

\* SBS_COMP_CMD_SET_SCENE with a new transition: drop the previously cached
\* frame and cache the last rendered one, if it is READY.
\* (capture_transition_cached_entry)
CaptureTransition ==
    LET dropped == Released("transition")
        last == <<"canvas", lastRendered["canvas"]>>
    IN  /\ pc = "cmd"
        /\ IF state[last] = "READY"
           THEN /\ hold' = [hold EXCEPT !["transition"] = last]
                /\ refcount' = [dropped EXCEPT ![last] = @ + 1]
           ELSE /\ hold' = [hold EXCEPT !["transition"] = NoEntry]
                /\ refcount' = dropped
        /\ UNCHANGED <<state, fence, writeIdx, lastRendered, gpuQueue,
                       previewOn, threadVars, historyVars>>

\* The transition is over, or a scene without one was set, or the thread
\* exits.  (release_transition_cached_entry)
ReleaseTransition ==
    /\ pc = "cmd"
    /\ hold["transition"] # NoEntry
    /\ refcount' = Released("transition")
    /\ hold' = [hold EXCEPT !["transition"] = NoEntry]
    /\ UNCHANGED <<state, fence, writeIdx, lastRendered, gpuQueue,
                   previewOn, threadVars, historyVars>>

\* SBS_COMP_CMD_SET_NATIVE_PREVIEW that replaces or disables an existing
\* ring: wait for the GPU, then empty the preview mailbox under its lock.
\* (configure_native_preview, first half of destroy_native_preview_ring)
TeardownPreview ==
    /\ pc = "cmd"
    /\ previewOn
    /\ fence' = [e \in Entry |-> fence[e] \/ Queued(e)]
    /\ gpuQueue' = << >>
    /\ hold' = [hold EXCEPT !["PREVIEW"] = NoEntry]
    /\ refcount' = Released("PREVIEW")
    /\ pc' = "wait"
    /\ UNCHANGED <<state, writeIdx, lastRendered, previewOn, want, pollIdx,
                   pubVars, historyVars>>

PreviewBusy == \E e \in PreviewEntry : refcount[e] > 0

\* wait_native_preview_refs_released returns because no preview entry is
\* leased any more.
WaitPreviewReleased ==
    /\ pc = "wait"
    /\ ~PreviewBusy
    /\ pc' = "destroy"
    /\ UNCHANGED <<ringVars, hold, want, pollIdx, pubVars, historyVars>>

\* wait_native_preview_refs_released gives up after 500 polls.
WaitPreviewTimeout ==
    /\ pc = "wait"
    /\ PreviewBusy
    /\ timedOut' = TRUE
    /\ pc' = "destroy"
    /\ UNCHANGED <<ringVars, hold, want, pollIdx, pubVars, newest>>

\* The rest of destroy_native_preview_ring: every entry is zeroed, whoever
\* still leases it.  A disable returns to the loop, a reconfiguration goes on
\* to create the new ring.
DestroyPreview(reconfigure) ==
    /\ pc = "destroy"
    /\ state' = [e \in Entry |-> IF e \in PreviewEntry THEN "FREE" ELSE state[e]]
    /\ refcount' = [e \in Entry |-> IF e \in PreviewEntry THEN 0 ELSE refcount[e]]
    /\ writeIdx' = [writeIdx EXCEPT !["preview"] = 0]
    /\ lastRendered' = [lastRendered EXCEPT !["preview"] = NoEntry]
    /\ previewOn' = FALSE
    /\ pc' = IF reconfigure THEN "create" ELSE "cmd"
    /\ UNCHANGED <<fence, gpuQueue, hold, want, pollIdx, pubVars,
                   historyVars>>

\* create_native_preview_ring, from a command when there is no ring, or after
\* the old one was destroyed; ok is FALSE when an allocation fails and the
\* half-built ring is destroyed again.
CreatePreview(ok) ==
    /\ pc \in {"cmd", "create"}
    /\ ~previewOn
    /\ state' = [e \in Entry |-> IF e \in PreviewEntry THEN "FREE" ELSE state[e]]
    /\ refcount' = [e \in Entry |-> IF e \in PreviewEntry THEN 0 ELSE refcount[e]]
    /\ fence' = [e \in Entry |-> e \in PreviewEntry \/ fence[e]]
    /\ writeIdx' = [writeIdx EXCEPT !["preview"] = 0]
    /\ lastRendered' = [lastRendered EXCEPT !["preview"] = NoEntry]
    /\ previewOn' = ok
    /\ pc' = "cmd"
    /\ UNCHANGED <<gpuQueue, hold, want, pollIdx, pubVars, historyVars>>

-----------------------------------------------------------------------------
(* The compositor thread: completed renders become READY and are published.*)

\* An iteration repeats the last frame when nothing changed, and renders
\* otherwise; at its end a late loop repeats frames to catch up.  All three
\* begin with the two poll loops.
BeginFrame(w) ==
    /\ pc = "cmd"
    /\ want' = w
    /\ pc' = "poll"
    /\ UNCHANGED <<ringVars, hold, pollIdx, pubVars, historyVars>>

PollEntry == IF pollIdx < CanvasSize THEN <<"canvas", pollIdx>>
                                     ELSE <<"preview", pollIdx - CanvasSize>>

\* One turn of native_canvas_poll_ready or native_preview_poll_ready.  The
\* entries are visited in index order, and the GPU runs on meanwhile.
PollReady ==
    LET e == PollEntry
    IN  /\ pc = "poll"
        /\ pollIdx < CanvasSize + PreviewSize
        /\ Lookup(e)
        /\ pollIdx' = pollIdx + 1
        /\ IF state[e] = "RENDERING" /\ fence[e]
           THEN /\ state' = [state EXCEPT ![e] = "READY"]
                /\ lastRendered' = [lastRendered EXCEPT ![e[1]] = e[2]]
                /\ pubEntry' = e
                /\ pubs' = IF e[1] = "canvas" THEN <<"OUTPUT", "SNAPSHOT">>
                                              ELSE <<"PREVIEW">>
                /\ after' = "poll"
                /\ pc' = "ref"
           ELSE UNCHANGED <<state, lastRendered, pubVars, pc>>
        /\ UNCHANGED <<refcount, fence, writeIdx, gpuQueue, previewOn, hold,
                       want, historyVars>>

\* Mutant of PollDone: the canvas loop ends one entry early.
PollDoneEarly ==
    /\ pc = "poll"
    /\ pollIdx \in {CanvasSize - 1, CanvasSize + PreviewSize}
    /\ pc' = IF want = "render" THEN "render" ELSE "republish"
    /\ pollIdx' = 0
    /\ UNCHANGED <<ringVars, hold, want, pubVars, historyVars>>

\* Both poll loops are done (the second returns at once without a preview).
PollDone ==
    /\ pc = "poll"
    /\ \/ pollIdx = CanvasSize + PreviewSize
       \/ pollIdx = CanvasSize /\ ~previewOn
    /\ pc' = IF want = "render" THEN "render" ELSE "republish"
    /\ pollIdx' = 0
    /\ UNCHANGED <<ringVars, hold, want, pubVars, historyVars>>

\* mailbox_publish returns: the next mailbox of mark_ready or republish_last,
\* or what comes after the last one.
NextMailbox ==
    /\ pubs' = Tail(pubs)
    /\ IF Tail(pubs) = << >>
       THEN pc' = after /\ after' = "poll" /\ pubEntry' = NoEntry
       ELSE pc' = "ref" /\ UNCHANGED <<after, pubEntry>>

\* mailbox_publish begins by taking a reference, of a READY entry only.
PublishRef ==
    /\ pc = "ref"
    /\ IF Lookup(pubEntry) /\ state[pubEntry] = "READY"
       THEN /\ refcount' = [refcount EXCEPT ![pubEntry] = @ + 1]
            /\ hold' = [hold EXCEPT !["publishing"] = pubEntry]
            /\ pc' = "swap"
            /\ UNCHANGED pubVars
       ELSE /\ NextMailbox
            /\ UNCHANGED <<refcount, hold>>
    /\ UNCHANGED <<state, fence, writeIdx, lastRendered, gpuQueue, previewOn,
                   want, pollIdx, historyVars>>

\* Under the mailbox lock: the mailbox's capacity is one frame, so a frame
\* nobody took is evicted.
PublishSwap ==
    LET m == Head(pubs)
    IN  /\ pc = "swap"
        /\ hold' = [hold EXCEPT ![m] = hold["publishing"],
                                !["dropped"] = hold[m],
                                !["publishing"] = NoEntry]
        /\ IF hold[m] = NoEntry
           THEN NextMailbox
           ELSE /\ pc' = "unref"
                /\ UNCHANGED pubVars
        /\ UNCHANGED <<ringVars, want, pollIdx, historyVars>>

\* The evicted frame's reference is given back after the unlock.
PublishUnref ==
    /\ pc = "unref"
    /\ refcount' = Released("dropped")
    /\ hold' = [hold EXCEPT !["dropped"] = NoEntry]
    /\ NextMailbox
    /\ UNCHANGED <<state, fence, writeIdx, lastRendered, gpuQueue, previewOn,
                   want, pollIdx, historyVars>>

-----------------------------------------------------------------------------
(* The compositor thread: repeating the last frame (republish_last).       *)

Last(r) == <<r, lastRendered[r]>>
Republishable(r) == /\ lastRendered[r] # NoEntry
                    /\ state[Last(r)] = "READY"
                    /\ fence[Last(r)]

Republish ==
    /\ pc = "republish"
    /\ Republishable("canvas")
    /\ pubEntry' = Last("canvas")
    /\ pubs' = <<"OUTPUT", "SNAPSHOT">>
    /\ after' = "republishPreview"
    /\ pc' = "ref"
    /\ want' = "render"
    /\ UNCHANGED <<ringVars, hold, pollIdx, historyVars>>

\* There is no finished frame to repeat: an iteration renders one instead
\* (polling again first), a late repeat is given up.
RepublishFail ==
    /\ pc = "republish"
    /\ ~Republishable("canvas")
    /\ want' = "render"
    /\ pc' = IF want = "repeat" THEN "poll" ELSE "cmd"
    /\ UNCHANGED <<ringVars, hold, pollIdx, pubVars, historyVars>>

RepublishPreview ==
    /\ pc = "republishPreview"
    /\ previewOn
    /\ Republishable("preview")
    /\ pubEntry' = Last("preview")
    /\ pubs' = <<"PREVIEW">>
    /\ after' = "cmd"
    /\ pc' = "ref"
    /\ UNCHANGED <<ringVars, hold, want, pollIdx, historyVars>>

-----------------------------------------------------------------------------
(* The compositor thread: rendering (render_native_frame).                 *)

\* Mutant of Submit: native_canvas_mark_rendering is forgotten.
SubmitUnmarked(e) ==
    /\ UNCHANGED state
    /\ refcount' = [refcount EXCEPT ![e] = 0]
    /\ fence' = [fence EXCEPT ![e] = FALSE]
    /\ writeIdx' = [writeIdx EXCEPT ![e[1]] = (e[2] + 1) % Size(e[1])]
    /\ gpuQueue' = Append(gpuQueue, e)

\* The fence of entry e is reset and its commands go to the graphics queue.
Submit(e) ==
    /\ state' = [state EXCEPT ![e] = "RENDERING"]
    /\ refcount' = [refcount EXCEPT ![e] = 0]
    /\ fence' = [fence EXCEPT ![e] = FALSE]
    /\ writeIdx' = [writeIdx EXCEPT ![e[1]] = (e[2] + 1) % Size(e[1])]
    /\ gpuQueue' = Append(gpuQueue, e)

\* Recording or submitting fails and the entry is FREE again; when it fails
\* after vkResetFences nothing will ever signal the fence.
\* (native_canvas_release_failed, the error returns of submit_native_preview)
FailedSubmit(e, reset) ==
    /\ state' = [state EXCEPT ![e] = "FREE"]
    /\ refcount' = [refcount EXCEPT ![e] = 0]
    /\ fence' = [fence EXCEPT ![e] = ~reset]
    /\ writeIdx' = [writeIdx EXCEPT ![e[1]] = (e[2] + 1) % Size(e[1])]
    /\ UNCHANGED gpuQueue

RenderSubmit(i) ==
    /\ pc = "render"
    /\ Acquired("canvas", i)
    /\ Submit(<<"canvas", i>>)
    /\ newest' = IF \E e \in CanvasEntry : state[e] = "RENDERING"
                 THEN NoEntry ELSE i
    /\ pc' = "preview"
    /\ UNCHANGED <<lastRendered, previewOn, hold, want, pollIdx, pubVars,
                   timedOut>>

RenderFail(i, reset) ==
    /\ pc = "render"
    /\ Acquired("canvas", i)
    /\ FailedSubmit(<<"canvas", i>>, reset)
    /\ pc' = "cmd"
    /\ UNCHANGED <<lastRendered, previewOn, hold, want, pollIdx, pubVars,
                   historyVars>>

\* Every entry is leased, in flight or unusable: the frame is dropped.
RenderNoEntry ==
    /\ pc = "render"
    /\ ~ \E e \in CanvasEntry : Acquirable(e)
    /\ pc' = "cmd"
    /\ UNCHANGED <<ringVars, hold, want, pollIdx, pubVars, historyVars>>

\* The preview is drawn after a canvas render, and by republish_last while
\* the preview ring has no finished frame.
PreviewWanted ==
    \/ pc = "preview"
    \/ pc = "republishPreview" /\ lastRendered["preview"] = NoEntry

PreviewSubmit(i) ==
    /\ PreviewWanted
    /\ previewOn
    /\ Acquired("preview", i)
    /\ Submit(<<"preview", i>>)
    /\ pc' = "cmd"
    /\ UNCHANGED <<lastRendered, previewOn, hold, want, pollIdx, pubVars,
                   historyVars>>

PreviewFail(i, reset) ==
    /\ PreviewWanted
    /\ previewOn
    /\ Acquired("preview", i)
    /\ FailedSubmit(<<"preview", i>>, reset)
    /\ pc' = "cmd"
    /\ UNCHANGED <<lastRendered, previewOn, hold, want, pollIdx, pubVars,
                   historyVars>>

\* No preview ring, a frame the preview's frame interval skips, no usable
\* pipeline or no acquirable entry; or nothing to republish.
PreviewSkip ==
    /\ PreviewWanted \/ (pc = "republishPreview" /\
                            ~(previewOn /\ Republishable("preview")))
    /\ pc' = "cmd"
    /\ UNCHANGED <<ringVars, hold, want, pollIdx, pubVars, historyVars>>

-----------------------------------------------------------------------------
(* The GPU and the consumer threads.                                       *)

\* One graphics queue: submissions complete in order.
GpuComplete ==
    /\ gpuQueue # << >>
    /\ fence' = [fence EXCEPT ![Head(gpuQueue)] = TRUE]
    /\ gpuQueue' = Tail(gpuQueue)
    /\ UNCHANGED <<state, refcount, writeIdx, lastRendered, previewOn, hold,
                   threadVars, historyVars>>

\* mailbox_acquire moves the queued frame's reference into a free lease
\* variable of a consumer; an index that no longer resolves is dropped.  (How
\* consumers pass a lease on among themselves is OutputRouter's subject; here
\* it stays where it was acquired.)
MailboxAcquire(m, h) ==
    /\ hold[m] # NoEntry
    /\ hold[h] = NoEntry
    /\ hold' = [hold EXCEPT ![m] = NoEntry,
                            ![h] = IF Lookup(hold[m]) THEN hold[m] ELSE NoEntry]
    /\ UNCHANGED <<ringVars, threadVars, historyVars>>

\* mailbox_release
MailboxRelease(h) ==
    /\ hold[h] # NoEntry
    /\ refcount' = Released(h)
    /\ hold' = [hold EXCEPT ![h] = NoEntry]
    /\ UNCHANGED <<state, fence, writeIdx, lastRendered, gpuQueue, previewOn,
                   threadVars, historyVars>>

-----------------------------------------------------------------------------
Command ==
    \/ CaptureTransition
    \/ ReleaseTransition
    \/ TeardownPreview

Frame == \E w \in {"repeat", "late", "render"} : BeginFrame(w)

Loop ==
    \/ Frame
    \/ WaitPreviewReleased
    \/ WaitPreviewTimeout
    \/ \E reconfigure \in BOOLEAN : DestroyPreview(reconfigure)
    \/ \E ok \in BOOLEAN : CreatePreview(ok)
    \/ PollReady
    \/ PollDone
    \/ PublishRef
    \/ PublishSwap
    \/ PublishUnref
    \/ Republish
    \/ RepublishFail
    \/ RepublishPreview
    \/ \E i \in Index("canvas") : RenderSubmit(i)
    \/ \E i \in Index("canvas"), reset \in BOOLEAN : RenderFail(i, reset)
    \/ RenderNoEntry
    \/ \E i \in Index("preview") : PreviewSubmit(i)
    \/ \E i \in Index("preview"), reset \in BOOLEAN : PreviewFail(i, reset)
    \/ PreviewSkip

Consumer ==
    \/ \E m \in Mailbox, h \in Holder : MailboxAcquire(m, h)
    \/ \E h \in Holder : MailboxRelease(h)

Next == Command \/ Loop \/ GpuComplete \/ Consumer

\* The compositor thread keeps running and reaches its frame again and again
\* (the command queue is bounded and drained before every frame), and the
\* GPU finishes what was submitted.
Fairness ==
    /\ WF_vars(Loop)
    /\ SF_vars(Frame)
    /\ WF_vars(GpuComplete)

Spec == Init /\ [][Next]_vars /\ Fairness

-----------------------------------------------------------------------------
(* Properties.                                                             *)

Held(e) == \E p \in Place : hold[p] = e

\* A preview lease that outlived a teardown (wait_native_preview_refs_released
\* gave up) may alias an entry of the next ring; nothing is promised then.
Guarded(e) == e \in CanvasEntry \/ ~timedOut

\* No reference is lost and none is given back twice, whatever the order of
\* publishes, evictions, acquires and releases of all the threads: the
\* reference count of an entry is the number of places that own one.
RefcountExact ==
    \A e \in Entry : Guarded(e) =>
        refcount[e] = Cardinality({p \in Place : hold[p] = e})

\* The image behind a lease is finished and stays so: its entry is READY, its
\* fence is signaled and it is not in the GPU's queue.  native_canvas_acquire
\* never recycles an entry a consumer, a mailbox or a transition still uses.
HeldIsStable ==
    \A e \in Entry : Guarded(e) /\ Held(e) =>
        /\ state[e] = "READY"
        /\ fence[e]
        /\ ~Queued(e)

\* Between frames, with no canvas render in flight, last_rendered_entry (what
\* republish_last repeats and a transition captures) is the frame submitted
\* last, provided it was the only one in flight: poll_ready visits the ring in
\* index order, so of two renders in flight the older may be marked last.
RepeatsNewest ==
    (/\ pc = "cmd"
     /\ newest # NoEntry
     /\ \A e \in CanvasEntry : state[e] # "RENDERING") =>
        lastRendered["canvas"] = newest

\* A submitted canvas render is eventually picked up by poll_ready, which
\* marks it READY.
RendersComplete ==
    \A e \in CanvasEntry : state[e] = "RENDERING" ~> state[e] = "READY"

\* Seen from its consumers, the canvas ring is a lease pool.
CanvasPool == INSTANCE LeasePool WITH
    Entry <- CanvasEntry,
    hold <- [p \in Place |-> IF hold[p] \in CanvasEntry THEN hold[p]
                                                        ELSE NoEntry],
    writing <- {e \in CanvasEntry : state[e] = "RENDERING"}

\* Every step of every thread is a lease-pool step or invisible to leases.
ImplementsLeasePool == CanvasPool!Spec

=============================================================================
