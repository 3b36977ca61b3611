---------------------------- MODULE OutputRouter ----------------------------
(***************************************************************************)
(* The output router on the native canvas path: how leases of finished     *)
(* frames travel from the compositor's mailboxes to the encoder, the       *)
(* preview and the snapshot, and how the router is torn down.              *)
(*                                                                         *)
(* Actors: the export thread (process_frame), the encoder hand-off thread, *)
(* the preview hand-off thread, the main thread (setters and               *)
(* sbs_output_router_free) and the compositor, which fills the mailboxes.  *)
(*                                                                         *)
(* A lease is a frame of a mailbox; its content number says which frames   *)
(* show the same picture.  The router must give back every lease it takes, *)
(* once: `out` is what the compositor counts as leased to the router.      *)
(***************************************************************************)
EXTENDS Integers, Sequences, FiniteSets, Functions

CONSTANTS
    QueueCapacity,    \* SBS_NATIVE_ENCODER_QUEUE_CAPACITY
    RetainCapacity,   \* SBS_NATIVE_ENCODER_RETAIN_CAPACITY
    RetainCount,      \* SBS_NATIVE_ENCODER_BFRAME_RETAIN_COUNT
    EncodeDuplicates, \* SBS_NATIVE_ENCODER_ENCODE_DUPLICATES is not "0"
    MaxOutput,        \* bounds: frames published to each mailbox
    MaxSnapshot,
    MaxPreview,
    MaxContent,       \* bound: different contents published
    NoLease           \* a cleared lease, backing_fd = -1

ASSUME CapacityAssumption ==
    /\ QueueCapacity \in Nat \ {0}
    /\ RetainCount \in Nat \ {0}
    /\ RetainCapacity \in Nat
    /\ RetainCapacity > RetainCount
ASSUME BoundAssumption == 
    {MaxOutput, MaxSnapshot, MaxPreview, MaxContent} \subseteq Nat
ASSUME FlagAssumption == EncodeDuplicates \in BOOLEAN

Mailbox == {"OUTPUT", "SNAPSHOT", "PREVIEW"}
Bound(m) == CASE m = "OUTPUT" -> MaxOutput
              [] m = "SNAPSHOT" -> MaxSnapshot
              [] m = "PREVIEW" -> MaxPreview
Lease == [box : Mailbox, frame : Nat \ {0}, content : Nat \ {0}]

ASSUME NoLeaseAssumption == NoLease \notin Lease

VARIABLES
    box,        \* per mailbox: the lease it offers
    published,  \* per mailbox: the number of the last frame published
    content,    \* the content number of the compositor's last frame
    cell,       \* the lease variables: per variable its lease
    queue,      \* encoder_queue_leases, oldest first
    retained,   \* encoder_retained_leases, oldest first
    draining,   \* the local array pending[] of sbs_output_router_free
    encoderMgr, \* encoder_mgr is set
    preview,    \* the preview engine is set
    gate,       \* encoder_last_content_frame, 0 when reset
    need,       \* the consumers the current frame is still to be given to
    exportOn,   \* export_running
    encoderOn,  \* encoder_thread_running
    previewOn,  \* preview_thread_running
    xpc,        \* the export thread
    epc,        \* the encoder thread
    ppc,        \* the preview thread
    mpc,        \* the main thread, in sbs_output_router_free
    out,        \* history: the leases acquired and not given back
    queued      \* history: the content queued last, 0 when none

boxVars == <<box, published, content>>
leaseVars == <<cell, queue, retained, draining>>
configVars == <<encoderMgr, preview>>
runVars == <<exportOn, encoderOn, previewOn>>
historyVars == <<out, queued>>
vars == <<boxVars, leaseVars, configVars, gate, need, runVars, xpc, epc, ppc,
          mpc, historyVars>>

\* export: the lease local to process_frame; dropped: the lease evicted by one
\* of its two enqueue calls; encoder and preview: the hand-off threads' leases;
\* waiting: preview_pending_lease; closing: pending of sbs_output_router_free.
Cell == {"export", "dropped", "encoder", "preview", "waiting", "closing"}

Consumers == {"outputs", "encoder", "snapshot", "preview"}

TypeOK ==
    /\ box \in [Mailbox -> Lease \cup {NoLease}]
    /\ published \in [Mailbox -> Nat]
    /\ content \in Nat
    /\ cell \in [Cell -> Lease \cup {NoLease}]
    /\ queue \in Seq(Lease)
    /\ retained \in Seq(Lease)
    /\ draining \in Seq(Lease)
    /\ encoderMgr \in BOOLEAN /\ preview \in BOOLEAN
    /\ gate \in Nat
    /\ need \in SUBSET Consumers
    /\ exportOn \in BOOLEAN /\ encoderOn \in BOOLEAN /\ previewOn \in BOOLEAN
    /\ xpc \in {"idle", "output", "gate", "enqueue", "dropped", "note",
                "release", "snapshot", "snapshotRelease", "preview",
                "previewEnqueue", "previewDropped", "previewRelease", "exited"}
    /\ epc \in {"loop", "waiting", "discard", "consume", "retain", "trim",
                "flush", "exiting", "exited"}
    /\ ppc \in {"loop", "waiting", "consume", "exited"}
    /\ mpc \in {"run", "joinExport", "stopPreview", "releasePending",
                "joinPreview", "stopEncoder", "releaseDraining",
                "joinEncoder", "freed"}
    /\ out \subseteq Lease
    /\ queued \in Nat

\* sbs_output_router_new: the threads run, the engines are attached later.
Init ==
    /\ box = [m \in Mailbox |-> NoLease]
    /\ published = [m \in Mailbox |-> 0]
    /\ content = 1
    /\ cell = [c \in Cell |-> NoLease]
    /\ queue = << >> /\ retained = << >> /\ draining = << >>
    /\ encoderMgr = FALSE /\ preview = FALSE
    /\ gate = 0
    /\ need = {}
    /\ exportOn = TRUE /\ encoderOn = TRUE /\ previewOn = TRUE
    /\ xpc = "idle" /\ epc = "loop" /\ ppc = "loop" /\ mpc = "run"
    /\ out = {}
    /\ queued = 0

-----------------------------------------------------------------------------
(* The compositor publishes a frame: of new content or a repeat, in a      *)
(* mailbox that holds one frame, the newest.  (Only the contents of OUTPUT *)
(* frames are looked at: the others count as repeats.)                     *)
Publish(m, repeat) ==
    LET n == published[m] + 1
        c == IF repeat THEN content ELSE content + 1
    IN  /\ n <= Bound(m) /\ c <= MaxContent
        /\ m # "OUTPUT" => repeat
        /\ content' = c
        /\ published' = [published EXCEPT ![m] = n]
        /\ box' = [box EXCEPT ![m] = [box |-> m, frame |-> n,
                          content |-> IF m = "OUTPUT" THEN c ELSE 1]]
        /\ UNCHANGED <<leaseVars, configVars, gate, need, runVars, xpc, epc,
                       ppc, mpc, historyVars>>

-----------------------------------------------------------------------------
(* Leases.                                                                 *)

\* native_encoder_release_lease: nothing for a cleared lease, else the lease
\* goes back to the compositor.
GiveBack(l) == out' = out \ {l}

\* sbs_compositor_thread_native_mailbox_acquire into the export thread's lease.
TakeLease(m) ==
    /\ cell' = [cell EXCEPT !["export"] = box[m]]
    /\ box' = [box EXCEPT ![m] = NoLease]
    /\ out' = out \cup {box[m]}
    /\ UNCHANGED <<published, content, queue, retained, draining>>

\* pthread_cond_signal: the thread waiting for it, if any, looks again.
Signaled(threadPc) == IF threadPc = "waiting" THEN "loop" ELSE threadPc

-----------------------------------------------------------------------------
(* The export thread: export_thread_process_frame.                         *)

\* The three parts of a frame, each entered if one of its consumers needs it.
GoOn(n) ==
    /\ need' = n
    /\ xpc' = IF {"outputs", "encoder"} \cap n # {} THEN "output"
              ELSE IF "snapshot" \in n THEN "snapshot"
              ELSE IF "preview" \in n THEN "preview" ELSE "idle"
OutputDone == GoOn(need \ {"outputs", "encoder"})
SnapshotDone == GoOn(need \ {"snapshot"})
PreviewDone == GoOn(need \ {"preview"})

\* A compositor event: which consumers want the frame is read once, at the
\* start.  Without an encoder sink the content gate is reset.
BeginFrame(n) ==
    /\ xpc = "idle"
    /\ "encoder" \in n => encoderMgr
    /\ "preview" \in n => preview
    /\ gate' = IF "encoder" \in n THEN gate ELSE 0
    /\ GoOn(n)
    /\ UNCHANGED <<boxVars, leaseVars, configVars, runVars, epc, ppc, mpc,
                   historyVars>>

AcquireOutput ==
    /\ xpc = "output"
    /\ box["OUTPUT"] # NoLease
    /\ TakeLease("OUTPUT")
    /\ xpc' = IF "encoder" \in need THEN "gate" ELSE "release"
    /\ UNCHANGED <<configVars, gate, need, runVars, epc, ppc, mpc,
                   queued>>

\* One of the three mailboxes is empty: its part of the frame is skipped.
AcquireNothing ==
    /\ \/ /\ xpc = "output" /\ box["OUTPUT"] = NoLease
          /\ OutputDone
       \/ /\ xpc = "snapshot" /\ box["SNAPSHOT"] = NoLease
          /\ SnapshotDone
       \/ /\ xpc = "preview" /\ box["PREVIEW"] = NoLease
          /\ PreviewDone
    /\ UNCHANGED <<boxVars, leaseVars, configVars, gate, runVars, epc,
                   ppc, mpc, historyVars>>

\* native_encoder_content_already_queued, unless duplicates are encoded too.
CheckGate ==
    /\ xpc = "gate"
    /\ xpc' = IF ~EncodeDuplicates /\ gate = cell["export"].content
              THEN "release" ELSE "enqueue"
    /\ UNCHANGED <<boxVars, leaseVars, configVars, gate, need, runVars, epc,
                   ppc, mpc, historyVars>>

\* A full queue loses its oldest lease.
QueueFull == Len(queue) >= QueueCapacity

\* Mutant of Evicted: the oldest lease is overwritten and forgotten.
EvictedNever == NoLease
Evicted == IF QueueFull THEN Head(queue) ELSE NoLease

\* Mutant of QueueWith: the newest lease is queued first.
QueueWithFirst(l) == <<l>> \o (IF QueueFull THEN Tail(queue) ELSE queue)
QueueWith(l) == Append(IF QueueFull THEN Tail(queue) ELSE queue, l)

\* native_encoder_enqueue_lease, its critical section.
EnqueueLease ==
    /\ xpc = "enqueue"
    /\ IF encoderMgr /\ encoderOn
       THEN /\ cell' = [cell EXCEPT !["dropped"] = Evicted,
                                    !["export"] = NoLease]
            /\ queue' = QueueWith(cell["export"])
            /\ queued' = cell["export"].content
            /\ epc' = Signaled(epc)
            /\ xpc' = "dropped"
       ELSE /\ xpc' = "release"
            /\ UNCHANGED <<cell, queue, queued, epc>>
    /\ UNCHANGED <<boxVars, retained, draining, configVars, gate, need,
                   runVars, ppc, mpc, out>>

\* ... and after its unlock: the evicted lease goes back.
ReleaseDropped ==
    /\ xpc \in {"dropped", "previewDropped"}
    /\ GiveBack(cell["dropped"])
    /\ cell' = [cell EXCEPT !["dropped"] = NoLease]
    /\ \/ xpc = "dropped" /\ xpc' = "note" /\ UNCHANGED need
       \/ xpc = "previewDropped" /\ PreviewDone
    /\ UNCHANGED <<boxVars, queue, retained, draining, configVars, gate,
                   runVars, epc, ppc, mpc, queued>>

\* Mutant of NoteQueued: the newest content is noted, not the queued one.
NoteNewest ==
    /\ xpc = "note"
    /\ gate' = content
    /\ OutputDone
    /\ UNCHANGED <<boxVars, leaseVars, configVars, runVars, epc, ppc, mpc,
                   historyVars>>

\* native_encoder_note_content_queued, a critical section of its own.
NoteQueued ==
    /\ xpc = "note"
    /\ gate' = queued
    /\ OutputDone
    /\ UNCHANGED <<boxVars, leaseVars, configVars, runVars, epc, ppc,
                   mpc, historyVars>>

\* The lease was not handed over (or only lent to the output workers and the
\* snapshot while this thread had it): it goes back.
ReleaseExport ==
    /\ xpc \in {"release", "snapshotRelease", "previewRelease"}
    /\ GiveBack(cell["export"])
    /\ cell' = [cell EXCEPT !["export"] = NoLease]
    /\ \/ xpc = "release" /\ OutputDone
       \/ xpc = "snapshotRelease" /\ SnapshotDone
       \/ xpc = "previewRelease" /\ PreviewDone
    /\ UNCHANGED <<boxVars, queue, retained, draining, configVars, gate,
                   runVars, epc, ppc, mpc, queued>>

AcquireSnapshot ==
    /\ xpc = "snapshot"
    /\ box["SNAPSHOT"] # NoLease
    /\ TakeLease("SNAPSHOT")
    /\ xpc' = "snapshotRelease"
    /\ UNCHANGED <<configVars, gate, need, runVars, epc, ppc, mpc,
                   queued>>

AcquirePreview ==
    /\ xpc = "preview"
    /\ box["PREVIEW"] # NoLease
    /\ TakeLease("PREVIEW")
    /\ xpc' = "previewEnqueue"
    /\ UNCHANGED <<configVars, gate, need, runVars, epc, ppc, mpc,
                   queued>>

\* native_preview_enqueue_lease: the pending lease is replaced by the newer.
EnqueuePreview ==
    /\ xpc = "previewEnqueue"
    /\ IF preview /\ previewOn
       THEN /\ cell' = [cell EXCEPT !["dropped"] = cell["waiting"],
                                    !["waiting"] = cell["export"],
                                    !["export"] = NoLease]
            /\ ppc' = Signaled(ppc)
            /\ xpc' = "previewDropped"
       ELSE /\ xpc' = "previewRelease"
            /\ UNCHANGED <<cell, ppc>>
    /\ UNCHANGED <<boxVars, queue, retained, draining, configVars, gate, need,
                   runVars, epc, mpc, historyVars>>

\* export_running is tested between frames.
ExportExit ==
    /\ xpc = "idle"
    /\ ~exportOn
    /\ xpc' = "exited"
    /\ UNCHANGED <<boxVars, leaseVars, configVars, gate, need, runVars, epc,
                   ppc, mpc, historyVars>>

-----------------------------------------------------------------------------
(* The encoder thread: native_encoder_thread_func.                         *)

EncoderWait ==
    /\ epc = "loop"
    /\ encoderOn /\ queue = << >>
    /\ epc' = "waiting"
    /\ UNCHANGED <<boxVars, leaseVars, configVars, gate, need, runVars, xpc,
                   ppc, mpc, historyVars>>

\* Mutant of EncoderStop: the retained leases are not given back.
EncoderStopAtOnce ==
    /\ epc = "loop"
    /\ ~encoderOn /\ queue = << >>
    /\ epc' = "exited"
    /\ UNCHANGED <<boxVars, leaseVars, configVars, gate, need, runVars, xpc,
                   ppc, mpc, historyVars>>

\* The thread leaves its loop once it was told to stop and the queue is empty.
EncoderStop ==
    /\ epc = "loop"
    /\ ~encoderOn /\ queue = << >>
    /\ epc' = "exiting"
    /\ UNCHANGED <<boxVars, leaseVars, configVars, gate, need, runVars, xpc,
                   ppc, mpc, historyVars>>

EncoderTake ==
    /\ epc = "loop"
    /\ queue # << >>
    /\ cell' = [cell EXCEPT !["encoder"] = Head(queue)]
    /\ queue' = Tail(queue)
    /\ epc' = IF encoderMgr THEN "consume" ELSE "discard"
    /\ UNCHANGED <<boxVars, retained, draining, configVars, gate, need,
                   runVars, xpc, ppc, mpc, historyVars>>

\* There was no encoder manager when the lease was dequeued.
EncoderDiscard ==
    /\ epc = "discard"
    /\ GiveBack(cell["encoder"])
    /\ cell' = [cell EXCEPT !["encoder"] = NoLease]
    /\ epc' = "loop"
    /\ UNCHANGED <<boxVars, queue, retained, draining, configVars, gate, need,
                   runVars, xpc, ppc, mpc, queued>>

\* The lease's descriptor is duplicated and encoded.  With B-frames the
\* encoder reads it again later, so the lease is retained; otherwise, or when
\* the dup fails, the retained ones are given back and the lease too.
EncoderConsume(dupOk, bframes) ==
    /\ epc = "consume"
    /\ epc' = IF dupOk /\ bframes THEN "retain" ELSE "flush"
    /\ UNCHANGED <<boxVars, leaseVars, configVars, gate, need, runVars, xpc,
                   ppc, mpc, out, queued>>

\* native_encoder_retain_lease; a full array gives back its oldest lease.
EncoderRetain ==
    LET full == Len(retained) >= RetainCapacity
    IN  /\ epc = "retain"
        /\ retained' = Append(IF full THEN Tail(retained) ELSE retained,
                              cell["encoder"])
        /\ GiveBack(IF full THEN Head(retained) ELSE NoLease)
        /\ cell' = [cell EXCEPT !["encoder"] = NoLease]
        /\ epc' = "trim"
        /\ UNCHANGED <<boxVars, queue, draining, configVars, gate, need,
                       runVars, xpc, ppc, mpc, queued>>

\* Mutant of Surplus: one lease too many is kept.
SurplusLate == Len(retained) > RetainCount + 1
Surplus == Len(retained) > RetainCount

\* One turn of its second loop: at most RetainCount leases stay.
EncoderTrim ==
    /\ epc = "trim"
    /\ IF Surplus
       THEN /\ GiveBack(Head(retained))
            /\ retained' = Tail(retained)
            /\ UNCHANGED epc
       ELSE /\ epc' = "loop"
            /\ UNCHANGED <<out, retained>>
    /\ UNCHANGED <<boxVars, cell, queue, draining, configVars, gate, need,
                   runVars, xpc, ppc, mpc, queued>>

\* One turn of native_encoder_release_retained_leases, after a frame without
\* B-frames and at the thread's exit, and what follows it.
EncoderFlush ==
    /\ epc \in {"flush", "exiting"}
    /\ IF retained # << >>
       THEN /\ GiveBack(Head(retained))
            /\ retained' = Tail(retained)
            /\ UNCHANGED <<cell, epc>>
       ELSE /\ GiveBack(cell["encoder"])
            /\ cell' = [cell EXCEPT !["encoder"] = NoLease]
            /\ epc' = IF epc = "flush" THEN "loop" ELSE "exited"
            /\ UNCHANGED retained
    /\ UNCHANGED <<boxVars, queue, draining, configVars, gate, need, runVars,
                   xpc, ppc, mpc, queued>>

-----------------------------------------------------------------------------
(* The preview thread: native_preview_thread_func.                         *)

PreviewWait ==
    /\ ppc = "loop"
    /\ previewOn /\ cell["waiting"] = NoLease
    /\ ppc' = "waiting"
    /\ UNCHANGED <<boxVars, leaseVars, configVars, gate, need, runVars, xpc,
                   epc, mpc, historyVars>>

PreviewStop ==
    /\ ppc = "loop"
    /\ ~previewOn /\ cell["waiting"] = NoLease
    /\ ppc' = "exited"
    /\ UNCHANGED <<boxVars, leaseVars, configVars, gate, need, runVars, xpc,
                   epc, mpc, historyVars>>

PreviewTake ==
    /\ ppc = "loop"
    /\ cell["waiting"] # NoLease
    /\ cell' = [cell EXCEPT !["preview"] = cell["waiting"],
                            !["waiting"] = NoLease]
    /\ ppc' = "consume"
    /\ UNCHANGED <<boxVars, queue, retained, draining, configVars, gate, need,
                   runVars, xpc, epc, mpc, historyVars>>

\* Whether the engine is gone, the dup fails or the frame is encoded.
PreviewConsume ==
    /\ ppc = "consume"
    /\ GiveBack(cell["preview"])
    /\ cell' = [cell EXCEPT !["preview"] = NoLease]
    /\ ppc' = "loop"
    /\ UNCHANGED <<boxVars, queue, retained, draining, configVars, gate, need,
                   runVars, xpc, epc, mpc, queued>>

-----------------------------------------------------------------------------
(* The main thread: the setters.                                           *)

\* sbs_output_router_set_encoder_manager
SetEncoderManager(on) ==
    /\ mpc = "run"
    /\ encoderMgr' = on
    /\ gate' = 0
    /\ UNCHANGED <<boxVars, leaseVars, preview, need, runVars, xpc, epc, ppc,
                   mpc, historyVars>>

\* sbs_output_router_set_preview_engine
SetPreviewEngine(on) ==
    /\ mpc = "run"
    /\ preview' = on
    /\ UNCHANGED <<boxVars, leaseVars, encoderMgr, gate, need, runVars, xpc,
                   epc, ppc, mpc,
                   historyVars>>

\* sbs_output_router_set_color_mode, to another mode
SetColorMode ==
    /\ mpc = "run"
    /\ gate' = 0
    /\ UNCHANGED <<boxVars, leaseVars, configVars, need, runVars, xpc, epc,
                   ppc, mpc, historyVars>>

-----------------------------------------------------------------------------
(* The main thread: sbs_output_router_free.                                *)

StopExport ==
    /\ mpc = "run"
    /\ exportOn' = FALSE
    /\ mpc' = "joinExport"
    /\ UNCHANGED <<boxVars, leaseVars, configVars, gate, need, encoderOn,
                   previewOn, xpc, epc, ppc, historyVars>>

JoinExport ==
    /\ mpc = "joinExport"
    /\ xpc = "exited"
    /\ mpc' = "stopPreview"
    /\ UNCHANGED <<boxVars, leaseVars, configVars, gate, need, runVars, xpc,
                   epc, ppc, historyVars>>

\* Under the preview lock: stop, take what is pending, wake the thread.
StopPreview ==
    /\ mpc = "stopPreview"
    /\ previewOn' = FALSE
    /\ cell' = [cell EXCEPT !["closing"] = cell["waiting"],
                            !["waiting"] = NoLease]
    /\ ppc' = Signaled(ppc)
    /\ mpc' = "releasePending"
    /\ UNCHANGED <<boxVars, queue, retained, draining, configVars, gate, need,
                   exportOn, encoderOn, xpc, epc, historyVars>>

ReleasePending ==
    /\ mpc = "releasePending"
    /\ GiveBack(cell["closing"])
    /\ cell' = [cell EXCEPT !["closing"] = NoLease]
    /\ mpc' = "joinPreview"
    /\ UNCHANGED <<boxVars, queue, retained, draining, configVars, gate, need,
                   runVars, xpc, epc, ppc, queued>>

JoinPreview ==
    /\ mpc = "joinPreview"
    /\ ppc = "exited"
    /\ mpc' = "stopEncoder"
    /\ UNCHANGED <<boxVars, leaseVars, configVars, gate, need, runVars, xpc,
                   epc, ppc, historyVars>>

\* Mutant of StopEncoder: the thread is not woken.
StopEncoderSilent ==
    /\ mpc = "stopEncoder"
    /\ encoderOn' = FALSE
    /\ draining' = SubSeq(queue, 1, IF Len(queue) < QueueCapacity
                                    THEN Len(queue) ELSE QueueCapacity)
    /\ queue' = SubSeq(queue, QueueCapacity + 1, Len(queue))
    /\ mpc' = "releaseDraining"
    /\ UNCHANGED <<boxVars, cell, retained, configVars, gate, need, exportOn,
                   previewOn, xpc, epc, ppc, historyVars>>

\* Under the encoder lock: stop, take what is queued, wake the thread.  The
\* local array holds QueueCapacity leases.
StopEncoder ==
    /\ mpc = "stopEncoder"
    /\ encoderOn' = FALSE
    /\ draining' = SubSeq(queue, 1, IF Len(queue) < QueueCapacity
                                    THEN Len(queue) ELSE QueueCapacity)
    /\ queue' = SubSeq(queue, QueueCapacity + 1, Len(queue))
    /\ epc' = Signaled(epc)
    /\ mpc' = "releaseDraining"
    /\ UNCHANGED <<boxVars, cell, retained, configVars, gate, need, exportOn,
                   previewOn, xpc, ppc, historyVars>>

\* One turn of the loop that gives them back.
ReleaseDraining ==
    /\ mpc = "releaseDraining"
    /\ IF draining # << >>
       THEN /\ GiveBack(Head(draining))
            /\ draining' = Tail(draining)
            /\ UNCHANGED mpc
       ELSE /\ mpc' = "joinEncoder"
            /\ UNCHANGED <<out, draining>>
    /\ UNCHANGED <<boxVars, cell, queue, retained, configVars, gate, need,
                   runVars, xpc, epc, ppc, queued>>

JoinEncoder ==
    /\ mpc = "joinEncoder"
    /\ epc = "exited"
    /\ mpc' = "freed"
    /\ UNCHANGED <<boxVars, leaseVars, configVars, gate, need, runVars, xpc,
                   epc, ppc, historyVars>>

-----------------------------------------------------------------------------
Compositor == \E m \in Mailbox, repeat \in BOOLEAN : Publish(m, repeat)

ExportFrame ==
    \/ AcquireOutput \/ AcquireNothing \/ CheckGate \/ EnqueueLease
    \/ ReleaseDropped \/ NoteQueued \/ ReleaseExport \/ AcquireSnapshot
    \/ AcquirePreview \/ EnqueuePreview

EncoderThread ==
    \/ EncoderWait \/ EncoderStop \/ EncoderTake \/ EncoderDiscard
    \/ \E dupOk, bframes \in BOOLEAN : EncoderConsume(dupOk, bframes)
    \/ EncoderRetain \/ EncoderTrim \/ EncoderFlush

PreviewThread == PreviewWait \/ PreviewStop \/ PreviewTake \/ PreviewConsume

Setters ==
    \/ \E on \in BOOLEAN : SetEncoderManager(on) \/ SetPreviewEngine(on)
    \/ SetColorMode

Free ==
    \/ JoinExport \/ StopPreview \/ ReleasePending \/ JoinPreview
    \/ StopEncoder \/ ReleaseDraining \/ JoinEncoder

Next ==
    \/ Compositor
    \/ \E n \in SUBSET Consumers : BeginFrame(n)
    \/ ExportFrame
    \/ ExportExit
    \/ EncoderThread
    \/ PreviewThread
    \/ Setters
    \/ StopExport
    \/ Free

\* Every thread runs on.  The export thread catches up with its events again
\* and again (they come at the frame rate), and then looks at export_running.
Fairness ==
    /\ WF_vars(ExportFrame)
    /\ SF_vars(ExportExit)
    /\ WF_vars(EncoderThread)
    /\ WF_vars(PreviewThread)
    /\ WF_vars(Free)

Spec == Init /\ [][Next]_vars /\ Fairness

-----------------------------------------------------------------------------
(* Properties.                                                             *)

InCells(l) == {c \in Cell : cell[c] = l}
Queues == <<queue, retained, draining>>
InQueues(l) == UNION {{<<k, i>> : i \in {j \in DOMAIN Queues[k] :
                                             Queues[k][j] = l}} :
                      k \in DOMAIN Queues}

\* Every lease taken from a mailbox is in exactly one variable of one thread,
\* or has been given back and is in none: no path through the enqueue calls,
\* the hand-off threads and sbs_output_router_free loses a lease (which would
\* pin a canvas entry for ever) or gives one back twice (which would let the
\* compositor draw into a frame somebody reads).
LeaseOwnedOnce ==
    /\ \A l \in out : Cardinality(InCells(l)) + Cardinality(InQueues(l)) = 1
    /\ \A c \in Cell : cell[c] \in out \cup {NoLease}
    /\ \A k \in DOMAIN Queues : Range(Queues[k]) \subseteq out

\* The router never pins more than RetainCount + QueueCapacity + 2 program
\* frames, the queued ones among them at most QueueCapacity: with the two
\* mailboxes and a transition that is 15 of the ring's 16, so the compositor
\* always finds an entry to render into when no render is in flight.
PinnedBound ==
    LET waiting == queue \o draining
    IN  /\ Len(waiting) <= QueueCapacity
        /\ Cardinality({l \in out : l.box # "PREVIEW" /\ l \notin Range(waiting)})
              <= RetainCount + 2

\* sbs_output_router_free leaves nothing behind: when the last thread is
\* joined, every lease has been given back.
FreedReturnsAll == mpc = "freed" => out = {}

\* Program frames reach the encoder in the order they were published, each at
\* most once, whatever the queue drops in between: from the frames the encoder
\* still refers to up to the one in the mailbox, frame numbers increase.
OutputFrames ==
    LET one(l) == IF l \in Lease /\ l.box = "OUTPUT" THEN <<l>> ELSE << >>
    IN  retained \o one(cell["encoder"]) \o queue \o one(cell["export"])
            \o one(box["OUTPUT"])
PipelineOrdered ==
    \A i, j \in DOMAIN OutputFrames :
        i < j => OutputFrames[i].frame < OutputFrames[j].frame

\* A frame is skipped as a duplicate only when the content queued last is the
\* same: the gate never lags behind the queue when it is looked at, although
\* it is set and reset in critical sections of their own by two threads.
SkipsOnlyQueued == xpc = "gate" => gate \in {0, queued}

\* Once the main thread begins to free the router, it finishes: no thread
\* sleeps through its stop signal and no join waits for ever.
FreeTerminates == mpc # "run" ~> mpc = "freed"
=============================================================================
