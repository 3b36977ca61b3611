---------------------------- MODULE SourceFrames ----------------------------
(***************************************************************************)
(* A captured frame's way from a capture worker (vfmcap) to the GPU and    *)
(* its lease's way back.  The worker leases a buffer from the driver and   *)
(* sends its descriptor; the supervisor's main loop puts the frame into    *)
(* the source's slot ring; the compositor thread takes it, imports it and  *)
(* renders with it; and whoever takes the frame out of the server for good *)
(* sends the release that lets the worker give the buffer back.  The       *)
(* driver may write to a buffer that was given back.                       *)
(*                                                                         *)
(* A frame stands for a sequence number and its buffer.  A number is used  *)
(* again here when nothing refers to it any more, where the 64-bit counter *)
(* of the code never comes back.  A critical section of the slot's lock is *)
(* one step; a loop of the compositor thread is two steps, between which   *)
(* the other threads and the GPU go on.                                    *)
(***************************************************************************)
EXTENDS Integers, Sequences, FiniteSets

CONSTANTS
    Frames,       \* how many frames exist at a time
    MaxInFlight,  \* SBS_VFMCAP_MAX_IN_FLIGHT
    RingSize,     \* SBS_FRAME_SLOT_RING_SIZE
    SocketRoom,   \* frame messages that fit into the worker's socket
    Entries,      \* SBS_NATIVE_CANVAS_RING_SIZE
    Packed        \* the source's format is AMLY

ASSUME FramesAssumption == Frames \in Nat \ {0}
ASSUME RingAssumption == RingSize \in Nat \ {0}
ASSUME SocketAssumption == SocketRoom \in Nat \ {0}
ASSUME EntriesAssumption == Entries \in Nat \ {0}
ASSUME PackedAssumption == Packed \in BOOLEAN
\* What the server may keep for ever is a full ring and the frame on screen.
ASSUME InFlightAssumption == MaxInFlight \in Nat /\ MaxInFlight > RingSize + 1

Frame == 1 .. Frames
NoFrame == 0
Entry == 1 .. Entries

VARIABLES
    worker,   \* the capture worker: not there, capturing, waiting for a signal
    leases,   \* frames whose buffers the worker has not given back
    sent,     \* frames in the worker's socket
    conn,     \* frames whose release goes to the present worker
    ring,     \* the source's slot ring, oldest first
    acks,     \* per frame: FRAME_RELEASE messages on their way to the worker
    pc,       \* the compositor thread
    shown,    \* the scene on screen has a visible item of the source
    tex,      \* the source's texture: active import, and whether it is bound
    pending,  \* per canvas entry: source_release_pending
    reads,    \* per canvas entry: the frame its unfinished render samples
    busy,     \* per canvas entry: its render is unfinished
    spoilt    \* released without a render, and still bound to the texture

workerVars == <<worker, leases, sent, conn>>
compVars == <<pc, shown, tex, pending, reads, busy, spoilt>>
vars == <<workerVars, ring, acks, compVars>>

NoAcks == [f \in Frame |-> 0]

Init ==
    /\ worker = "down" /\ leases = {} /\ sent = <<>> /\ conn = {}
    /\ ring = <<>> /\ acks = NoAcks
    /\ pc = "top" /\ shown = FALSE
    /\ tex = [active |-> NoFrame, bound |-> FALSE]
    /\ pending = [e \in Entry |-> {}]
    /\ reads = [e \in Entry |-> NoFrame]
    /\ busy = [e \in Entry |-> FALSE]
    /\ spoilt = {}

-----------------------------------------------------------------------------
Elems(s) == {s[i] : i \in DOMAIN s}
PendingAll == UNION {pending[e] : e \in Entry}

\* Frames somebody refers to.
Known ==
    leases \cup conn \cup Elems(sent) \cup Elems(ring) \cup PendingAll
        \cup {f \in Frame : acks[f] > 0} \cup {tex.active} \cup {reads[e] : e \in Entry}

\* sbs_frame_fds_release of the frames S: a message for each on the duplicate
\* of the socket the frame came from.  It is lost when that worker is gone.
\* (Fewer releases can be outstanding than fit into the socket, so that the
\* non-blocking send succeeds.)
Acked(S) == [f \in Frame |-> IF f \in S \cap conn THEN acks[f] + 1 ELSE acks[f]]

-----------------------------------------------------------------------------
(* The worker: source_worker.c.                                            *)

\* store_lease, release_lease_index and release_all.
Leased(f) == leases' = leases \cup {f}
GivenBack(S) == leases' = leases \ S

\* open_start and, when the device is closed, begin_recovery: it is given all
\* leases back.
OpenStart == worker' = "run"
Recovering == worker' = "recover" /\ GivenBack(leases)

\* on_vfmcap_frame_timeout: a buffer is leased and sent; nothing is left of
\* the lease when the driver has no frame, the frame is unusable or the send
\* would block.
Capture ==
    /\ worker = "run"
    /\ Cardinality(leases) < MaxInFlight
    /\ Len(sent) < SocketRoom
    /\ \E f \in Frame \ Known :
        /\ \A g \in Frame \ Known : f <= g
        /\ Leased(f)
        /\ sent' = Append(sent, f)
        /\ conn' = conn \cup {f}
        /\ spoilt' = spoilt \ {f}
    /\ UNCHANGED <<worker, ring, acks, pc, shown, tex, pending, reads,
                   busy>>

\* on_source_control_msg: a release; one of an unknown frame is counted only.
ReadAck ==
    /\ worker # "down"
    /\ \E f \in Frame :
        /\ acks[f] > 0
        /\ GivenBack({f})
        /\ acks' = [acks EXCEPT ![f] = @ - 1]
        /\ conn' = IF acks[f] = 1 THEN conn \ {f} ELSE conn
    /\ UNCHANGED <<worker, sent, ring, compVars>>

\* on_vfmcap_event_timeout: the signal has changed, or has been lost for long.
BeginRecovery ==
    /\ worker = "run"
    /\ Recovering
    /\ UNCHANGED <<sent, conn, ring, acks, compVars>>

\* recover_timeout once the signal has been stable.
Recovered ==
    /\ worker = "recover"
    /\ OpenStart
    /\ UNCHANGED <<leases, sent, conn, ring, acks, compVars>>

\* on_vfmcap_stats_timeout: the frame rate is low though fewer than half of the
\* leases are out.
MayRestart == Cardinality(leases) < MaxInFlight \div 2
\* restart_now: the device is closed and opened again, or fails to open.
RestartNow ==
    /\ worker = "run"
    /\ MayRestart
    /\ Recovering \/ (OpenStart /\ GivenBack(leases))
    /\ UNCHANGED <<sent, conn, ring, acks, compVars>>

\* The worker exits (SHUTDOWN, SIGTERM, a crash): its leases end with it, and
\* the supervisor closes the connection with what is in it.
WorkerExits ==
    /\ worker # "down"
    /\ worker' = "down"
    /\ GivenBack(leases)
    /\ sent' = <<>> /\ conn' = {} /\ acks' = NoAcks
    /\ UNCHANGED <<ring, compVars>>

\* source_worker_run of a new worker, after its connection was accepted.
WorkerStarts ==
    /\ worker = "down"
    /\ OpenStart
    /\ UNCHANGED <<leases, sent, conn, ring, acks, compVars>>

-----------------------------------------------------------------------------
(* The server's main loop and the clients' threads.                        *)

\* Mutant of Publish: the frame that is pushed out is forgotten.
PublishForgets(f) ==
    IF Len(ring) = RingSize
    THEN ring' = Append(Tail(ring), f) /\ UNCHANGED acks
    ELSE ring' = Append(ring, f) /\ UNCHANGED acks
\* sbs_frame_slot_publish: a full ring drops its oldest frame.
Publish(f) ==
    IF Len(ring) = RingSize
    THEN ring' = Append(Tail(ring), f) /\ acks' = Acked({Head(ring)})
    ELSE ring' = Append(ring, f) /\ UNCHANGED acks

\* on_frame_available: released at once when the source is muted or there is
\* no memory or no descriptor for the frame, and published otherwise.
Receive ==
    /\ sent # <<>>
    /\ sent' = Tail(sent)
    /\ \/ Publish(Head(sent))
       \/ acks' = Acked({Head(sent)}) /\ UNCHANGED ring
    /\ UNCHANGED <<worker, leases, conn, compVars>>

\* sbs_frame_slot_flush, when a client stops or reconfigures the source.
Flush ==
    /\ ring # <<>>
    /\ ring' = <<>>
    /\ acks' = Acked(Elems(ring))
    /\ UNCHANGED <<workerVars, compVars>>

-----------------------------------------------------------------------------
(* The compositor thread: the first half of its loop, and the second.      *)

\* Mutant of Given: an entry keeps its packed frames while they are imported,
\* active or not.
GivenNever(t, e) == {f \in pending[e] : ~Packed}
\* pending_source_import_still_active: the frames of entry e that it does not
\* keep.
Given(t, e) == {f \in pending[e] : ~(Packed /\ t.active = f)}

\* The render of entry e is finished: its fence has signalled, or an import was
\* destroyed for an entry before it, which waits until the device is idle.
Finished(e) ==
    \/ ~busy[e]
    \/ Packed /\ \E d \in 1 .. (e - 1) : ~busy[d] /\ Given(tex, d) # {}

\* Mutant of Idle: nothing is waited for.
IdleNot(S) == UNCHANGED <<busy, reads>>
\* sbs_compositor_release_source_dmabuf_import for the frames S: vkDeviceWaitIdle
\* before the import of a packed one is destroyed.
Idle(S) ==
    IF Packed /\ S # {}
    THEN /\ busy' = [e \in Entry |-> FALSE]
         /\ reads' = [e \in Entry |-> NoFrame]
    ELSE UNCHANGED <<busy, reads>>

\* The commands, of which a new scene matters here, and
\* release_ready_source_frames.
LoopStart ==
    LET S == [e \in Entry |-> IF Finished(e) THEN Given(tex, e) ELSE {}]
        All == UNION {S[e] : e \in Entry}
    IN  /\ pc = "top"
        /\ shown' \in BOOLEAN
        /\ acks' = Acked(All)
        /\ Idle(All)
        /\ pending' = [e \in Entry |-> pending[e] \ S[e]]
        /\ pc' = "draw"
        /\ UNCHANGED <<workerVars, ring, tex, spoilt>>

\* import_dmabuf_source: the frame becomes the texture's; a failure comes before
\* the binding of the frame before is dropped, or after it.
Imported(f) == [active |-> f, bound |-> TRUE]
ImportFails == {[tex EXCEPT !.bound = b] : b \in {tex.bound, FALSE}}

\* sbs_frame_slot_take_oldest and sbs_compositor_upload_source: what they may
\* come to.
Uploads ==
    IF ~shown \/ ring = <<>>
    THEN {[held |-> {}, gone |-> {}, tex |-> tex, ring |-> ring]}
    ELSE {[held |-> {Head(ring)}, gone |-> {}, ring |-> Tail(ring),
           tex |-> Imported(Head(ring))]}
         \cup {[held |-> {}, gone |-> {Head(ring)}, ring |-> Tail(ring), tex |-> t] :
                t \in ImportFails}

\* sbs_compositor_render_native_frame into a free entry, which samples the
\* texture if the source is shown, and then attach_source_releases_to_entry,
\* which first gives up what the entry has kept.
Render(u, e) ==
    LET S == Given(u.tex, e)
    IN  /\ ~busy[e]
        /\ acks' = Acked(u.gone \cup S)
        /\ pending' = [pending EXCEPT ![e] = (@ \ S) \cup u.held]
        /\ IF Packed /\ S # {}
           THEN Idle(S)
           ELSE /\ busy' = [busy EXCEPT ![e] = TRUE]
                /\ reads' = [reads EXCEPT ![e] =
                       IF shown /\ u.tex.bound THEN u.tex.active ELSE NoFrame]
        /\ UNCHANGED spoilt

\* No entry is free or the submission fails: the frame is released, and its
\* import stays in the texture.
RenderFails(u) ==
    /\ acks' = Acked(u.gone \cup u.held)
    /\ spoilt' = spoilt \cup u.held
    /\ UNCHANGED <<pending, busy, reads>>

\* Nothing was taken and the scene has not changed: the last canvas again.
Repeat(u) ==
    /\ u.ring = ring
    /\ UNCHANGED <<acks, pending, busy, reads, spoilt>>

Draw ==
    /\ pc = "draw"
    /\ \E u \in Uploads :
        /\ ring' = u.ring
        /\ tex' = u.tex
        /\ (\E e \in Entry : Render(u, e)) \/ RenderFails(u) \/ Repeat(u)
    /\ pc' = "top"
    /\ UNCHANGED <<workerVars, shown>>

\* An upload of another source takes the texture over: destroy_source_texture
\* waits for the device and drops the imports.
TextureReassigned ==
    /\ pc = "draw" /\ ~shown
    /\ tex.active # NoFrame
    /\ tex' = [active |-> NoFrame, bound |-> FALSE]
    /\ busy' = [e \in Entry |-> FALSE]
    /\ reads' = [e \in Entry |-> NoFrame]
    /\ UNCHANGED <<workerVars, ring, acks, pc, shown, pending, spoilt>>

\* The end of the thread: release_all_pending_source_frames.
Exit ==
    /\ pc = "top"
    /\ acks' = Acked(PendingAll)
    /\ Idle(PendingAll)
    /\ pending' = [e \in Entry |-> {}]
    /\ pc' = "done"
    /\ UNCHANGED <<workerVars, ring, shown, tex, spoilt>>

\* The GPU finishes a render.
GpuDone(e) ==
    /\ busy[e]
    /\ busy' = [busy EXCEPT ![e] = FALSE]
    /\ reads' = [reads EXCEPT ![e] = NoFrame]
    /\ UNCHANGED <<workerVars, ring, acks, pc, shown, tex, pending, spoilt>>

-----------------------------------------------------------------------------
Worker ==
    \/ Capture
    \/ ReadAck
    \/ BeginRecovery
    \/ Recovered
    \/ RestartNow
    \/ WorkerExits
    \/ WorkerStarts

Next ==
    \/ Worker
    \/ Receive
    \/ Flush
    \/ LoopStart
    \/ Draw
    \/ TextureReassigned
    \/ Exit
    \/ \E e \in Entry : GpuDone(e)

\* The worker's loop reads its socket, the server's main loop the frames, the
\* compositor thread loops, and the GPU finishes what it was given.
Fairness ==
    /\ WF_vars(ReadAck)
    /\ WF_vars(Receive)
    /\ WF_vars(LoopStart \/ Draw)
    /\ \A e \in Entry : WF_vars(GpuDone(e))

Spec == Init /\ [][Next]_vars /\ Fairness

-----------------------------------------------------------------------------
(* Properties.                                                             *)

\* How often a frame of the present worker is on its way through the server:
\* in its socket, in the ring, attached to a canvas entry, or as a release.
Count(f, s) == Cardinality({i \in DOMAIN s : s[i] = f})
Places(f) ==
    Count(f, sent) + Count(f, ring) + acks[f]
    + Cardinality({e \in Entry : f \in pending[e]})

\* Whoever takes a frame out (a full ring, a flush, a muted source, a failed
\* upload or render, a finished render, the thread's end) releases it exactly
\* once: a leased frame has one owner or one release under way, never none,
\* which would be a lease lost for good, and never two.
ReleasedOnce ==
    \A f \in Frame :
        /\ Places(f) <= 1
        /\ f \in leases => Places(f) = 1

\* A packed frame that an unfinished render samples has not been released,
\* however renders and new frames overlap, unless it was released because its
\* own render failed.
SampledHeld ==
    Packed => \A e \in Entry :
        reads[e] # NoFrame => reads[e] \in PendingAll \cup spoilt

\* Capture does not stall: with all leases out one comes back, though the
\* source may be hidden or muted for ever, unless the worker or the thread ends.
CaptureGoesOn ==
    (worker = "run" /\ Cardinality(leases) = MaxInFlight)
        ~> (worker # "run" \/ Cardinality(leases) < MaxInFlight \/ pc = "done")
=============================================================================
