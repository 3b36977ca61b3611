# Verification of sbs-server

TLA+ models of the stream-box server, checked with TLC; all safety properties that
the runs check are proved with TLAPS for instances of any size (section 4). Paths below are relative to the repository; the repository root is `src/`.

## 1. The system

`sbs-server` composes video sources into a program picture and sends it to
encoders, outputs, previews and snapshots. One *controller* process keeps one
server process per *instance*; an instance keeps one *worker* process per source
and per output.

```
 controller: API server -- instance manager --spawn/watch--> instance processes
 instance:   API server (websocket client threads, control socket on main loop)
             main loop:  source supervisor --fork/IPC--> source workers
                         output supervisor --fork/IPC--> output workers
             compositor thread: commands, source frames -> Vulkan -> canvas ring
             export thread -> encoder hand-off thread -> encoder manager
                           -> preview hand-off thread -> preview engine
                           -> snapshot engine, output supervisor
```

### Inventory

| component | state | operations | interacts through | hard part | correct when |
|---|---|---|---|---|---|
| native canvas (`engine/compositor.c`) | two rings of entries (state, reference count, fence), `write_idx`, `last_rendered_entry`, three mailboxes | acquire, submit, poll, publish, repeat, ref/unref, configure preview | leases held by other threads, GPU fences | consumers release while the thread recycles; teardown with a timeout | counts are exact, a leased frame is never overwritten, renders are published |
| compositor thread (`engine/compositor_thread.c`) | scene state, transition cache, pending source frames | command loop, render or repeat, release of source frames | SPSC command queue, event queue and eventfd | several producers, transition restarts, order of release | no command lost, frames released once |
| output router (`engine/output_router.c`) | encoder queue, retained leases, pending preview, content gate | process frame, hand-off threads, setters, free | mailboxes, two locks, condition variables | leases change owner across threads, teardown order | every lease given back once, order kept, teardown ends |
| destination export (`engine/export_dest.c`, `compositor.c`) | slots, their reference counts, the targets' pointers | acquire, submit, poll, release, retire, rebuild of a ring | export thread, compositor thread, GPU | both threads count references; rebuild while passes are in flight | slots come back, none is used once destroyed |
| source supervisor (`supervisor/source_supervisor.c`) | per source: pid, sockets, watches, timers, attempts | start, stop, accept, hang-up, child exit, restart, shutdown | GLib callbacks, IPC socket, signals | callbacks in any order, timers on freed entries | each worker watched, replaced or given up, none left behind |
| output supervisor (`supervisor/output_supervisor.c`) | the same per output | the same, sending frames and audio, shutdown of all in stages | export and audio threads, clients' threads | four kinds of threads and no lock | as above; a stop ends |
| instance manager (`instance_manager.c`) | per instance: pid, running, wish; `instances.json` | create, start, stop, restart, remove, child watch, boot | child watches, idle callbacks, client threads | late watches, a blocking stop, crash of the controller | one process per instance, wish durable, ids unique |
| frame slots, source frames (`engine/frame_slot.c`, `source_worker.c`) | ring of frames per source, leases of the worker | receive, take, import, release, flush, recovery | worker process, main loop, compositor thread, GPU | eviction, failed imports, frames still sampled | each frame released once, not while read |
| encoder manager, `direct_venc` (`engine/encoder_manager.c`) | outputs, SRT sessions, mux queues, keyframe gate | add/remove output, update, feed, accept callers | acceptor, feeder, streamer, encoder and audio threads | joins under a lock, gate against callers | no thread outlives its session, calls return, streams resume at a keyframe |
| scene graph and its handlers (`engine/scene_graph.c`, `api/handlers/`) | scenes, items, sources, transitions | add, update, remove, reorder, activate | handlers, supervisor, mixer, compositor | references between objects, refreshes by hand | nothing dangles; workers, mixer and compositor follow the graph |
| configuration (`config/config_manager.c`) | bundle on disk, pending canvas, debounce timer | mark, save, load, import, reset, apply | main loop, clients' threads, restart | shared temporary file, crashes | nothing marked is lost, a loadable file stays |
| API server (`api/`) | clients, methods, subscriptions | dispatch, publish | one thread per websocket client, main loop for the control socket | no lock around handlers | requests do not corrupt tables |
| audio mixer (`engine/audio_mixer.c`) | branch per source: on air, heard | follow the active scene | handlers, GStreamer | two bindings per sound, the item's and the source's, each with a mute | only what is on air |
| preview, snapshot (`engine/preview.c`, `snapshot.c`) | sessions, pending capture | open/close, consume, capture | WebRTC, condition variable | timeout against late frame | a capture gets a frame or fails |
| GE2D, Vulkan drawing, CLI, utilities | hardware, pixels, plain I/O | | | | not modelled |

`PROJECT.json` lists every component with its status and every hazard with its
line.

## 2. What is modelled

### NativeCanvas (and LeasePool)

`NativeCanvas.tla` models both rings, the mailboxes, the compositor thread's
loop and the GPU. `state`, `refcount`, `fence`, `writeIdx` and `lastRendered` are
the fields of the same names; `hold[p]` says which entry each *place* (a mailbox,
the transition's cached entry, the publisher's two local variables, a consumer's
lease variable) owns a reference of. The compositor thread is a program counter
through: commands (`CaptureTransition`, `ReleaseTransition`, `TeardownPreview`
and the preview's wait, destruction and creation), `BeginFrame`, the poll loops
(`PollReady`, `PollDone`), publication in the steps the code makes visible to
other threads (`PublishRef`, `PublishSwap` under the mailbox lock,
`PublishUnref`), repetition and rendering with its failures. `GpuComplete`
signals fences in submission order. Consumers take and drop leases at any time.
A failed submit after `vkResetFences` leaves an entry that is never acquired
again. After the 500 ms timeout of a preview teardown nothing is claimed of
preview entries (`Guarded`).

`LeasePool.tla` is the abstract specification: an image that is leased is not
written, and only finished images are leased. `ImplementsLeasePool` is the
refinement.

### OutputRouter, DestExport, ExportPath

`OutputRouter` is the export thread's frame on the native path, the encoder and
the preview hand-off threads, the setters and `sbs_output_router_free`, each split
where the code unlocks. A lease is a record with its mailbox, frame and content
numbers; `cell` holds the lease variables of the threads, `queue` and `retained`
the arrays. `out` is what the compositor counts as leased. The compositor is
reduced to `Publish`; that it keeps the frames of leases intact is NativeCanvas's
theorem.

`DestExport` is the path taken without a native canvas. The export thread
submits a GPU pass from a render target into a slot of the output's or the
preview's ring, and hands finished slots on; the compositor thread, before it
draws into a target again, waits for the slot that last read it and takes back
its reference. `retire_slot_mutex` guards the targets' pointers; `retire_refs` and
`release_pending_free` are read and written by the export thread without it, so
each such access is a step. A ring is rebuilt when the colour mode changes, at
any moment. The flag that a ring is
there is read twice on the way to building it, so a change in between is seen
(`SkipInit`), and set without a look at the mode it was built for (`NoteInited`). A submit
that fails has reset its slot's fence, which is then not signalled any more (`reset`).
The variable `raced` remembers the slots on which the two threads
were inside such a sequence at the same time: `SlotsComeBack` excepts these, and
the loss that follows an overlap is a hazard of the code, not of the model.

`ExportPath` joins the two. Whether there is a native canvas is settled before
the router's threads start, so each behaviour takes one of the paths throughout.

### SourceSupervisor and OutputSupervisor

`SourceSupervisor`: one action per GLib callback and API call, on a record per
source that says which watches and timers exist. There is no clock: armed timers
fire in any order. The restart timer's id is not stored in the code, so a stop
leaves it armed; the callback then works on freed memory, modelled as no effect
or as an effect on the entry that took its place (`DanglingTimerReused`).

`OutputSupervisor` has the same callbacks for outputs, whose entries are also
touched by clients' threads and by the router's export and audio threads. A
callback, a call and a stage of `shutdown_all` (terminate, reap, kill) are one
step; a sender's look-up, its send, its reaction to a broken pipe and its closing
of the connection are steps of their own, between which the entry may be freed.
The worker process is modelled with how far it has started, because that decides
what SIGTERM does: a worker that has its handlers installed but has not reached
`g_main_loop_run` forgets that it was told to quit (`"deaf"`).

### SourceFrames

A captured frame's way: leased by the worker, in its socket, received into the
slot ring by the main loop, taken and imported by the compositor thread, attached
to the canvas entry whose render samples it, and released by a message. The ring
drops its oldest frame when full; imports, renders and submits fail; a muted or
hidden source is flushed; the worker runs out of leases, recovers or restarts, and
a texture may be taken over by another source. A critical section of the slot's
lock is one step, a loop of the compositor thread two.

### SceneGraph and SceneControl

`SceneGraph` is the graph as a value: an operation of `scene_graph.c` is an
operator from graph to graph, with a predicate `Can...` for the calls it accepts.
It declares what the two modules that change the graph share: the variable `graph`,
the ids, the count of calls. An item array is sorted, and loses elements, by
`Listed`: the chosen places of an array in a given order, which is the stable sort of
`g_ptr_array_sort` (`SortOrder`) or the array's own order (`ArrayOrder`).
`SceneControl` is the API's handlers over it. A handler is one step with all it
does: look-ups, the graph's operation, the start, stop, mute or unmute of workers,
the mixer's update and the refresh of the compositor's scene. A refused call has
no step, except `scene.item_reorder`, which can be refused after it has renumbered
some items (`torn`).

Sources and items have an audio binding each (`AudioBinding`), which may be enabled and
muted at once. The mixer keeps per branch whether it is active in the scene, which
only *enabled* decides, and whether it is heard. A scene change takes both from the
binding of the last visible item (`Binds`); a call on the source then takes the mute of
the source's own binding instead (`SetSourceState`), and so lifts the scene's mute until
the next refresh. `HeardIsOnAir` says exactly that: what is heard is on air by its
item's binding, and not muted by the item unless the source's own binding sounds.

### Configuration

When and how the scene graph is saved. A save takes steps: built (in two parts
between which another thread's call may come), temporary file opened and emptied,
written, renamed. The main loop's debounce timer and the calls that save at once
use the same temporary file; files are names bound to inodes, so a rename under a
writer does what the file system does. A write may come short, which the code takes
for a success: half a bundle is renamed over the last good file (`SaveWrite`). The
process may crash between any two steps.

A bundle (`Bundle`) is what `serialize_full_state` writes and `Loaded` what
`apply_scene_graph_bundle` makes of it; they are not each other's inverse, and
`SavedOrPending` compares the graph itself with what its file gives back. `Survives` names
what is lost on the way: the default transition (the one used last is saved in its
place), a fade of 500 ms (loaded as one of 2000), items without an id of their own,
which outputs run, and that a capture source is not to be kept alive. Whether a canvas
is there is not validated, and the file is read twice at boot: `Preloaded`, for the
compositor, falls back to the default with the system's overrides (`DefaultCanvas`),
`Loaded`, for the graph, to another (`LoadCanvas`); a reset uses a third, without the
overrides (`NewCanvas`). An instance whose file names no canvas therefore exits at every
boot; the model does so too. A canvas named only in part counts as not named.

Boot restores outputs; `Restored` are the outcomes of the loop over the output table,
whose order is not determined and in which every start may fail: any codec that an
output asked for may have been set, and any outputs that fit it may run. A boot whose
save fails starts them twice (`StartedTwice`): the second start of an output that runs
fails, and it is shown as not running. `EncoderUpdate` is `encoder.update_config`: every
branch is taken off, and those that cannot be made again are lost without a word to the
outputs. `astray` remembers the outputs that one of these two left at odds, and forgets
them when they agree again. `canvas.apply` ends in an exit and a restart; `leaving` is the
canvas for which an instance exits. The specification is `ConfigSpec` (`ConfigInit`,
`ConfigNext`); its graph changes by operators of `SceneGraph`. `unmarked` and `disturbed`
remember what the properties except: a call that marks nothing dirty, a save that failed
or overlapped another.

### Encoder

The shared encoder and its outputs. An SRT output is a session with an acceptor,
a feeder and a streamer thread; the encoder thread queues packets through the
keyframe gate, the audio thread sound; an API call holds `pipeline_mutex` from its
first to its last step and joins the session's threads on its way. Sections under
the other locks are one step each. `SendSample` includes callers that are gone. When the
last caller is gone the streamer flushes the session in two steps, as the code does: the
time base is cleared without a lock (`FlushSession`), the queues later under
`mux_feed_mutex` (`FlushQueues`); packets of the encoder thread and the next caller come
in between. `gap` remembers whether a picture was left out before the next one that is
queued, or taken out of the queue by such a flush. An update may set `gop_size` to 0,
after which keyframes need not recur (`groups`).

### InstanceManager

Handlers and callbacks as functions of the manager's state that are composed the
way the code calls them, each with every refresh and save it makes; saves and
spawns may fail. Handlers of websocket clients run on threads of their own and
nothing locks the table. The model breaks the one handler that blocks (a stop, in
`waitpid`) at that point and lets everything else run; that other handlers run
without interference is an assumption. Pids are not recycled.

## 3. What TLC checks

| run | instance | shows |
|---|---|---|
| `native_canvas` | canvas of 2, preview of 1, one lease variable | `RefcountExact`, `HeldIsStable`, `RepeatsNewest`, refinement of `LeasePool` (`ImplementsLeasePool`), `RendersComplete` |
| `output_router` | native: queue 2, 1 retained, 4 program frames of 2 contents; export: 1 slot per ring, 2 targets, 2 frames, 1 change of mode | `LeaseOwnedOnce`, `PinnedBound`, `PipelineOrdered`, `SkipsOnlyQueued`; `SlotsComeBack`, `SlotsUsedSafely` |
| `output_router_free` | queue 1, frames in all three mailboxes | `FreedReturnsAll`, `FreeTerminates` |
| `source_supervisor` | 2 sources, 2 attempts, 1 dangling timer | `WorkerWatched`, `ConnectsOrTimesOut`, `GivesUpWhenExhausted`, `Replaced` |
| `output_supervisor` | 1 output, 2 attempts, 2 messages of room, 2 descriptors | `WorkerOwned`, `Replaced`, `StopEnds` |
| `instance_manager` | 2 ids, 2 spawns, 1 crash of the controller | `RunningIsWatched`, `OnlyTheLostStray`, `DiskCurrent`, `IdsFresh`, `ComesBack` |
| `source_frames` | 3 frames, ring of 1, 2 canvas entries | `ReleasedOnce`, `SampledHeld`, `CaptureGoesOn` |
| `scene_control` | 2 sources, 2 scenes, a named item and unnamed ones, 4 calls | `GraphSound`, `WorkersMatchGraph`, `PushedIsCurrent`, `HeardIsOnAir` |
| `configuration` | 1 source, scene and item, 2 outputs, 2 canvases, 2 calls, 2 faults (crash, failed save, short write) | `SavedOrPending`, `LastGoodKept`, `CanvasArrives`, `OutputsMatchSinks` |
| `encoder` | 1 SRT and 1 plain output, 1 caller, 2 calls | `SessionsOwned`, `ResumesAtKeyframe`, `CallersServed`, `CallsReturn` |
| `source_supervisor_dangling` | 1 source | violated: no timer refers to a freed entry (`NoDanglingTimer`) |
| `instance_manager_double` | 2 ids, 3 spawns | violated: one process per instance (`AtMostOneProcess`) |

Bounds. For the safety properties the proofs of section 4 remove them; there the
runs show that the properties are not void, and the bounds matter for liveness.

* `native_canvas`: two entries are enough for one to be leased while the other is
  rendered and for two renders in flight.
* `output_router`: the queue overflows with two slots and four frames, and the
  retained array is trimmed with one. One slot per ring makes a ring full and a
  slot reused; two frames, either of which may fail to render, use and retire
  both targets, so that a slot is superseded, retired, reused and rebuilt; the
  order among several slots of a ring is not exercised. `RefModulus = 4` makes a count that wraps below zero visible.
* `source_supervisor`: two sources let a dangling timer of one hit the entry of
  the other; two attempts reach the limit and the state beyond it.
* `output_supervisor`: entries share nothing but the sender and the shutdown's
  list, whose hold on a freed entry one output shows; with two messages a socket
  has a frame waiting before a shutdown message, and is full.
* `instance_manager`: two spawns let an instance be replaced once, which is when
  stale watches and blocked stops matter; `MaxId = 1` gives the default instance and
  one that can be removed, whose id must not come back.
* `source_frames`: three leased frames fill the socket, the ring and the screen,
  so a fourth capture has to wait; a ring of one evicts at once.
* `scene_control`: four calls are the shortest way to an item of a source in the
  active scene and one change of it; a fifth repeats a call already seen. Unnamed
  items may be there several times, and with a named one there are ties of depth and
  ids that a reorder does not know. Sources and scenes are symmetric.
* `configuration`: two calls put a change before or during the save of another and
  let two saves overlap; what is on disk at the start stands for earlier calls. Two
  faults let a boot fail to save what a crash or a short write left. Canvases are
  "hd", of both defaults, and "uhd", of a load that finds none.
* `encoder`: two calls add an output and then remove, update or rebuild it; the
  sessions of two outputs share only what the plain output shares too. A caller
  comes and goes without bound, so it also returns between the halves of a flush.

Deadlock is not checked where the modelled part really ends or pauses: the router
after it is freed, the supervisors after the shutdown, `source_frames` after the
compositor thread's end, `scene_control`, `configuration` and `encoder` when the
bounded calls are made and nobody connects.

Exceptions stated in the properties, each something the code does not promise:
`SlotsComeBack` the slots the two threads raced on; `StopEnds` a worker that was
told to stop before its main loop ran; `CallsReturn` the deadlock in which a call
holds `pipeline_mutex`, joins the acceptor, and the acceptor waits for that lock to
order a keyframe; `ResumesAtKeyframe` a picture that the second half of a flush took out
of the queue after the gate had been reopened; `CallersServed` the other two races of a
removal with the next caller (a count of 0 written over the new caller's, `CountLost`; a
time base cleared behind a gate that was reopened, `BaseLost`), a `gop_size` of 0 and the
deadlock above; `SavedOrPending` and `LastGoodKept` calls that mark nothing, failed,
short and overlapping saves, bundles built across a change, and what `Survives` names;
`CanvasArrives` files without a canvas and such saves; `OutputsMatchSinks` the outputs
that an encoder update or a second start left at odds; `HeardIsOnAir` an item's mute that
a call on its source lifted; `GraphSound` the order in a scene whose last reorder was
refused. The properties show that nothing else leads there.

Fairness. Threads run on (weak fairness of each thread's steps). `NativeCanvas`
takes strong fairness of starting a frame: the compositor thread drains a bounded
command queue and then always reaches its frame. `OutputRouter` takes strong
fairness of `ExportExit`: events arrive at the frame rate and the thread tests
`export_running` between them. The GPU finishes what was submitted. The GLib
main loop dispatches every ready watch, expired timer and idle callback; nothing
is assumed of instance processes and source workers, and of an output worker only
that it exits once it has left its main loop (it waits two seconds at most).
`SourceFrames` adds that a capturing worker reads its socket. `Encoder` takes
strong fairness of keyframes while every group of pictures begins with one, and
of the acceptor's getting the lock between calls.

The two violated runs are findings, described in `PROJECT.json`: the restart timer
that survives its entry, and the stop or late child watch that clears the entry of
a newer process.

## 4. What is proved

The theorems hold for every value of the constants that meets the assumptions
named in the component's module. These say no more than the code's own constants
and tables do: rings, queues and sockets have room for something, a bound is a
number, and a NULL is not one of the things it could be mistaken for. Two relate
sizes. `CapacityAssumption`: the array of retained frames has room for one more than
are kept (`SBS_NATIVE_ENCODER_RETAIN_CAPACITY` against the B-frame count). `InFlightAssumption`: the
worker's leases outnumber a full ring and the frame on screen. One more is about
finiteness: the lease variables (`Holder`) and the callers (`Caller`) are finite
sets. Of the scene graph it is assumed that items can be told from the unnamed one
and are compared by a total order (`ItemAssumption`; ids stand for strings, z_orders
for `int32_t`: `DepthAssumption`); sources, scenes, outputs and canvases may be any sets. The numbers of publications, calls, spawns and crashes that bound TLC's state
spaces are arbitrary here, and so are all capacities.

Each component's proof states one inductive invariant (`IInv`; `ExportIInv` for
`DestExport`, `ConfigIInv` for `Configuration`) and proves that it holds at the start (`InitIInv`), that each action
keeps it (a lemma per action or per conjunct, combined in `NextIInv`) and that it
implies the properties. None of the properties is inductive as the runs check it;
the paragraphs say what had to be added.

| module | theorems: property | about |
|---|---|---|
| `NativeCanvasProofs` | `TypeCorrect`; `RefcountCorrect`: `RefcountExact`; `HeldStable`: `HeldIsStable`; `RepeatsCorrect`: `RepeatsNewest`; `LeasePoolRefinement`: `ImplementsLeasePool` | rings of any size, any finite set of lease variables |
| `ExportPathProofs` (router) | `TypesCorrect`; `OwnedCorrect`: `LeaseOwnedOnce`; `PinnedCorrect`: `PinnedBound`; `PipelineCorrect`: `PipelineOrdered`; `SkipsCorrect`: `SkipsOnlyQueued`; `FreedCorrect`: `FreedReturnsAll` | any queue, retained array and number of frames |
| `ExportPathProofs` (export, both) | `ExportTypesCorrect`; `UsedCorrect`: `SlotsUsedSafely`; `ComesBackCorrect`: `SlotsComeBack`; `PathsImplemented`, `PathCorrect` | any rings, targets, frames and changes of the mode |
| `SourceSupervisorProofs` | `TypesCorrect`; `WatchedCorrect`: `WorkerWatched`; `TimedCorrect`: `ConnectsOrTimesOut`; `GivesUpCorrect`: `GivesUpWhenExhausted` | any sources, attempts and dangling timers |
| `OutputSupervisorProofs` | `TypesCorrect`; `OwnedCorrect`: `WorkerOwned` | any outputs, attempts, socket room and descriptors |
| `InstanceManagerProofs` | `TypesCorrect`; `WatchedCorrect`: `RunningIsWatched`; `StraysCorrect`: `OnlyTheLostStray`; `DiskCorrect`: `DiskCurrent`; `IdsCorrect`: `IdsFresh` | any ids, spawns and crashes |
| `SourceFramesProofs` | `TypesCorrect`; `ReleasedCorrect`: `ReleasedOnce`; `SampledCorrect`: `SampledHeld` | any number of frames, ring, socket, leases and canvas entries |
| `EncoderProofs` | `TypesCorrect`; `OwnedCorrect`: `SessionsOwned`; `ResumesCorrect`: `ResumesAtKeyframe` | any outputs, callers and calls |
| `GraphProofs` (handlers) | `SceneIInv`, `SceneTypes`; `GraphStaysSound`: `GraphSound`; `WorkersStayMatched`: `WorkersMatchGraph`; `PushedStaysCurrent`: `PushedIsCurrent`; `OnlyOnAirIsHeard`: `HeardIsOnAir` | any sources, scenes, items, filters and depths, any number of calls |
| `GraphProofs` (configuration) | `ConfigurationIInv`, `ConfigurationTypes`; `NothingMarkedIsLost`: `SavedOrPending`; `LastGoodStays`: `LastGoodKept`; `AppliedCanvasArrives`: `CanvasArrives`; `OutputsStayMatched`: `OutputsMatchSinks` | any outputs, canvases, calls and crashes |

**Native canvas.** A count is right after a step only if the publisher's local
variables hold exactly the reference the next step gives away (`PublishOK`); a
leased entry stays finished only because acquisition tests an exact count
(`HeldOK`) and because a ready entry is out of the GPU's queue (`QueueOK`,
`ReadyOK`); the preview ring may be zeroed only when nobody leases from it
(`QuietOK`). Counting rests on lemmas about how the set of holders of an entry
changes when a reference is taken, moved or dropped. `RepeatsNewest` needs
`NewestOK` beside it: a frame submitted alone is the only canvas frame being
rendered, and once that is done it is the one marked last.

**Output router.** `Carried` says at which steps each thread has a lease in hand,
`Joined` what each stage of `sbs_output_router_free` has settled, `Accounted` that
the leases out are those in some thread's hands and that a mailbox does not offer
one of them. That a lease is not in two places follows between the threads'
variables from `Distinct`, and along the encoder's pipeline from order: frame
numbers increase from the retained frames through the encoder, the drained and the
waiting frames to the exporter and the mailbox (`Ordered`), so no lease is twice on
that way. `PinnedBound` then is counting: everything out is in one of finitely many
places of known room (`Room`). `SkipsOnlyQueued` rests on `Noted`, that the gate is
behind the queue only between the two critical sections that the export thread
passes through.

**Destination export.** The two threads share slots without telling each other
where they are, so the invariant does it for them: which slot the compositor thread
has under its lock and when the export thread may have taken that slot from the
target since (`Locks`); what each step of the export thread has in hand (`Steps`);
that a frame's destinations are made before slots are asked for (`JobsOrdered`);
that nothing refers to a ring about to be zeroed (`Torn`). `Good` relates, for a
slot on which the threads never raced, its state, count, fence, holder and the
targets that name it. Only such slots can be relied on; `Apart` says that being
inside both threads' sequences at once is what puts a slot in `raced`. That `pick`
finds the oldest ready slot needs that a set of naturals has a least element, cited
from the library's theorems on well-founded orders.

**Both paths.** `PathsImplemented`: a behaviour of the export thread with its
branch is, seen from each path, a behaviour of that path or stands still; so
`PathCorrect`, the run's properties of the joined specification, follows from the
invariants of both.

**Supervisors.** `SourceSupervisor`: the clean-up in the restart timer forgets the
entry's worker, which is harmless because an entry has at most one restart timer
and none while it has a worker (`EntryOK`). This fails once a dangling timer has
struck a source, so the invariant is stated of the others. `OutputSupervisor`: the
same, and an entry may outlive its worker but not its child watch, by which the
table knows that it may be freed (`Owned`); `NoneLeft` carries the shutdown's result.
`GivesUpWhenExhausted` is an action property: one lemma for a relaunch, one for
each callback.

**Instance manager.** Handlers are compositions of functions of the manager's
state, so the invariant is a predicate of such a state and each function has a
lemma. `Tabled`: what runs is watched and has a pid of its own; `Known`: a running
process is the entry's or lost; `Numbered`: ids in use and on disk are below the
next one, which makes ids fresh; `Current`: the file holds the table but for the
stop that waits. `Down` says what a crash leaves.

**Source frames.** `ReleasedOnce` counts; the invariant says it of sets. The
frames in the socket, in the ring, attached to entries and on their way back are
apart (`Apart`), and a leased frame is in one of these places and belongs to the
present worker (`Placed`). For `SampledHeld` the frame to watch is the texture's,
which later renders sample without a new upload (`Sampled`).

**Encoder.** An API call is followed through its steps: who holds the lock
(`Locks`), which outputs an update has still to take off and put on (`Calls`), which
threads are joined so far (`Stages`), whose memory is there (`Living`). A session
can be freed because nothing that was joined starts again. `Gated`: after a gap the
gate is closed, or the keyframe that reopens it is in the encoder thread's hands, unless
the gap is what a flush took out of the queue; while the time base is cleared nothing is
queued, so the two halves of a flush need no more than that.

**Scene graph.** First come facts about the operators. What `Listed` returns, for an
array of any length and any linear order of its places: each chosen element once,
and in that order (`ListedIs`, by counting: an element's place is the number of
elements up to it, an injection between finite sets of one size is onto). So a sort
keeps the items and orders them (`Sorts`), `WithoutSource` keeps all others in order
(`Without`); `Reordered` says the same of a reorder that was accepted, and of a
refused one that it moves nothing. Then one lemma for each way the graph changes:
what it does to its types and soundness (`Sound`), to which sources are shown, and to
what is seen.

**Handlers.** `IInv` is not in terms of the variables but of any graph, workers,
mixer, scene and torn scenes (`IInvOf`), because a handler goes through several
graphs in one step: each partial operation has its lemma, `Refreshes` closes the
step. Two parts had to be added to the properties. A worker that drops its frames
is marked muted in the graph, which is what `source.start` and `scene.item_add` look
at before they unmute (`WorkersOK`). A branch that is *active in the scene*, and not
just one that is heard, is on air (`OnAirOnly`): `sbs_audio_mixer_set_source_state`
makes such a branch heard without looking at the scene, if the source's own binding
sounds, which is the other way to be heard that `MayBeHeard` allows. A refresh makes both the mixer
and the pushed scene right whatever they were, so what is left to prove is that a
handler without a refresh changes nothing that is seen (`Steady`).

**Configuration.** A graph and what its bundle gives back are related by `Survives`
(`Restores`), which is proved of bundles built from a graph and of bundles that were just
loaded: the latter needs that reading back what was read back changes nothing. The
invariant follows a save through its steps: the part that is built is still the graph's
unless a call came (`Holds`), its canvas is the graph's unless it is `canvas.update`'s
(`CanvasOf`), and from then on the bundle, if the save is alone, no timer is set and nothing
unmarked was changed, restores the graph there is (`AloneOK`, which also says that such a
save has the temporary file for itself, and that what it renames is its bundle or a part of
it). `FilesOK`: no save writes into `state.json`'s inode, except after two have overlapped,
when `disturbed` is set until the next save that succeeds alone. `LifeOK` ties the phases of
the process to the savers: a boot's save ends before a client may call; and a crash forgets
all of them, so that after it only the file's own validity counts, which `LastGoodKept`
states. `SavedOrPending` is inductive together with these: a save that ends quietly
establishes it, and whatever changes the graph or the file sets a timer, `unmarked` or
`disturbed`, makes a thread busy, or leaves a part of a bundle. `LeavingOK` is what
`CanvasArrives` needs at the boot: from the exit on no client saves, the debounced save
writes the graph's canvas, and so an undisturbed file names the canvas that the instance
leaves for, or none. `OutputsMatchSinks` rests on `Run`: the outputs that it marks as running
are the branches it restored, and what a call adds to or takes from the two it does to both,
or notes in `astray`. Both invariants were first checked by TLC on the instances of section 3.

### Only model-checked

Liveness, which is outside the prover's reach: `RendersComplete`, `FreeTerminates`,
`Replaced` of both supervisors, `StopEnds`, `ComesBack`, `CaptureGoesOn`,
`CallersServed`, `CallsReturn`. Every invariant and every action property of the passing runs has
a theorem.

## 5. Not modelled

* Drawing, encoding and sound itself: GE2D, Vulkan pipelines and shaders, GStreamer
  pipelines and their bus messages, the muxer's contents, the router's audio
  thread, which keeps no state beyond its pacing.
* The preview engine (WebRTC inside GStreamer, whose callback order the source
  does not determine) and the snapshot engine.
* The command and event queues and the compositor thread's commands, pacing and
  transitions' clock; that the queue has several producers is listed as a hazard.
* Authentication, subscriptions, the websocket protocol, the command line client.
* Calls that change data no operation looks at: names, geometry, volumes, filter
  parameters, health and statistics.
* `sbs_encoder_manager_free`, and the order of the shutdown in `main.c`, where the
  scene graph is freed before the compositor thread that reads its slots ends.
* Memory exhaustion, recycled pids, data races inside a handler.

That a mailbox keeps only the newest frame, where the comment at
`src/server/engine/output_router.c:1067` speaks of a FIFO: the
models take the code's capacity of one.

## 6. Plan

All safety properties of the models are proved. Left for further work, when wanted:
the compositor thread's commands over a queue that refines a FIFO, the order of the
shutdown in `main.c`, and the snapshot handshake. The hazards of `PROJECT.json` that
no property covers yet name the lines.
