---------------------------- MODULE Configuration ----------------------------
(***************************************************************************)
(* How an instance keeps its configuration: the debounced save of the      *)
(* scene graph (config_manager.c), the canvas that is saved now and used   *)
(* after a restart, import and reset, the outputs that start again with    *)
(* the instance, and crashes and restarts between any two steps.           *)
(*                                                                         *)
(* The main loop runs the save timer; the calls of clients run in threads  *)
(* of their own.  A short handler is one step (what they do to the graph   *)
(* is SceneControl's; here it is one of a few edits).  A call that saves   *)
(* by itself (canvas.update, canvas.apply, import, reset) takes one step   *)
(* for what it does to the graph and then the steps of a save:             *)
(*    part of the bundle built - bundle built - temporary file opened and  *)
(*    emptied - written - renamed.                                         *)
(* Both threads use the same temporary file.  One such call is under way   *)
(* at a time.  Whether sources run is not kept.                            *)
(***************************************************************************)
EXTENDS SceneGraph

CONSTANTS
    Output,
    Canvas,         \* canvases a client may ask for
    NewCanvas,      \* the one of sbs_scene_graph_new_default
    DefaultCanvas,  \* the same with the system's overrides
    LoadCanvas,     \* the one of a bundle that names none, when it is applied
    MaxFaults       \* crashes, saves that fail and short writes (a bound)

Codec == {"h264", "h265"}

ASSUME CanvasAssumption ==
    {NewCanvas, DefaultCanvas, LoadCanvas} \subseteq Canvas /\ NONE \notin Canvas
ASSUME CodecAssumption == NONE \notin Codec
ASSUME FaultsAssumption == MaxFaults \in Nat

Thread == {"loop", "client"}

VARIABLES
    up,       \* "down", "boot" (loading), "run", or "exiting": a restart is scheduled
    comp,     \* the canvas the compositor was made with
    codec,    \* the shared encoder's codec
    sinks,    \* the encoder manager's branches
    pending,  \* pending_canvas, or NONE
    timers,   \* save timers that are scheduled
    timerId,  \* save_timeout_id: "none", "timer" (a scheduled one), "fired"
    saver,    \* per thread, the save under way
    files,    \* the directory: state.json and state.json.tmp
    unmarked, \* the graph was changed by a call that marks nothing dirty
    disturbed,\* the last save failed or two saves overlapped
    faults,
    astray,   \* history: outputs that EncoderUpdate or StartedTwice put at odds
    leaving   \* history: the canvas an instance exits for, until a call sets another

configVars == <<up, graph, comp, codec, sinks, pending, timers, timerId, saver, files,
          unmarked, disturbed, calls, faults, astray, leaving>>

-----------------------------------------------------------------------------
(* The bundle: sbs_config_manager_build_bundle, apply_scene_graph_bundle.  *)

SavedOutputs(g) ==
    [o \in DOMAIN g.outputs |-> [g.outputs[o] EXCEPT !.running = FALSE]]

\* serialize_full_state.  The default transition is not saved; the last one
\* used is.  Of a bundle from elsewhere the canvas may be NONE: it names none, or
\* not all of it.
Bundle(g) ==
    [canvas |-> g.canvas, sources |-> g.sources, scenes |-> g.scenes,
     outputs |-> SavedOutputs(g), transitions |-> g.transitions,
     active |-> g.active, preview |-> g.preview, transition |-> g.runtime.id]

\* A call may come when these two are written and the rest is not.
SourcesPart(g) == [canvas |-> g.canvas, sources |-> g.sources]
RestAdded(part, g) ==
    [Bundle(g) EXCEPT !.canvas = part.canvas, !.sources = part.sources]

\* validate_bundle: the source of every item is there.
Valid(b) ==
    \A sc \in DOMAIN b.scenes : \A i \in DOMAIN b.scenes[sc].items :
        b.scenes[sc].items[i].src \in DOMAIN b.sources

\* sbs_scene_graph_add_item for every item of an array.  An id is passed even
\* if it is "item-auto", so of the items of one id only the first is taken.
Readded(items) ==
    Listed(items, {i \in DOMAIN items : \A j \in 1 .. i - 1 : items[j].id # items[i].id},
           SortOrder(items))

\* A fade of 500 ms is taken for a former default.
Lasting(t, duration) == IF t = "fade" /\ duration = 500 THEN 2000 ELSE duration

\* clear_scene_graph and apply_scene_graph_bundle, on graph g.  The active
\* scene is taken as it is written; the flag of a switch under way is left.
Loaded(b, g) ==
    [canvas |-> IF b.canvas = NONE THEN LoadCanvas ELSE b.canvas,
     sources |-> [s \in DOMAIN b.sources |->
                    [b.sources[s] EXCEPT !.keep = @ \/ b.sources[s].kind = "capture"]],
     scenes |-> [sc \in DOMAIN b.scenes |->
                    [b.scenes[sc] EXCEPT !.items = Readded(@)]],
     outputs |-> b.outputs,
     transitions |-> [t \in Transition |-> Lasting(t, b.transitions[t])],
     active |-> IF b.active = NONE /\ DOMAIN b.scenes # {}
                THEN CHOOSE sc \in DOMAIN b.scenes : TRUE ELSE b.active,
     preview |-> b.preview,
     deflt |-> b.transition,
     runtime |-> [NewRuntime EXCEPT !.active = g.runtime.active]]

-----------------------------------------------------------------------------
(* Outputs and the shared encoder's codec.                                 *)

\* ensure_shared_encoder_codec: the codec of an encoder that has branches is
\* not changed; an output without a codec takes what there is.
CodecFits(c, want, used) == want = NONE \/ want = c \/ used = {}
CodecFor(c, want) == IF want = NONE THEN c ELSE want

AutoOutputs(g) == {o \in DOMAIN g.outputs : g.outputs[o].auto}
Wanted(g) == {g.outputs[o].codec : o \in AutoOutputs(g)} \ {NONE}
Shown(g) == {o \in DOMAIN g.outputs : g.outputs[o].running}

\* The outputs that start with the instance are tried one after the other, with
\* the branches "left" there.  If there are none the first outputs choose the
\* codec; the others have to fit.  Any may fail, after it has chosen too, and one
\* that has a branch does.
Restored(g, c, left) ==
    {enc \in [codec : IF left = {} THEN {c} \cup Wanted(g) ELSE {c},
              sinks : SUBSET (AutoOutputs(g) \ left)] :
        \A o \in enc.sinks : g.outputs[o].codec \in {NONE, enc.codec}}

WithRunning(g, on) ==
    [g EXCEPT !.outputs = [o \in DOMAIN g.outputs |-> [g.outputs[o] EXCEPT !.running = o \in on]]]

\* restart_runtime_from_graph.
StartOutputs(g, c, left) ==
    \E enc \in Restored(g, c, left) :
        /\ graph' = WithRunning(g, enc.sinks)
        /\ sinks' = left \cup enc.sinks
        /\ codec' = enc.codec

\* stop_runtime takes off the branches of the graph's outputs.
LeftBranches == sinks \ DOMAIN graph.outputs

\* stop_runtime, then the graph g, which is started unless its canvas needs
\* another compositor.
Run(g, c, canvas) ==
    IF g.canvas # canvas THEN graph' = g /\ sinks' = LeftBranches /\ codec' = c
    ELSE StartOutputs(g, c, LeftBranches)

\* Outputs that are shown as running and have no branch, or the other way round.
Odd(on, g) == {o \in Output : (o \in on) # (o \in Shown(g))}

\* Of these and the ones in "more", astray are the ones that are at odds now.
Strays(more) == astray' = (astray \cup more) \cap Odd(sinks', graph')

-----------------------------------------------------------------------------
(* Files: names are bound to inodes.  An inode's content is nothing, part  *)
(* of a bundle's text (which does not parse) or all of it; a bundle may be *)
(* torn, its parts being of two different graphs.                          *)

Inode == 1 .. 4
Absent == 0
Empty == [text |-> "none", bundle |-> NONE, torn |-> FALSE]
Cut == [Empty EXCEPT !.text = "part"]
Content(b, torn) == [text |-> "whole", bundle |-> b, torn |-> torn]

Idle == [pc |-> "idle", job |-> "none", bundle |-> NONE, torn |-> FALSE,
         inode |-> Absent, alone |-> TRUE]
Busy(t) == saver[t].pc # "idle"
Other(t) == CHOOSE u \in Thread : u # t

\* A save begins at step pc; two that overlap are not alone.
Begun(t, pc, job, b) ==
    [saver EXCEPT ![t] = [Idle EXCEPT !.pc = pc, !.job = job, !.bundle = b,
                                      !.alone = ~ Busy(Other(t))],
                  ![Other(t)].alone = @ /\ ~ Busy(Other(t))]

\* cJSON_Parse and validate_bundle on state.json.
OnDisk == IF files.state = Absent THEN Empty ELSE files.data[files.state]
Parses(c) == c.text = "whole"
Loadable(c) == Parses(c) /\ Valid(c.bundle)

Used == {files.state, files.tmp} \cup {saver[t].inode : t \in Thread}
Fresh == CHOOSE i \in Inode : i \notin Used

\* Bundles a client may import, and that an instance may find at its start: with
\* no output, or with all of them, that start with the instance.
SomeOutputs == {NoEntries, [o \in Output |-> NewOutput("h264", TRUE)]}
Import(c, s, sc, id, some) == Bundle([Seeded(c, s, sc, id) EXCEPT !.outputs = some])
Imports ==
    {Import(c, s, sc, id, some) : c \in Canvas \cup {NONE}, s \in Source, sc \in Scene,
                                  id \in Item, some \in SomeOutputs}

ConfigInit ==
    /\ up = "down"
    /\ graph = NewDefault(DefaultCanvas)
    /\ comp = DefaultCanvas /\ codec = "h265" /\ sinks = {} /\ pending = NONE
    /\ timers = 0 /\ timerId = "none"
    /\ saver = [t \in Thread |-> Idle]
    /\ \/ files = [state |-> Absent, tmp |-> Absent, data |-> [i \in Inode |-> Empty]]
       \/ \E b \in {i \in Imports : i.canvas # DefaultCanvas} :
             files = [state |-> 1, tmp |-> Absent,
                      data |-> [i \in Inode |-> IF i = 1 THEN Content(b, FALSE) ELSE Empty]]
    /\ unmarked = FALSE /\ disturbed = FALSE
    /\ calls = 0 /\ faults = 0
    /\ astray = {} /\ leaving = NONE

-----------------------------------------------------------------------------
(* The process.                                                            *)

\* Mutant: the compositor is made before the file is read.
PreloadedNot == DefaultCanvas

\* sbs_config_manager_preload_canvas: the canvas of the file, valid or not; what
\* the file does not name stays as it was.
Preloaded ==
    IF ~ Parses(OnDisk) \/ OnDisk.bundle.canvas = NONE THEN DefaultCanvas
    ELSE OnDisk.bundle.canvas

\* main: the compositor is made with the canvas of the file; a bundle that can
\* be loaded is applied and saved again, else the instance starts empty.
Boot ==
    /\ up = "down"
    /\ comp' = Preloaded
    /\ IF Loadable(OnDisk)
       THEN /\ Run(Loaded(OnDisk.bundle, NewDefault(comp')), "h265", comp')
            /\ saver' = Begun("loop", "open", "boot", OnDisk.bundle)
            /\ up' = "boot"
       ELSE /\ graph' = NewDefault(comp') /\ sinks' = {} /\ codec' = "h265"
            /\ up' = "run"
            /\ UNCHANGED saver
    /\ leaving' = NONE
    /\ UNCHANGED <<pending, timers, timerId, files, unmarked, disturbed, calls, faults,
                   astray>>

Down ==
    /\ up' = "down"
    /\ sinks' = {} /\ pending' = NONE
    /\ timers' = 0 /\ timerId' = "none"
    /\ saver' = [t \in Thread |-> Idle]
    /\ unmarked' = FALSE /\ astray' = {}
    /\ UNCHANGED <<graph, comp, codec, files, disturbed, calls, leaving>>

Fault == faults < MaxFaults /\ faults' = faults + 1

\* The process is killed or crashes, or is stopped (the timer is not run).
Crash == up # "down" /\ Fault /\ Down
\* restart_instance_cb.
Restart == up = "exiting" /\ Down /\ UNCHANGED faults

-----------------------------------------------------------------------------
(* The debounced save.                                                     *)

\* Mutant: a timer is only made when there is none.
MarkDirtyOnce ==
    /\ timers' = IF timerId # "none" THEN timers ELSE timers + 1
    /\ timerId' = IF timerId # "none" THEN timerId ELSE "timer"

\* sbs_config_manager_mark_dirty: the timer is made anew.  During a save the id
\* is still the fired timer's.
MarkDirty ==
    /\ timers' = IF timerId = "timer" THEN timers ELSE timers + 1
    /\ timerId' = "timer"

\* save_timeout_cb starts: of the timer the manager knows, or of one that the
\* end of the save before forgot.
SaveTimeout ==
    /\ up \in {"run", "exiting"} /\ timers > 0 /\ ~ Busy("loop")
    /\ timers' = timers - 1
    /\ \/ timerId = "timer" /\ timerId' = "fired"
       \/ (timerId = "timer" => timers > 1) /\ UNCHANGED timerId
    /\ saver' = Begun("loop", "rest", "save", SourcesPart(graph))
    /\ UNCHANGED <<up, graph, comp, codec, sinks, pending, files, unmarked, disturbed,
                   calls, faults, astray, leaving>>

\* The rest of the bundle is built; canvas.update puts its canvas in.
SaveBuilt(t) ==
    /\ saver[t].pc = "rest"
    /\ saver' = [saver EXCEPT ![t].pc = "open",
                              ![t].bundle = RestAdded(saver[t].bundle, graph)]
    /\ unmarked' = FALSE
    /\ UNCHANGED <<up, graph, comp, codec, sinks, pending, timers, timerId, files,
                   disturbed, calls, faults, astray, leaving>>

\* Mutant: state.json itself is opened.
SaveOpenState(t) ==
    LET i == IF files.state = Absent THEN Fresh ELSE files.state
    IN  /\ saver[t].pc = "open"
        /\ files' = [files EXCEPT !.state = i, !.data[i] = Empty]
        /\ saver' = [saver EXCEPT ![t].pc = "write", ![t].inode = i]
        /\ UNCHANGED <<up, graph, comp, codec, sinks, pending, timers, timerId, unmarked,
                       disturbed, calls, faults, astray, leaving>>

\* open(O_CREAT | O_TRUNC): the other thread's file if it has one open.
SaveOpen(t) ==
    LET i == IF files.tmp = Absent THEN Fresh ELSE files.tmp
    IN  /\ saver[t].pc = "open"
        /\ files' = [files EXCEPT !.tmp = i, !.data[i] = Empty]
        /\ saver' = [saver EXCEPT ![t].pc = "write", ![t].inode = i]
        /\ UNCHANGED <<up, graph, comp, codec, sinks, pending, timers, timerId, unmarked,
                       disturbed, calls, faults, astray, leaving>>

\* write and fsync.  That fewer bytes were written than asked for is not an
\* error.  What an earlier writer left behind the end is not parsed.
SaveWrite(t) ==
    /\ saver[t].pc = "write"
    /\ \E written \in {Content(saver[t].bundle, saver[t].torn), Cut} :
          /\ files' = [files EXCEPT !.data[saver[t].inode] = written]
          /\ IF written = Cut THEN Fault ELSE UNCHANGED faults
    /\ saver' = [saver EXCEPT ![t].pc = "rename"]
    /\ UNCHANGED <<up, graph, comp, codec, sinks, pending, timers, timerId, unmarked,
                   disturbed, calls, astray, leaving>>

\* schedule_instance_restart: the canvas needs another compositor.
Restarts(job, ok) ==
    /\ graph.canvas # comp
    /\ job = "reset" \/ (job \in {"boot", "apply", "import"} /\ ok)

\* main, after a boot whose save failed: the runtime is started once more.  The
\* outputs that run fail to start, and are shown as not running.
StartedTwice == StartOutputs(graph, codec, sinks) /\ Strays(sinks)

\* What the caller does after its save, which succeeded or not.
Finished(t, ok) ==
    LET s == saver[t]
    IN  /\ saver' = [saver EXCEPT ![t] = Idle]
        /\ disturbed' = ~ (ok /\ s.alone)
        /\ timerId' = IF s.job = "save" THEN "none" ELSE timerId
        /\ pending' = CASE s.job = "update" /\ ok -> s.bundle.canvas
                        [] s.job = "apply" /\ ok -> NONE
                        [] OTHER -> pending
        /\ up' = IF Restarts(s.job, ok) THEN "exiting" ELSE IF up = "boot" THEN "run" ELSE up
        /\ leaving' = IF Restarts(s.job, ok) THEN graph.canvas ELSE leaving
        /\ IF s.job = "boot" /\ ~ ok THEN StartedTwice
           ELSE UNCHANGED <<graph, codec, sinks, astray>>
        /\ UNCHANGED <<comp, timers, unmarked, calls>>

\* rename: the other thread may have renamed the file already.
SaveRename(t) ==
    /\ saver[t].pc = "rename"
    /\ files' = IF files.tmp = Absent THEN files
                ELSE [files EXCEPT !.state = files.tmp, !.tmp = Absent]
    /\ Finished(t, files.tmp # Absent)
    /\ UNCHANGED faults

\* The file cannot be opened, written or renamed: what there is of it is removed.
SaveFails(t) ==
    /\ saver[t].pc \in {"open", "write", "rename"}
    /\ files' = IF saver[t].pc # "open" THEN [files EXCEPT !.tmp = Absent] ELSE files
    /\ Finished(t, FALSE)
    /\ Fault

-----------------------------------------------------------------------------
(* Calls.                                                                  *)

MayCall == up \in {"run", "exiting"} /\ calls < MaxCalls /\ calls' = calls + 1

\* The bundle being built has parts of two graphs.
Tearing == [t \in Thread |->
    IF saver[t].pc = "rest" THEN [saver[t] EXCEPT !.torn = TRUE] ELSE saver[t]]

\* A handler changed the graph, and published an event: that marks the
\* configuration dirty.
Changed(g) ==
    /\ graph' = g
    /\ saver' = Tearing
    /\ MarkDirty
    /\ UNCHANGED <<up, comp, pending, files, unmarked, disturbed, faults, leaving>>

\* A few of SceneControl's calls that publish what they did, among them the ones
\* whose effect a restart changes.
Edits(g) ==
    {CreateSource(g, s, "capture", FALSE) : s \in Source \ DOMAIN g.sources}
    \cup {RemoveSource(g, s) : s \in DOMAIN g.sources}
    \cup {CreateScene(g, sc) : sc \in Scene \ DOMAIN g.scenes}
    \cup {AddItem(g, a[1], a[2], AutoId, 0, TRUE, NoAudio) :
            a \in (DOMAIN g.scenes) \X (DOMAIN g.sources)}
    \cup {UpdateTransition(g, "fade", 500)}

Edit ==
    MayCall /\ \E g \in Edits(graph) : Changed(g) /\ UNCHANGED <<codec, sinks, astray>>

\* scene.set_preview, scene.remove and others publish nothing.  What they change
\* is in one part of the bundle.
EditUnmarked ==
    /\ MayCall
    /\ \E g \in {SetPreviewScene(graph, sc) : sc \in DOMAIN graph.scenes}
                \cup {RemoveScene(graph, sc) : sc \in {s \in Scene : CanRemoveScene(graph, s)}} :
            graph' = g
    /\ unmarked' = TRUE
    /\ UNCHANGED <<up, comp, codec, sinks, pending, timers, timerId, saver, files, disturbed,
                   faults, astray, leaving>>

OutputCreate(o, want) ==
    /\ MayCall
    /\ o \notin DOMAIN graph.outputs
    /\ Changed(CreateOutput(graph, o, want, FALSE))
    /\ UNCHANGED <<codec, sinks, astray>>

\* Mutant: the branch stays.
OutputRemoveOnly(o) ==
    /\ MayCall
    /\ o \in DOMAIN graph.outputs
    /\ Changed(RemoveOutput(graph, o))
    /\ UNCHANGED <<codec, sinks>>
    /\ Strays({})

OutputRemove(o) ==
    /\ MayCall
    /\ o \in DOMAIN graph.outputs
    /\ Changed(RemoveOutput(graph, o))
    /\ sinks' = IF graph.outputs[o].running THEN sinks \ {o} ELSE sinks
    /\ Strays({})
    /\ UNCHANGED codec

\* The codec asked for, or the output's own, is resolved and kept; the branch
\* may fail to start.  The output will start with the instance from now on.
OutputStart(o, asked) ==
    LET want == IF asked # NONE THEN asked ELSE graph.outputs[o].codec
        kept == IF want # NONE THEN want ELSE graph.outputs[o].codec
    IN  /\ MayCall
        /\ o \in DOMAIN graph.outputs
        /\ CodecFits(codec, want, sinks)
        /\ codec' = CodecFor(codec, want)
        /\ \/ /\ o \notin sinks
              /\ sinks' = sinks \cup {o}
              /\ Changed([graph EXCEPT !.outputs[o] =
                             [codec |-> kept, auto |-> TRUE, running |-> TRUE]])
              /\ Strays({})
           \/ /\ UNCHANGED <<up, graph, comp, sinks, pending, timers, timerId, saver, files,
                             unmarked, disturbed, faults, astray, leaving>>

OutputStop(o) ==
    /\ MayCall
    /\ o \in DOMAIN graph.outputs
    /\ sinks' = sinks \ {o}
    /\ Changed([graph EXCEPT !.outputs[o].running = FALSE, !.outputs[o].auto = FALSE])
    /\ Strays({})
    /\ UNCHANGED codec

\* A running output is taken off and put on again with what it has now; one that
\* has no branch is run by a worker of the output supervisor from now on.
OutputUpdate(o, want, ok) ==
    LET on == graph.outputs[o].running
        fits == o \in sinks => CodecFits(codec, want, sinks \ {o})
        again == on /\ fits /\ ok
    IN  /\ MayCall
        /\ o \in DOMAIN graph.outputs
        /\ codec' = IF on /\ o \in sinks /\ fits THEN CodecFor(codec, want) ELSE codec
        /\ sinks' = IF on /\ ~ again THEN sinks \ {o} ELSE sinks
        /\ Changed([graph EXCEPT !.outputs[o].codec = want, !.outputs[o].running = again])
        /\ Strays({})

\* encoder.update_config with a setting that differs: every branch is taken off,
\* the settings are replaced, and what branches can be made again are; none if
\* the pipeline cannot.  No output is told, and nothing is marked.
EncoderUpdate(c) ==
    /\ MayCall
    /\ codec' = c
    /\ sinks' \in SUBSET sinks
    /\ UNCHANGED <<up, graph, comp, pending, timers, timerId, saver, files, unmarked, disturbed,
                   faults, leaving>>
    /\ Strays(sinks)

\* canvas.update: the canvas is saved with the rest and waits for apply.
CanvasUpdate(c) ==
    /\ MayCall
    /\ ~ Busy("client")
    /\ saver' = Begun("client", "rest", "update", [SourcesPart(graph) EXCEPT !.canvas = c])
    /\ leaving' = NONE
    /\ UNCHANGED <<up, graph, comp, codec, sinks, pending, timers, timerId, files, unmarked,
                   disturbed, faults, astray>>

\* sbs_config_manager_apply_bundle in a client's thread.
Apply(job, b) ==
    /\ MayCall
    /\ ~ Busy("client")
    /\ Valid(b)
    /\ Run(Loaded(b, graph), codec, comp)
    /\ saver' = LET s == Begun("client", "open", job, b)
                IN  [s EXCEPT !["loop"].torn = Tearing["loop"].torn]
    /\ unmarked' = FALSE /\ leaving' = NONE
    /\ Strays({})
    /\ UNCHANGED <<up, comp, timers, timerId, files, disturbed, faults>>

\* canvas.apply: what the file says replaces the graph.  A canvas that it names
\* and that needs a restart is pending until this is done.
CanvasApply ==
    /\ Parses(OnDisk)
    /\ Apply("apply", OnDisk.bundle)
    /\ pending' = IF OnDisk.bundle.canvas \in {NONE, comp} THEN pending ELSE OnDisk.bundle.canvas

\* config.import of a bundle exported somewhere.
ConfigImport(b) == Apply("import", b) /\ UNCHANGED pending

\* config.reset: the file is removed, the default graph is built and saved.
ConfigReset(src, sc, id) ==
    /\ MayCall
    /\ ~ Busy("client")
    /\ graph' = Seeded(NewCanvas, src, sc, id)
    /\ sinks' = LeftBranches
    /\ files' = [files EXCEPT !.state = Absent]
    /\ saver' = LET s == Begun("client", "rest", "reset", SourcesPart(graph'))
                IN  [s EXCEPT !["loop"].torn = Tearing["loop"].torn]
    /\ unmarked' = FALSE /\ leaving' = NONE
    /\ Strays({})
    /\ UNCHANGED <<up, comp, codec, pending, timers, timerId, disturbed, faults>>

ConfigNext ==
    \/ Boot \/ Crash \/ Restart
    \/ SaveTimeout
    \/ \E t \in Thread :
          SaveBuilt(t) \/ SaveOpen(t) \/ SaveWrite(t) \/ SaveRename(t) \/ SaveFails(t)
    \/ Edit \/ EditUnmarked
    \/ \E o \in Output, want \in Codec \cup {NONE} : OutputCreate(o, want) \/ OutputStart(o, want)
    \/ \E o \in Output : OutputRemove(o) \/ OutputStop(o)
    \/ \E o \in Output, want \in Codec \cup {NONE}, ok \in BOOLEAN : OutputUpdate(o, want, ok)
    \/ \E c \in Codec : EncoderUpdate(c)
    \/ \E c \in Canvas : CanvasUpdate(c)
    \/ CanvasApply
    \/ \E b \in Imports : ConfigImport(b)
    \/ \E s \in Source, sc \in Scene, id \in Item : ConfigReset(s, sc, id)

ConfigSpec == ConfigInit /\ [][ConfigNext]_configVars

-----------------------------------------------------------------------------
\* Items that share an id, "item-auto".
Doubled(items) == \E i, j \in DOMAIN items : i # j /\ items[i].id = items[j].id

(* What of a graph g is in d, which a file has given back, and what is lost *)
(* on the way: that a capture source is not to be kept alive, which items   *)
(* share an id, a fade of 500 ms, which outputs run, and the default        *)
(* transition (d's is the last one that g has used).                        *)
Survives(g, d) ==
    /\ DOMAIN d.sources = DOMAIN g.sources
    /\ \A s \in DOMAIN g.sources :
          \/ d.sources[s] = g.sources[s]
          \/ g.sources[s].kind = "capture" /\ d.sources[s] = [g.sources[s] EXCEPT !.keep = TRUE]
    /\ DOMAIN d.scenes = DOMAIN g.scenes
    /\ \A sc \in DOMAIN g.scenes :
          /\ d.scenes[sc].filters = g.scenes[sc].filters
          /\ ~ Doubled(g.scenes[sc].items) => d.scenes[sc].items = g.scenes[sc].items
    /\ d.outputs = SavedOutputs(g)
    /\ \A t \in Transition :
          \/ d.transitions[t] = g.transitions[t]
          \/ t = "fade" /\ g.transitions[t] = 500
    /\ d.active = g.active /\ d.preview = g.preview

(* A restart loses nothing that a call marked, but for what Survives names: *)
(* when no save is scheduled or under way, loading state.json gives back    *)
(* the graph there is, but for a canvas that waits to be applied.  What the *)
(* code lets pass is excepted: a call that marks nothing, and a save that   *)
(* failed, that wrote only a part, that calls came into or that overlapped  *)
(* another one.                                                             *)
SavedOrPending ==
    /\ up = "run" /\ timers = 0 /\ \A t \in Thread : ~ Busy(t)
    /\ ~ unmarked /\ ~ disturbed /\ ~ OnDisk.torn /\ OnDisk.text # "part"
    => IF ~ Parses(OnDisk) THEN graph = NewDefault(comp)
       ELSE LET disk == Loaded(OnDisk.bundle, graph)
            IN  Survives(graph, disk) /\ disk.canvas \in {graph.canvas, pending}

(* A crash between any two steps leaves a configuration that can be        *)
(* loaded: when state.json is there it is a whole and valid bundle, unless *)
(* a write came short (the part is renamed over the last good file), calls *)
(* came in the middle of building it, or a save failed or overlapped       *)
(* another one (they share the temporary file).                            *)
LastGoodKept ==
    files.state # Absent /\ ~ disturbed /\ ~ OnDisk.torn /\ OnDisk.text # "part"
    => Loadable(OnDisk)

(* An instance that exits because an applied canvas needs another          *)
(* compositor comes back with that canvas, in the compositor and in the    *)
(* graph, so that it does not exit again; whatever was saved in between    *)
(* and whatever crashed.  Not so if the file names no canvas: the two that *)
(* read it at boot complete it differently, and the instance exits every   *)
(* time.  Nor if the last save failed, came short or overlapped another.   *)
CanvasArrives ==
    [][up = "down" /\ up' # "down" /\ leaving # NONE
       /\ ~ disturbed /\ Parses(OnDisk) /\ OnDisk.bundle.canvas # NONE
       => comp' = leaving /\ graph'.canvas = leaving]_configVars

(* The outputs that are shown as running are the encoder's branches, after *)
(* any sequence of calls, imports, resets and restarts, but for the ones   *)
(* that an update of the encoder dropped and the ones that a boot whose    *)
(* save failed tried to start twice; and these only until they agree again.*)
OutputsMatchSinks == up # "down" => Odd(sinks, graph) \subseteq astray
=============================================================================
