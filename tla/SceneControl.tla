---------------------------- MODULE SceneControl ----------------------------
(***************************************************************************)
(* The API's handlers for sources, scenes, items, filters, transitions and *)
(* audio (api/handlers), over the scene graph: what each call changes in   *)
(* the graph, in the source supervisor, in the audio mixer and in the      *)
(* scene that is handed to the compositor.                                 *)
(*                                                                         *)
(* A handler is one step: its look-ups, the graph's operation, the calls   *)
(* it makes to start, stop, mute or unmute a worker or a mixer's branch,   *)
(* and the refresh of the compositor's scene.  A call that is refused      *)
(* changes nothing and has no step, except item_reorder, which may be      *)
(* refused half done.  A worker may fail to start.  Handlers of two        *)
(* clients are taken to run one after the other, which the code does not   *)
(* enforce.                                                                *)
(***************************************************************************)
EXTENDS SceneGraph

CONSTANTS
    Filter,   \* ids of filters
    Depth     \* z_orders a client may use

ASSUME DepthAssumption == Depth \subseteq Int

VARIABLES
    workers,  \* the source supervisor's entries: source id -> muted
    mixer,    \* the audio mixer's branches: source id -> active in scene, heard
    pushed,   \* the scene last handed to the compositor
    torn      \* scenes whose last reorder was refused and not sorted since

vars == <<graph, workers, mixer, pushed, torn, calls>>

-----------------------------------------------------------------------------
(* The audio mixer (audio_mixer.c): a branch per source that has ever had  *)
(* its audio enabled.  on is its active_in_scene; it is heard when its     *)
(* effective_mute is off.                                                  *)

AirItems(g) == g.scenes[g.active].items
\* The places of the visible items of the active scene.
OnAir(g) ==
    IF g.active \in DOMAIN g.scenes
    THEN {i \in DOMAIN AirItems(g) : AirItems(g)[i].shown} ELSE {}

\* The item whose binding the active scene has for a source: its last visible one.
Binds(g, s, i) ==
    /\ AirItems(g)[i].src = s
    /\ \A j \in OnAir(g) : AirItems(g)[j].src = s => j <= i
Bound(g, s) == \E i \in OnAir(g) : Binds(g, s, i) /\ AirItems(g)[i].audio.on
Unsilenced(g, s) == \E i \in OnAir(g) : Binds(g, s, i) /\ Sounds(AirItems(g)[i].audio)

\* sbs_audio_mixer_on_scene_change: a visible item with audio has a branch.
OnSceneChange(g, m) ==
    LET added == {AirItems(g)[i].src : i \in {j \in OnAir(g) : AirItems(g)[j].audio.on}}
    IN  [s \in DOMAIN m \cup added |-> [on |-> Bound(g, s), heard |-> Unsilenced(g, s)]]

\* add_branch_for_binding, for a binding that is enabled: a new branch is taken
\* to be on air until the scene says otherwise.
NewBranch(b) == [on |-> TRUE, heard |-> Sounds(b)]

\* Mutant: a source that is enabled is heard, on air or not.
SetSourceStateLoud(g, s, m) ==
    IF ~ g.sources[s].audio.on
    THEN IF s \in DOMAIN m THEN [m EXCEPT ![s].heard = FALSE] ELSE m
    ELSE Put(m, s, [on |-> s \in DOMAIN m /\ m[s].on, heard |-> TRUE])

\* sbs_audio_mixer_set_source_state: the mute of the source's own binding takes
\* the place of the mute of the item's.
SetSourceState(g, s, m) ==
    LET b == g.sources[s].audio
        new == Put(m, s, NewBranch(b))
        n == IF s \in DOMAIN m THEN m
             ELSE IF g.active # NONE THEN OnSceneChange(g, new) ELSE new
    IN  IF ~ b.on
        THEN IF s \in DOMAIN m THEN [m EXCEPT ![s].heard = FALSE] ELSE m
        ELSE [n EXCEPT ![s].heard = n[s].on /\ ~ b.mute]

\* sbs_audio_mixer_set_scene_item_state, as the refresh after it leaves it.
SetSceneItemState(s, b, m) ==
    IF b.on /\ s \notin DOMAIN m THEN Put(m, s, NewBranch(b)) ELSE m

\* sbs_audio_mixer_start: a branch per source that has audio.
StartedMixer(g) ==
    [s \in {t \in DOMAIN g.sources : g.sources[t].audio.on} |-> NewBranch(g.sources[s].audio)]

-----------------------------------------------------------------------------
(* Start: the empty default graph, or the one a reset seeds.               *)

\* restart_runtime_from_graph: enabled sources are started, unmuted.
Started(g, ok) ==
    [g EXCEPT !.sources = [s \in DOMAIN g.sources |->
        [g.sources[s] EXCEPT !.running = @ \/ (g.sources[s].enabled
                              /\ (s \in ok \/ g.sources[s].kind = "alsa"))]]]

Entries(g) ==
    {s \in DOMAIN g.sources : g.sources[s].running /\ g.sources[s].kind # "alsa"}

Init ==
    /\ \/ graph = NewDefault(NONE)
       \/ \E src \in Source, sc \in Scene, id \in Item, ok \in SUBSET Source :
             graph = Started(Seeded(NONE, src, sc, id), ok)
    /\ workers = [s \in Entries(graph) |-> FALSE]
    /\ mixer = OnSceneChange(graph, StartedMixer(graph))
    /\ pushed = BuildCompositorState(graph)
    /\ torn = {}
    /\ calls = 0

-----------------------------------------------------------------------------
(* sbs_api_server_refresh_scene: a switch whose time is up ends, the mixer *)
(* follows the scene, and the graph's scene is built and pushed.           *)

Refreshed(g) == {g} \cup (IF g.runtime.active THEN {TransitionOver(g)} ELSE {})

Refresh(g, m) ==
    \E h \in Refreshed(g) :
        /\ graph' = h
        /\ mixer' = OnSceneChange(h, m)
        /\ pushed' = BuildCompositorState(h)

NoRefresh(g, m) == graph' = g /\ mixer' = m /\ UNCHANGED pushed

Call == calls < MaxCalls /\ calls' = calls + 1

\* sbs_source_supervisor_start_source: refused if there is an entry; the
\* launch may fail.
MayStart(s) == s \notin DOMAIN workers
Unmuted(s) == Put(workers, s, FALSE)
Running(g, s) == [g EXCEPT !.sources[s].running = TRUE]
Stopped(g, s) == [g EXCEPT !.sources[s].running = FALSE]

\* sync_alsa_audio_source_config.
SyncAlsa(g, s) ==
    IF g.sources[s].kind = "alsa"
    THEN [g EXCEPT !.sources[s].audio.on = g.sources[s].enabled] ELSE g

\* sbs_api_handle_source_start, called by a client or by another handler; what
\* is left to do with the graph and the mixer is Then.
StartSource(g, s, Then(_, _)) ==
    LET a == SyncAlsa(g, s)
    IN  \/ /\ g.sources[s].kind = "alsa"
           /\ Then(Running(a, s), SetSourceState(a, s, mixer))
           /\ UNCHANGED workers
        \/ /\ g.sources[s].kind # "alsa" /\ MayStart(s)
           /\ workers' = Unmuted(s)
           /\ Then(Running(g, s), mixer)
        \/ /\ g.sources[s].kind # "alsa"   \* refused, or the launch failed
           /\ Then(g, mixer)
           /\ UNCHANGED workers

-----------------------------------------------------------------------------
(* source.*                                                                *)

SourceCreate(s, kind) ==
    /\ Call
    /\ s \notin DOMAIN graph.sources
    /\ LET g == SyncAlsa(CreateSource(graph, s, kind, kind = "capture"), s)
       IN  IF kind = "capture" THEN StartSource(g, s, NoRefresh)
           ELSE NoRefresh(g, mixer) /\ UNCHANGED workers
    /\ UNCHANGED torn

\* A running worker is replaced when the configuration is part of the update.
SourceUpdate(s, enabled, keep, config) ==
    /\ Call
    /\ s \in DOMAIN graph.sources
    /\ LET g == SyncAlsa(UpdateSource(graph, s, enabled, keep), s)
           alsa == g.sources[s].kind = "alsa"
       IN  IF config /\ g.sources[s].running /\ ~ alsa
           THEN \/ NoRefresh(g, mixer) /\ workers' = Unmuted(s)
                \/ NoRefresh(Stopped(g, s), mixer) /\ workers' = Drop(workers, s)
           ELSE /\ NoRefresh(g, IF alsa THEN SetSourceState(g, s, mixer) ELSE mixer)
                /\ UNCHANGED workers
    /\ UNCHANGED torn

\* The source's state is freed at the end, with its frame slot.
SourceRemove(s) ==
    /\ Call
    /\ s \in DOMAIN graph.sources
    /\ Refresh(RemoveSource(graph, s), mixer)
    /\ workers' = IF graph.sources[s].running /\ graph.sources[s].kind # "alsa"
                  THEN Drop(workers, s) ELSE workers
    /\ UNCHANGED torn

SourceStart(s) ==
    /\ Call
    /\ s \in DOMAIN graph.sources
    /\ StartSource(graph, s, NoRefresh)
    /\ UNCHANGED torn

SourceStop(s) ==
    /\ Call
    /\ s \in DOMAIN graph.sources
    /\ \/ /\ graph.sources[s].kind = "alsa"
          /\ LET g == [Stopped(graph, s) EXCEPT !.sources[s].audio.on = FALSE]
             IN  NoRefresh(g, SetSourceState(g, s, mixer))
          /\ UNCHANGED workers
       \/ /\ graph.sources[s].kind # "alsa" /\ s \in DOMAIN workers
          /\ NoRefresh(Stopped(graph, s), mixer)
          /\ workers' = Drop(workers, s)
    /\ UNCHANGED torn

-----------------------------------------------------------------------------
(* scene.*                                                                 *)

SceneCreate(sc) ==
    /\ Call
    /\ sc \notin DOMAIN graph.scenes
    /\ Refresh(CreateScene(graph, sc), mixer)
    /\ UNCHANGED <<workers, torn>>

SceneRemove(sc) ==
    /\ Call
    /\ CanRemoveScene(graph, sc)
    /\ NoRefresh(RemoveScene(graph, sc), mixer)
    /\ torn' = torn \ {sc}
    /\ UNCHANGED workers

SceneSetActive(sc, t) ==
    /\ Call
    /\ CanSetActive(graph, sc, t)
    /\ Refresh(SetActiveScene(graph, sc, t), mixer)
    /\ UNCHANGED <<workers, torn>>

SceneSetPreview(sc) ==
    /\ Call
    /\ sc \in DOMAIN graph.scenes \cup {NONE}
    /\ NoRefresh(SetPreviewScene(graph, sc), mixer)
    /\ UNCHANGED <<workers, torn>>

SceneTransitionToPreview(t) ==
    /\ Call
    /\ graph.preview # NONE
    /\ CanSetActive(graph, graph.preview, t)
    /\ Refresh(SetActiveScene(graph, graph.preview, t), mixer)
    /\ UNCHANGED <<workers, torn>>

SceneTransitionUpdate(t, duration) ==
    /\ Call
    /\ t \in DOMAIN graph.transitions
    /\ NoRefresh(UpdateTransition(graph, t, duration), mixer)
    /\ UNCHANGED <<workers, torn>>

\* The item's source is started if it does not run, and unmuted if it is muted.
SceneItemAdd(sc, s, id, z, shown) ==
    /\ Call
    /\ CanAddItem(graph, sc, s, id)
    /\ LET g == AddItem(graph, sc, s, id, z, shown, graph.sources[s].audio)
           src == g.sources[s]
       IN  IF ~ src.running THEN StartSource(g, s, Refresh)
           ELSE IF src.muted
           THEN /\ Refresh([g EXCEPT !.sources[s].muted = FALSE], mixer)
                /\ workers' = [w \in DOMAIN workers |-> w # s /\ workers[w]]
           ELSE Refresh(g, mixer) /\ UNCHANGED workers
    /\ torn' = torn \ {sc}

SceneItemUpdate(sc, id, z, shown) ==
    /\ Call
    /\ HasItem(graph, sc, id)
    /\ Refresh(UpdateItem(graph, sc, id, z, shown), mixer)
    /\ torn' = torn \ {sc}
    /\ UNCHANGED workers

\* Mutant: items of other scenes are not looked for.
SilencedShown(g, s) ==
    g.sources[s].running /\ ~ g.sources[s].keep /\ ~ g.sources[s].muted

\* The source of the last item that showed it is muted, unless it is kept alive.
Silenced(g, s) ==
    /\ g.sources[s].running /\ ~ g.sources[s].keep
    /\ SourceRefs(g, s) = {} /\ ~ g.sources[s].muted

SceneItemRemove(sc, id) ==
    /\ Call
    /\ HasItem(graph, sc, id)
    /\ LET s == graph.scenes[sc].items[FindItem(graph, sc, id)].src
           g == RemoveItem(graph, sc, id)
       IN  IF Silenced(g, s)
           THEN /\ Refresh([g EXCEPT !.sources[s].muted = TRUE], mixer)
                /\ workers' = [w \in DOMAIN workers |-> w = s \/ workers[w]]
           ELSE Refresh(g, mixer) /\ UNCHANGED workers
    /\ UNCHANGED torn

SceneItemReorder(sc, order) ==
    /\ Call
    /\ CanReorder(graph, sc, order)
    /\ LET g == ReorderItems(graph, sc, order)
       IN  IF ReorderRefused(graph, sc, order)
           THEN NoRefresh(g, mixer) /\ torn' = torn \cup {sc}
           ELSE Refresh(g, mixer) /\ torn' = torn \ {sc}
    /\ UNCHANGED workers

-----------------------------------------------------------------------------
(* filter.* and audio.*                                                    *)

FilterAdd(s, f, on) ==
    /\ s \in DOMAIN graph.sources /\ ~ HasFilter(graph.sources[s], f)
    /\ Refresh(AddFilter(graph, s, f, on), mixer)
\* Mutant: the refresh is forgotten.
FilterUpdateUnseen(s, f, on) ==
    /\ s \in DOMAIN graph.sources /\ HasFilter(graph.sources[s], f)
    /\ NoRefresh(UpdateFilter(graph, s, f, on), mixer)
FilterUpdate(s, f, on) ==
    /\ s \in DOMAIN graph.sources /\ HasFilter(graph.sources[s], f)
    /\ Refresh(UpdateFilter(graph, s, f, on), mixer)
FilterRemove(s, f) ==
    /\ s \in DOMAIN graph.sources /\ HasFilter(graph.sources[s], f)
    /\ Refresh(RemoveFilter(graph, s, f), mixer)
SceneFilterAdd(sc, f, on) ==
    /\ sc \in DOMAIN graph.scenes /\ ~ HasFilter(graph.scenes[sc], f)
    /\ Refresh(AddSceneFilter(graph, sc, f, on), mixer)
SceneFilterUpdate(sc, f, on) ==
    /\ sc \in DOMAIN graph.scenes /\ HasFilter(graph.scenes[sc], f)
    /\ Refresh(UpdateSceneFilter(graph, sc, f, on), mixer)
SceneFilterRemove(sc, f) ==
    /\ sc \in DOMAIN graph.scenes /\ HasFilter(graph.scenes[sc], f)
    /\ Refresh(RemoveSceneFilter(graph, sc, f), mixer)

AudioSetSource(s, b) ==
    /\ s \in DOMAIN graph.sources
    /\ LET g == [graph EXCEPT !.sources[s].audio = b]
       IN  NoRefresh(g, SetSourceState(g, s, mixer))
AudioSetSceneItem(sc, id, b) ==
    /\ HasItem(graph, sc, id)
    /\ LET s == graph.scenes[sc].items[FindItem(graph, sc, id)].src
       IN  Refresh(UpdateItemAudio(graph, sc, id, b), SetSceneItemState(s, b, mixer))

Adjust ==
    /\ Call
    /\ \/ \E s \in Source, f \in Filter :
            \/ \E on \in BOOLEAN : FilterAdd(s, f, on) \/ FilterUpdate(s, f, on)
            \/ FilterRemove(s, f)
       \/ \E sc \in Scene, f \in Filter :
            \/ \E on \in BOOLEAN : SceneFilterAdd(sc, f, on) \/ SceneFilterUpdate(sc, f, on)
            \/ SceneFilterRemove(sc, f)
       \/ \E s \in Source, b \in AudioBinding : AudioSetSource(s, b)
       \/ \E sc \in Scene, id \in Item, b \in AudioBinding : AudioSetSceneItem(sc, id, b)
    /\ UNCHANGED <<workers, torn>>

-----------------------------------------------------------------------------
Orders(sc) == [DOMAIN graph.scenes[sc].items -> Item \cup {AutoId}]

Next ==
    \/ \E s \in Source, kind \in Kinds : SourceCreate(s, kind)
    \/ \E s \in Source, enabled, keep, config \in BOOLEAN :
          SourceUpdate(s, enabled, keep, config)
    \/ \E s \in Source : SourceRemove(s) \/ SourceStart(s) \/ SourceStop(s)
    \/ \E sc \in Scene : SceneCreate(sc) \/ SceneRemove(sc)
    \/ \E sc \in Scene, t \in Transition \cup {NONE} : SceneSetActive(sc, t)
    \/ \E sc \in Scene \cup {NONE} : SceneSetPreview(sc)
    \/ \E t \in Transition \cup {NONE} : SceneTransitionToPreview(t)
    \/ \E t \in Transition, duration \in {0, 2000} : SceneTransitionUpdate(t, duration)
    \/ \E sc \in Scene, s \in Source, id \in Item \cup {AutoId}, z \in Depth, shown \in BOOLEAN :
          SceneItemAdd(sc, s, id, z, shown)
    \/ \E sc \in Scene, id \in Item \cup {AutoId}, z \in Depth, shown \in BOOLEAN :
          SceneItemUpdate(sc, id, z, shown)
    \/ \E sc \in Scene, id \in Item \cup {AutoId} : SceneItemRemove(sc, id)
    \/ \E sc \in DOMAIN graph.scenes : \E order \in Orders(sc) : SceneItemReorder(sc, order)
    \/ Adjust

Spec == Init /\ [][Next]_vars

-----------------------------------------------------------------------------
(* The graph is sound after every sequence of calls: an item's source, the *)
(* active and the preview scene exist, whatever was removed since; and the *)
(* items of a scene are in the order of their z_order, which is the order  *)
(* they are drawn in, except in a scene whose last reorder was refused.    *)
GraphSound ==
    /\ \A sc \in DOMAIN graph.scenes :
          \A i \in DOMAIN graph.scenes[sc].items :
             graph.scenes[sc].items[i].src \in DOMAIN graph.sources
    /\ graph.active = NONE <=> DOMAIN graph.scenes = {}
    /\ graph.active # NONE => graph.active \in DOMAIN graph.scenes
    /\ graph.preview # NONE => graph.preview \in DOMAIN graph.scenes
    /\ \A sc \in DOMAIN graph.scenes \ torn : ItemsSorted(graph.scenes[sc].items)

(* The supervisor and the graph agree: exactly the running video sources   *)
(* have a worker's entry (an entry that outlived its source would go on    *)
(* publishing into the freed frame slot), and a worker whose frames are    *)
(* dropped is one that no item of any scene shows.                         *)
WorkersMatchGraph ==
    /\ DOMAIN workers = Entries(graph)
    /\ \A s \in DOMAIN workers : workers[s] => SourceRefs(graph, s) = {}

(* After every call the compositor has been handed the active scene as it  *)
(* is: no handler that changes what is seen forgets the refresh; and no    *)
(* item it was handed, of the scene it leaves included, has the frame slot *)
(* of a source that is gone.                                               *)
PushedIsCurrent ==
    /\ pushed.items = CompItems(graph, graph.active)
    /\ \A its \in {pushed.items, pushed.previous} :
          \A i \in DOMAIN its : its[i].slot \in DOMAIN graph.sources

(* Only what is on air is heard: a branch whose sound goes into the mix    *)
(* belongs to a source that the active scene shows with its audio enabled, *)
(* whatever was enabled, switched or hidden since; and not to one that the *)
(* scene mutes, unless the source's own binding sounds: a call on the      *)
(* source lifts the scene's mute until the next refresh.  (Without an      *)
(* active scene a new branch is heard.)                                    *)
HeardIsOnAir ==
    graph.active # NONE =>
        \A s \in DOMAIN mixer : mixer[s].heard =>
            /\ Bound(graph, s)
            /\ Unsilenced(graph, s) \/ Sounds(graph.sources[s].audio)
=============================================================================
