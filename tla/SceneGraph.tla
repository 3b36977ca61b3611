----------------------------- MODULE SceneGraph -----------------------------
(***************************************************************************)
(* The scene graph of one instance (scene_graph.c) as a value, and the     *)
(* operations on it as operators that return the graph after a call.  An   *)
(* operation's conditions are the predicate named Can...: a call that does *)
(* not meet them returns an error and leaves the graph alone (the one that *)
(* does not, ReorderItems, says so).                                       *)
(*                                                                         *)
(* A graph is a record:                                                    *)
(*   sources      source id -> its state;                                  *)
(*   scenes       scene id -> its item array and its filters;              *)
(*   outputs      output id -> its state;                                  *)
(*   transitions  transition id -> kind and duration;                      *)
(*   active, preview, deflt   the active scene, the preview scene and the  *)
(*                default transition, or NONE;                             *)
(*   runtime      transition_runtime;                                      *)
(*   canvas       the canvas (size, rate and colour are one value).        *)
(* Names, transforms, crops, volumes and filter parameters are data that   *)
(* no operation looks at; of an item's position only z_order is kept, of a *)
(* filter its being enabled, of an audio binding its being enabled and its *)
(* being muted.                                                            *)
(*                                                                         *)
(* The modules that change the graph share the variable that holds it and  *)
(* the ids that clients use, and count the calls they make.                *)
(***************************************************************************)
EXTENDS Integers, FiniteSets, Sequences, Functions, SequencesExt

Kinds == {"test", "capture", "alsa"}   \* capture: v4l2src and vfmcap
AutoId == 0                            \* "item-auto": the id of an unnamed item
Transition == {"cut", "fade"}
Duration == {0, 500, 2000}             \* milliseconds

CONSTANTS
    NONE,                 \* a NULL id
    Source, Scene, Item,  \* ids a client may use; items are naturals
    MaxCalls              \* calls clients make (a bound)

ASSUME ItemAssumption == Item \subseteq Nat \ {AutoId}
ASSUME NoneAssumption == NONE \notin Source \cup Scene \cup Transition
ASSUME CallsAssumption == MaxCalls \in Nat

VARIABLES
    graph,    \* the scene graph of the instance
    calls     \* calls made so far

-----------------------------------------------------------------------------
(* Tables.                                                                 *)

NoEntries == [x \in {} |-> NONE]
\* str_map_set, g_hash_table_insert.
Put(f, x, v) == [y \in DOMAIN f \cup {x} |-> IF y = x THEN v ELSE f[y]]
\* g_hash_table_remove.
Drop(f, x) == Restrict(f, DOMAIN f \ {x})

-----------------------------------------------------------------------------
(* Values.                                                                 *)

\* Of a source or of an item; it may be both enabled and muted.
AudioBinding == [on : BOOLEAN, mute : BOOLEAN]
NoAudio == [on |-> FALSE, mute |-> FALSE]
Sounds(b) == b.on /\ ~ b.mute

NewSource(kind, keep) ==
    [kind |-> kind, enabled |-> TRUE, keep |-> keep, filters |-> NoEntries,
     audio |-> NoAudio, running |-> FALSE, muted |-> FALSE]

NewScene == [items |-> <<>>, filters |-> NoEntries]

NewOutput(codec, auto) ==
    [codec |-> codec, auto |-> auto, running |-> FALSE]

NewRuntime == [from |-> NONE, to |-> NONE, id |-> NONE, active |-> FALSE]

\* sbs_scene_graph_new_default: two transitions, no source, scene or output.
NewDefault(canvas) ==
    [sources |-> NoEntries, scenes |-> NoEntries, outputs |-> NoEntries,
     transitions |-> [t \in Transition |-> IF t = "cut" THEN 0 ELSE 2000],
     active |-> NONE, preview |-> NONE, deflt |-> "fade",
     runtime |-> NewRuntime, canvas |-> canvas]

-----------------------------------------------------------------------------
(* Items.  The array is kept sorted by z_order, then by id; it is drawn in *)
(* the order of the array.                                                 *)

ItemBefore(a, b) == a.z < b.z \/ (a.z = b.z /\ a.id < b.id)
ItemsSorted(s) == \A i, j \in 1 .. Len(s) : i < j => ~ ItemBefore(s[j], s[i])

\* The places D of s, listed in the order R.
Place(D, R, i) == Cardinality({j \in D : <<j, i>> \in R})
Listed(s, D, R) ==
    [k \in 1 .. Cardinality(D) |-> s[CHOOSE i \in D : Place(D, R, i) = k]]

\* The sort is stable.  Taking elements out leaves the others as they were.
SortOrder(s) ==
    {p \in (DOMAIN s) \X (DOMAIN s) :
        \/ ItemBefore(s[p[1]], s[p[2]])
        \/ ~ ItemBefore(s[p[2]], s[p[1]]) /\ p[1] <= p[2]}
ArrayOrder(s) == {p \in (DOMAIN s) \X (DOMAIN s) : p[1] <= p[2]}
SortItems(s) == Listed(s, DOMAIN s, SortOrder(s))
WithoutSource(s, src) == Listed(s, {i \in DOMAIN s : s[i].src # src}, ArrayOrder(s))

\* The index of the first item with an id, or 0.
FindItem(g, sc, id) == SelectInSeq(g.scenes[sc].items, LAMBDA it : it.id = id)
HasItem(g, sc, id) == sc \in DOMAIN g.scenes /\ FindItem(g, sc, id) # 0

\* sbs_scene_graph_count_source_refs.
SourceRefs(g, src) ==
    {r \in UNION {{sc} \X DOMAIN g.scenes[sc].items : sc \in DOMAIN g.scenes} :
        g.scenes[r[1]].items[r[2]].src = src}

WithItems(g, sc, s) == [g EXCEPT !.scenes[sc].items = s]

-----------------------------------------------------------------------------
(* Sources.                                                                *)

CreateSource(g, src, kind, keep) ==
    [g EXCEPT !.sources = Put(@, src, NewSource(kind, keep))]

UpdateSource(g, src, enabled, keep) ==
    [g EXCEPT !.sources[src].enabled = enabled, !.sources[src].keep = keep]

\* Mutant: the items that show it stay.
RemoveSourceOnly(g, src) == [g EXCEPT !.sources = Drop(@, src)]

\* Its items are taken out of every scene.
RemoveSource(g, src) ==
    [g EXCEPT !.sources = Drop(@, src),
              !.scenes = [sc \in DOMAIN g.scenes |->
                  [g.scenes[sc] EXCEPT !.items = WithoutSource(@, src)]]]

-----------------------------------------------------------------------------
(* Scenes.                                                                 *)

\* The first scene becomes the active one.
CreateScene(g, sc) ==
    [g EXCEPT !.scenes = Put(@, sc, NewScene),
              !.active = IF @ = NONE THEN sc ELSE @]

CanRemoveScene(g, sc) == sc \in DOMAIN g.scenes /\ g.active # sc
RemoveScene(g, sc) ==
    [g EXCEPT !.scenes = Drop(@, sc),
              !.preview = IF @ = sc THEN NONE ELSE @]

CanAddItem(g, sc, src, id) ==
    /\ sc \in DOMAIN g.scenes
    /\ src \in DOMAIN g.sources
    /\ id # AutoId => ~ HasItem(g, sc, id)

\* An unnamed item is not compared with the others: two may share "item-auto".
AddItem(g, sc, src, id, z, shown, audio) ==
    WithItems(g, sc, SortItems(Append(g.scenes[sc].items,
        [id |-> id, src |-> src, z |-> z, shown |-> shown, audio |-> audio])))

UpdateItem(g, sc, id, z, shown) ==
    WithItems(g, sc, SortItems([g.scenes[sc].items EXCEPT
        ![FindItem(g, sc, id)].z = z, ![FindItem(g, sc, id)].shown = shown]))

UpdateItemAudio(g, sc, id, audio) ==
    WithItems(g, sc, [g.scenes[sc].items EXCEPT ![FindItem(g, sc, id)].audio = audio])

\* seed_default_graph: a test source with audio, a scene and an item.
Seeded(canvas, src, sc, id) ==
    LET on == [NoAudio EXCEPT !.on = TRUE]
        g == CreateScene(CreateSource(NewDefault(canvas), src, "test", FALSE), sc)
    IN  AddItem([g EXCEPT !.sources[src].audio = on], sc, src, id, 0, TRUE, on)

RemoveItem(g, sc, id) ==
    WithItems(g, sc, RemoveAt(g.scenes[sc].items, FindItem(g, sc, id)))

\* The items named before the first unknown name get their z_order, the later
\* ones keep theirs; the array is sorted only if every name was known.
Renumbered(s, order, n) ==
    LET Named(i) == {k \in 1 .. n : SelectInSeq(s, LAMBDA it : it.id = order[k]) = i}
    IN  [i \in DOMAIN s |->
            IF Named(i) = {} THEN s[i]
            ELSE [s[i] EXCEPT !.z = 10 * ((CHOOSE k \in Named(i) :
                                              \A l \in Named(i) : l <= k) - 1)]]

FirstUnknown(g, sc, order) == SelectInSeq(order, LAMBDA id : FindItem(g, sc, id) = 0)
CanReorder(g, sc, order) ==
    sc \in DOMAIN g.scenes /\ Len(order) = Len(g.scenes[sc].items)
ReorderRefused(g, sc, order) == FirstUnknown(g, sc, order) # 0
ReorderItems(g, sc, order) ==
    LET s == g.scenes[sc].items
        bad == FirstUnknown(g, sc, order)
    IN  WithItems(g, sc, IF bad = 0 THEN SortItems(Renumbered(s, order, Len(order)))
                         ELSE Renumbered(s, order, bad - 1))

-----------------------------------------------------------------------------
(* Filters of a source and of a scene.                                     *)

\* filter_array_find, of a source or a scene.
HasFilter(x, f) == f \in DOMAIN x.filters

AddFilter(g, src, f, on) == [g EXCEPT !.sources[src].filters = Put(@, f, on)]
UpdateFilter(g, src, f, on) == [g EXCEPT !.sources[src].filters[f] = on]
RemoveFilter(g, src, f) == [g EXCEPT !.sources[src].filters = Drop(@, f)]
AddSceneFilter(g, sc, f, on) == [g EXCEPT !.scenes[sc].filters = Put(@, f, on)]
UpdateSceneFilter(g, sc, f, on) == [g EXCEPT !.scenes[sc].filters[f] = on]
RemoveSceneFilter(g, sc, f) == [g EXCEPT !.scenes[sc].filters = Drop(@, f)]

-----------------------------------------------------------------------------
(* Outputs and transitions.                                                *)

CreateOutput(g, o, codec, auto) ==
    [g EXCEPT !.outputs = Put(@, o, NewOutput(codec, auto))]
RemoveOutput(g, o) == [g EXCEPT !.outputs = Drop(@, o)]

\* A transition's kind is its id; no call changes it.
UpdateTransition(g, t, duration) == [g EXCEPT !.transitions[t] = duration]

\* The transition a switch uses: the one asked for, else the default.
Resolved(g, t) == IF t # NONE THEN t ELSE g.deflt

CanSetActive(g, sc, t) ==
    /\ sc \in DOMAIN g.scenes
    /\ Resolved(g, t) \in DOMAIN g.transitions \cup {NONE}

\* start_time_us is now; the switch is gradual unless it is a cut.
SetActiveScene(g, sc, t) ==
    LET r == Resolved(g, t)
    IN  [g EXCEPT !.active = sc,
                  !.runtime = [from |-> g.active, to |-> sc, id |-> r,
                               active |-> /\ r \notin {NONE, "cut"}
                                          /\ g.transitions[r] > 0]]

SetPreviewScene(g, sc) == [g EXCEPT !.preview = sc]

\* update_transition_runtime once the duration has passed.
TransitionOver(g) == [g EXCEPT !.runtime.active = FALSE]

-----------------------------------------------------------------------------
(* What the compositor is given: the items of the active scene in the      *)
(* order of the array, and during a switch those of the scene it leaves.   *)

Look(g, sc, src) ==
    {f \in DOMAIN g.sources[src].filters : g.sources[src].filters[f]}
        \cup {f \in DOMAIN g.scenes[sc].filters : g.scenes[sc].filters[f]}

\* fill_comp_item: the frame slot is the source's own.
CompItem(g, sc, it) ==
    [src |-> it.src, shown |-> it.shown,
     slot |-> IF it.src \in DOMAIN g.sources THEN it.src ELSE NONE,
     look |-> IF it.src \in DOMAIN g.sources THEN Look(g, sc, it.src) ELSE {}]

CompItems(g, sc) ==
    IF sc \notin DOMAIN g.scenes THEN <<>>
    ELSE [i \in DOMAIN g.scenes[sc].items |-> CompItem(g, sc, g.scenes[sc].items[i])]

BuildCompositorState(g) ==
    [items |-> CompItems(g, g.active),
     previous |-> IF g.runtime.active THEN CompItems(g, g.runtime.from) ELSE <<>>]

=============================================================================
