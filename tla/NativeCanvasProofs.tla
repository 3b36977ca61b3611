------------------------- MODULE NativeCanvasProofs -------------------------
(***************************************************************************)
(* Proofs about NativeCanvas, for rings of any size and any finite number  *)
(* of lease variables.                                                     *)
(*                                                                         *)
(* RefcountExact and HeldIsStable are not inductive: that a reference is   *)
(* given back once rests on the compositor thread's local variables        *)
(* (PublishOK), that a held entry stays READY on native_canvas_acquire     *)
(* testing the exact reference count, that the preview ring can be zeroed  *)
(* on nobody leasing it (QuietOK), and that a READY entry is out of the    *)
(* GPU's hands on what the queue holds (QueueOK).                          *)
(***************************************************************************)
EXTENDS NativeCanvas, FiniteSetTheorems, TLAPS

\* Local variables of the compositor thread, and the shape of a teardown.
PublishOK ==
    /\ lastRendered["canvas"] # NoEntry
    /\ pc \in {"ref", "swap", "unref"} => pubEntry \in Entry /\ pubs # << >>
    /\ pc = "swap" <=> hold["publishing"] # NoEntry
    /\ pc = "unref" <=> hold["dropped"] # NoEntry
    /\ pc \in {"wait", "destroy"} => previewOn
    /\ pc = "create" => ~previewOn

\* What is in the GPU's queue is being rendered and unsignaled, once.
QueueOK ==
    /\ \A k \in 1 .. Len(gpuQueue) : /\ state[gpuQueue[k]] = "RENDERING"
                                     /\ ~fence[gpuQueue[k]]
    /\ \A j, k \in 1 .. Len(gpuQueue) : gpuQueue[j] = gpuQueue[k] => j = k
    /\ pc \in {"wait", "destroy"} => gpuQueue = << >>
    /\ ~previewOn => \A k \in 1 .. Len(gpuQueue) : gpuQueue[k] \in CanvasEntry

ReadyOK == \A e \in Entry : state[e] = "READY" => fence[e]

HeldOK == \A e \in Entry : Guarded(e) /\ Held(e) => state[e] = "READY"

\* While there is no preview ring, and when it is about to be zeroed, nobody
\* leases one of its entries.
QuietOK ==
    ~timedOut /\ (~previewOn \/ pc = "destroy") =>
        \A p \in Place : hold[p] \notin PreviewEntry

IInv ==
    /\ TypeOK
    /\ PublishOK
    /\ QueueOK
    /\ ReadyOK
    /\ RefcountExact
    /\ HeldOK
    /\ QuietOK

-----------------------------------------------------------------------------
(* Counting holders.                                                       *)

Holders(h, e) == {p \in Place : h[p] = e}

\* The places are finitely many, so holders can be counted.
LEMMA HoldersFinite ==
    ASSUME NEW h, NEW e
    PROVE  /\ IsFiniteSet(Holders(h, e))
           /\ Cardinality(Holders(h, e)) \in Nat
           /\ Cardinality(Holders(h, e)) = 0 <=> \A p \in Place : h[p] # e
<1>1. IsFiniteSet(Mailbox \cup LocalPlace)
    <2>1. IsFiniteSet({}) BY FS_EmptySet
    <2>2. IsFiniteSet({"OUTPUT", "SNAPSHOT", "PREVIEW", "transition",
                       "publishing", "dropped"})
        <3>1. IsFiniteSet({} \cup {"OUTPUT"}) BY <2>1, FS_AddElement
        <3>2. IsFiniteSet(({} \cup {"OUTPUT"}) \cup {"SNAPSHOT"})
            BY <3>1, FS_AddElement
        <3>3. IsFiniteSet((({} \cup {"OUTPUT"}) \cup {"SNAPSHOT"})
                            \cup {"PREVIEW"})
            BY <3>2, FS_AddElement
        <3>4. IsFiniteSet(((({} \cup {"OUTPUT"}) \cup {"SNAPSHOT"})
                            \cup {"PREVIEW"}) \cup {"transition"})
            BY <3>3, FS_AddElement
        <3>5. IsFiniteSet((((({} \cup {"OUTPUT"}) \cup {"SNAPSHOT"})
                            \cup {"PREVIEW"}) \cup {"transition"})
                            \cup {"publishing"})
            BY <3>4, FS_AddElement
        <3>6. IsFiniteSet(((((({} \cup {"OUTPUT"}) \cup {"SNAPSHOT"})
                            \cup {"PREVIEW"}) \cup {"transition"})
                            \cup {"publishing"}) \cup {"dropped"})
            BY <3>5, FS_AddElement
        <3>7. {"OUTPUT", "SNAPSHOT", "PREVIEW", "transition", "publishing",
               "dropped"} =
              ((((({} \cup {"OUTPUT"}) \cup {"SNAPSHOT"}) \cup {"PREVIEW"})
                \cup {"transition"}) \cup {"publishing"}) \cup {"dropped"}
            OBVIOUS
        <3> QED BY <3>6, <3>7
    <2>3. Mailbox \cup LocalPlace =
          {"OUTPUT", "SNAPSHOT", "PREVIEW", "transition", "publishing",
           "dropped"}
        BY DEF Mailbox, LocalPlace
    <2> QED BY <2>2, <2>3
<1>2. IsFiniteSet(Place)
    BY <1>1, HolderFinite, FS_Union DEF Place
<1>3. IsFiniteSet(Holders(h, e))
    BY <1>2, FS_Subset DEF Holders
<1>4. Cardinality(Holders(h, e)) \in Nat
    BY <1>3, FS_CardinalityType
<1>5. Cardinality(Holders(h, e)) = 0 <=> Holders(h, e) = {}
    BY <1>3, FS_EmptySet
<1> QED BY <1>3, <1>4, <1>5 DEF Holders

\* Filling an empty place adds one holder to the entry and none to others.
LEMMA HoldersAssign ==
    ASSUME NEW h \in [Place -> Entry \cup {NoEntry}], NEW p \in Place,
           NEW v \in Entry, h[p] = NoEntry, NEW e \in Entry
    PROVE  Cardinality(Holders([h EXCEPT ![p] = v], e)) =
           Cardinality(Holders(h, e)) + (IF e = v THEN 1 ELSE 0)
<1> DEFINE g == [h EXCEPT ![p] = v]
<1>1. NoEntry \notin Entry BY NoEntryAssumption
<1>2. CASE e = v
    <2>1. Holders(g, e) = Holders(h, e) \cup {p} BY <1>2 DEF Holders
    <2>2. p \notin Holders(h, e) BY <1>1 DEF Holders
    <2> QED BY <1>2, <2>1, <2>2, HoldersFinite, FS_AddElement, ZenonT(60)
<1>3. CASE e # v
    <2>1. Holders(g, e) = Holders(h, e) BY <1>1, <1>3 DEF Holders
    <2> QED BY <1>3, <2>1, HoldersFinite
<1> QED BY <1>2, <1>3

\* Emptying a place takes one holder from the entry it held.
LEMMA HoldersClear ==
    ASSUME NEW h \in [Place -> Entry \cup {NoEntry}], NEW p \in Place,
           h[p] \in Entry, NEW e \in Entry
    PROVE  Cardinality(Holders([h EXCEPT ![p] = NoEntry], e)) =
           Cardinality(Holders(h, e)) - (IF e = h[p] THEN 1 ELSE 0)
<1> DEFINE g == [h EXCEPT ![p] = NoEntry]
<1>1. g \in [Place -> Entry \cup {NoEntry}] /\ g[p] = NoEntry OBVIOUS
<1>2. h = [g EXCEPT ![p] = h[p]] OBVIOUS
<1>3. Cardinality(Holders([g EXCEPT ![p] = h[p]], e)) =
      Cardinality(Holders(g, e)) + (IF e = h[p] THEN 1 ELSE 0)
    BY <1>1, HoldersAssign, ZenonT(60)
<1>4. Cardinality(Holders(g, e)) \in Nat /\ Cardinality(Holders(h, e)) \in Nat
    BY HoldersFinite
<1>5. Cardinality(Holders(h, e)) =
      Cardinality(Holders(g, e)) + (IF e = h[p] THEN 1 ELSE 0)
    BY <1>2, <1>3
<1> QED BY <1>4, <1>5

\* Moving a lease into an empty place changes no count.
LEMMA HoldersMove ==
    ASSUME NEW h \in [Place -> Entry \cup {NoEntry}],
           NEW p \in Place, NEW q \in Place, p # q, h[q] = NoEntry,
           NEW e \in Entry
    PROVE  Cardinality(Holders([h EXCEPT ![q] = h[p], ![p] = NoEntry], e)) =
           Cardinality(Holders(h, e))
<1> DEFINE g == [h EXCEPT ![p] = NoEntry]
           f == [h EXCEPT ![q] = h[p], ![p] = NoEntry]
<1>1. CASE h[p] = NoEntry
    <2>1. f = h BY <1>1
    <2> QED BY <2>1
<1>2. CASE h[p] # NoEntry
    <2>1. h[p] \in Entry BY <1>2
    <2>2. g \in [Place -> Entry \cup {NoEntry}] /\ g[q] = NoEntry OBVIOUS
    <2>3. f = [g EXCEPT ![q] = h[p]] OBVIOUS
    <2>4. Cardinality(Holders([g EXCEPT ![q] = h[p]], e)) =
          Cardinality(Holders(g, e)) + (IF e = h[p] THEN 1 ELSE 0)
        <3> HIDE DEF g
        <3> QED BY <2>1, <2>2, HoldersAssign, ZenonT(60)
    <2>5. Cardinality(Holders(g, e)) =
          Cardinality(Holders(h, e)) - (IF e = h[p] THEN 1 ELSE 0)
        BY <2>1, HoldersClear
    <2>6. Cardinality(Holders(h, e)) \in Nat BY HoldersFinite
    <2>7. Cardinality(Holders([g EXCEPT ![q] = h[p]], e)) =
          Cardinality(Holders(h, e))
        BY <2>4, <2>5, <2>6
    <2> QED BY <2>3, <2>7
<1> QED BY <1>1, <1>2

-----------------------------------------------------------------------------
(* Facts about entries and places.                                         *)

\* The entries of the two rings are distinct pairs and none is NoEntry.
LEMMA EntryFacts ==
    /\ CanvasEntry \subseteq Entry /\ PreviewEntry \subseteq Entry
    /\ \A e \in Entry : e \in PreviewEntry <=> e \notin CanvasEntry
    /\ \A e \in Entry : e[1] \in Ring /\ e[2] \in Index(e[1])
    /\ \A i \in Index("canvas") : <<"canvas", i>> \in CanvasEntry
    /\ \A i \in Index("preview") : <<"preview", i>> \in PreviewEntry
    /\ NoEntry \notin Entry
    /\ \A r \in Ring : /\ Size(r) \in Nat \ {0} /\ 0 \in Index(r)
                       /\ Index(r) \subseteq Nat /\ NoEntry \notin Index(r)
                       /\ \A i \in Nat : i % Size(r) \in Index(r)
<1>1. \A r \in Ring : Size(r) \in Nat \ {0}
    BY SizeAssumption DEF Size
<1>2. \A n \in Nat \ {0} : \A i \in Nat : i % n \in 0 .. (n - 1)
    OBVIOUS
<1>3. \A r \in Ring : /\ 0 \in Index(r) /\ Index(r) \subseteq Nat
                      /\ NoEntry \notin Index(r)
                      /\ \A i \in Nat : i % Size(r) \in Index(r)
    BY <1>1, <1>2, NoEntryAssumption DEF Index
<1>4. "canvas" \in Ring /\ "preview" \in Ring /\ "canvas" # "preview"
    BY DEF Ring
<1> QED
    BY <1>1, <1>3, <1>4, NoEntryAssumption DEF Entry, CanvasEntry, PreviewEntry

\* The named places are places, distinct from one another and from Holder.
LEMMA PlaceFacts ==
    /\ Mailbox \subseteq Place /\ Holder \subseteq Place
    /\ "transition" \in Place /\ "publishing" \in Place /\ "dropped" \in Place
    /\ \A m \in Mailbox : m \notin {"transition", "publishing", "dropped"}
    /\ \A h \in Holder : h \notin Mailbox
    /\ \A h \in Holder : h \notin {"transition", "publishing", "dropped"}
    /\ "PREVIEW" \in Mailbox
BY HolderAssumption DEF Place, Mailbox, LocalPlace

-----------------------------------------------------------------------------
(* Types and the compositor thread's local variables.                      *)

\* The lists of mailboxes that mark_ready and republish_last publish to.
LEMMA MailboxLists ==
    /\ <<"OUTPUT", "SNAPSHOT">> \in Seq(Mailbox)
    /\ <<"PREVIEW">> \in Seq(Mailbox)
    /\ <<"OUTPUT", "SNAPSHOT">> # << >> /\ <<"PREVIEW">> # << >>
<1>1. "OUTPUT" \in Mailbox /\ "SNAPSHOT" \in Mailbox /\ "PREVIEW" \in Mailbox
    BY DEF Mailbox
<1>2. <<"OUTPUT", "SNAPSHOT">> \in Seq(Mailbox) BY <1>1
<1>3. <<"PREVIEW">> \in Seq(Mailbox) BY <1>1
<1>4. <<"OUTPUT", "SNAPSHOT">> # << >> OBVIOUS
<1>5. <<"PREVIEW">> # << >> OBVIOUS
<1> QED BY <1>2, <1>3, <1>4, <1>5

\* Submitting an acquired entry, or failing to, keeps the ring well typed.
LEMMA SubmitType ==
    ASSUME TypeOK, NEW e \in Entry,
           Submit(e) \/ \E reset \in BOOLEAN : FailedSubmit(e, reset)
    PROVE  /\ state' \in [Entry -> {"FREE", "RENDERING", "READY"}]
           /\ refcount' \in [Entry -> Nat]
           /\ fence' \in [Entry -> BOOLEAN]
           /\ writeIdx' \in [Ring -> Nat]
           /\ \A r \in Ring : writeIdx'[r] \in Index(r)
           /\ gpuQueue' \in Seq(Entry)
<1>1. state' \in [Entry -> {"FREE", "RENDERING", "READY"}]
    <2>1. state' = [state EXCEPT ![e] = "RENDERING"] \/
          state' = [state EXCEPT ![e] = "FREE"]
        BY DEF Submit, FailedSubmit
    <2> QED BY <2>1 DEF TypeOK
<1>2. refcount' \in [Entry -> Nat]
    <2>1. refcount' = [refcount EXCEPT ![e] = 0] BY DEF Submit, FailedSubmit
    <2> QED BY <2>1 DEF TypeOK
<1>3. fence' \in [Entry -> BOOLEAN]
    <2>1. fence' = [fence EXCEPT ![e] = FALSE] \/
          fence' = [fence EXCEPT ![e] = TRUE]
        BY DEF Submit, FailedSubmit
    <2> QED BY <2>1 DEF TypeOK
<1>4. gpuQueue' \in Seq(Entry)
    <2>1. gpuQueue' = Append(gpuQueue, e) \/ gpuQueue' = gpuQueue
        BY DEF Submit, FailedSubmit
    <2>2. gpuQueue \in Seq(Entry) BY DEF TypeOK
    <2>3. Append(gpuQueue, e) \in Seq(Entry) BY <2>2
    <2> QED BY <2>1, <2>2, <2>3
<1>5. /\ writeIdx' \in [Ring -> Nat]
      /\ \A r \in Ring : writeIdx'[r] \in Index(r)
    <2> DEFINE v == (e[2] + 1) % Size(e[1])
    <2>1. e[1] \in Ring /\ e[2] \in Nat BY EntryFacts
    <2>2. v \in Index(e[1]) /\ v \in Nat BY <2>1, EntryFacts
    <2>3. writeIdx' = [writeIdx EXCEPT ![e[1]] = v]
        BY DEF Submit, FailedSubmit
    <2> HIDE DEF v
    <2> QED BY <2>1, <2>2, <2>3 DEF TypeOK
<1> QED BY <1>1, <1>2, <1>3, <1>4, <1>5

\* Going on to the next mailbox keeps the publish variables well typed.
LEMMA NextMailboxType ==
    ASSUME TypeOK, PublishOK, pubs # << >>, pubEntry \in Entry, NextMailbox
    PROVE  /\ pc' \in {"ref", "poll", "republishPreview", "cmd"}
           /\ pubs' \in Seq(Mailbox)
           /\ pubEntry' \in Entry \cup {NoEntry}
           /\ after' \in {"poll", "republishPreview", "cmd"}
           /\ pc' = "ref" => pubEntry' \in Entry /\ pubs' # << >>
<1>1. Tail(pubs) \in Seq(Mailbox) BY DEF TypeOK
<1>2. after \in {"poll", "republishPreview", "cmd"} BY DEF TypeOK
<1> QED BY <1>1, <1>2 DEF NextMailbox

\* Every step of every thread keeps the types.
LEMMA TypeStep ==
    ASSUME TypeOK, PublishOK, [Next]_vars
    PROVE  TypeOK' /\ PublishOK'
<1> USE DEF threadVars, pubVars, historyVars, ringVars
<1>t. /\ hold \in [Place -> Entry \cup {NoEntry}]
      /\ refcount \in [Entry -> Nat]
      /\ state \in [Entry -> {"FREE", "RENDERING", "READY"}]
      /\ fence \in [Entry -> BOOLEAN]
      /\ lastRendered["canvas"] \in Index("canvas")
    BY DEF TypeOK, PublishOK, Ring
<1>r. \A p \in Place : Released(p) \in [Entry -> Nat]
    BY <1>t DEF Unref, Released
<1>1. CASE CaptureTransition
    <2> DEFINE last == <<"canvas", lastRendered["canvas"]>>
    <2>1. last \in Entry
        BY <1>t, EntryFacts
    <2>2. refcount' \in [Entry -> Nat]
        <3> DEFINE d == Released("transition")
        <3>1. d \in [Entry -> Nat] BY <1>r, PlaceFacts
        <3>2. refcount' = [d EXCEPT ![last] = @ + 1] \/ refcount' = d
            BY <1>1 DEF CaptureTransition
        <3> HIDE DEF d
        <3> QED BY <2>1, <3>1, <3>2
    <2>3. /\ hold' \in [Place -> Entry \cup {NoEntry}]
          /\ hold'["publishing"] = hold["publishing"]
          /\ hold'["dropped"] = hold["dropped"]
        <3>1. hold' = [hold EXCEPT !["transition"] = last] \/
              hold' = [hold EXCEPT !["transition"] = NoEntry]
            BY <1>1 DEF CaptureTransition
        <3> QED BY <1>t, <2>1, <3>1, PlaceFacts
    <2> QED BY <1>1, <2>2, <2>3 DEF CaptureTransition, TypeOK, PublishOK
<1>2. CASE ReleaseTransition
    <2>1. refcount' \in [Entry -> Nat]
        BY <1>2, <1>r, PlaceFacts DEF ReleaseTransition
    <2>2. /\ hold' \in [Place -> Entry \cup {NoEntry}]
          /\ hold'["publishing"] = hold["publishing"]
          /\ hold'["dropped"] = hold["dropped"]
        BY <1>2, <1>t, PlaceFacts DEF ReleaseTransition
    <2> QED BY <1>2, <2>1, <2>2 DEF ReleaseTransition, TypeOK, PublishOK
<1>3. CASE TeardownPreview
    <2>1. refcount' \in [Entry -> Nat]
        BY <1>3, <1>r, PlaceFacts DEF TeardownPreview
    <2>2. /\ hold' \in [Place -> Entry \cup {NoEntry}]
          /\ hold'["publishing"] = hold["publishing"]
          /\ hold'["dropped"] = hold["dropped"]
        BY <1>3, <1>t, PlaceFacts DEF TeardownPreview
    <2>3. fence' \in [Entry -> BOOLEAN]
        <3>1. \A e \in Entry : (fence[e] \/ Queued(e)) \in BOOLEAN
            BY <1>t DEF Queued
        <3> QED BY <1>3, <3>1 DEF TeardownPreview
    <2> QED BY <1>3, <2>1, <2>2, <2>3
            DEF TeardownPreview, TypeOK, PublishOK, PcValue
<1>4. CASE Frame
    BY <1>4 DEF Frame, BeginFrame, TypeOK, PublishOK, PcValue
<1>5. CASE WaitPreviewReleased
    BY <1>5 DEF WaitPreviewReleased, TypeOK, PublishOK, PcValue
<1>6. CASE WaitPreviewTimeout
    BY <1>6 DEF WaitPreviewTimeout, TypeOK, PublishOK, PcValue
<1>7. ASSUME NEW reconfigure \in BOOLEAN, DestroyPreview(reconfigure)
      PROVE  TypeOK' /\ PublishOK'
    <2>1. /\ state' \in [Entry -> {"FREE", "RENDERING", "READY"}]
          /\ refcount' \in [Entry -> Nat]
        BY <1>7, <1>t DEF DestroyPreview
    <2>2. /\ writeIdx' \in [Ring -> Nat]
          /\ \A r \in Ring : writeIdx'[r] \in Index(r)
          /\ lastRendered' \in [Ring -> Nat \cup {NoEntry}]
          /\ \A r \in Ring : lastRendered'[r] \in Index(r) \cup {NoEntry}
          /\ lastRendered'["canvas"] = lastRendered["canvas"]
        BY <1>7, EntryFacts DEF DestroyPreview, TypeOK, Ring
    <2> QED BY <1>7, <2>1, <2>2 DEF DestroyPreview, TypeOK, PublishOK, PcValue
<1>8. ASSUME NEW ok \in BOOLEAN, CreatePreview(ok)
      PROVE  TypeOK' /\ PublishOK'
    <2>1. /\ state' \in [Entry -> {"FREE", "RENDERING", "READY"}]
          /\ refcount' \in [Entry -> Nat]
        BY <1>8, <1>t DEF CreatePreview
    <2>2. /\ writeIdx' \in [Ring -> Nat]
          /\ \A r \in Ring : writeIdx'[r] \in Index(r)
          /\ lastRendered' \in [Ring -> Nat \cup {NoEntry}]
          /\ \A r \in Ring : lastRendered'[r] \in Index(r) \cup {NoEntry}
          /\ lastRendered'["canvas"] = lastRendered["canvas"]
        BY <1>8, EntryFacts DEF CreatePreview, TypeOK, Ring
    <2>3. fence' \in [Entry -> BOOLEAN]
        <3>1. \A e \in Entry : (e \in PreviewEntry \/ fence[e]) \in BOOLEAN
            BY <1>t
        <3> QED BY <1>8, <3>1 DEF CreatePreview
    <2> QED BY <1>8, <2>1, <2>2, <2>3
            DEF CreatePreview, TypeOK, PublishOK, PcValue
<1>9. CASE PollReady
    <2>1. PollEntry \in Entry
        <3>1. pollIdx \in Nat /\ pollIdx < CanvasSize + PreviewSize
            BY <1>9, SizeAssumption DEF PollReady, TypeOK
        <3>2. CASE pollIdx < CanvasSize
            <4>1. pollIdx \in Index("canvas")
                BY <3>1, <3>2, SizeAssumption DEF Index, Size
            <4> QED BY <3>2, <4>1, EntryFacts DEF PollEntry
        <3>3. CASE ~(pollIdx < CanvasSize)
            <4>1. pollIdx - CanvasSize \in Index("preview")
                BY <3>1, <3>3, SizeAssumption DEF Index, Size
            <4> QED BY <3>3, <4>1, EntryFacts DEF PollEntry
        <3> QED BY <3>2, <3>3
    <2> DEFINE e == PollEntry
    <2>2. pollIdx' \in 0 .. (CanvasSize + PreviewSize)
        BY <1>9, SizeAssumption DEF PollReady, TypeOK
    <2>3. CASE state[e] = "RENDERING" /\ fence[e]
        <3>1. /\ state' = [state EXCEPT ![e] = "READY"]
              /\ lastRendered' = [lastRendered EXCEPT ![e[1]] = e[2]]
              /\ pubEntry' = e
              /\ pubs' = IF e[1] = "canvas" THEN <<"OUTPUT", "SNAPSHOT">>
                                            ELSE <<"PREVIEW">>
              /\ after' = "poll" /\ pc' = "ref" /\ pc = "poll"
              /\ UNCHANGED <<refcount, fence, writeIdx, gpuQueue, previewOn,
                             hold, want, historyVars>>
            BY <1>9, <2>3 DEF PollReady
        <3>2. e[1] \in Ring /\ e[2] \in Index(e[1]) /\ e[2] \in Nat
            BY <2>1, EntryFacts
        <3> HIDE DEF e
        <3>3. state' \in [Entry -> {"FREE", "RENDERING", "READY"}]
            BY <3>1, <1>t
        <3>4. /\ lastRendered' \in [Ring -> Nat \cup {NoEntry}]
              /\ \A r \in Ring : lastRendered'[r] \in Index(r) \cup {NoEntry}
            BY <3>1, <3>2 DEF TypeOK
        <3>5. lastRendered'["canvas"] # NoEntry
            BY <1>t, <3>1, <3>2, EntryFacts DEF TypeOK, Ring
        <3>6. pubs' \in Seq(Mailbox) /\ pubs' # << >>
            BY <3>1, MailboxLists
        <3> QED BY <2>1, <2>2, <3>1, <3>3, <3>4, <3>5, <3>6
                DEF TypeOK, PublishOK, PcValue, e
    <2>4. CASE ~(state[e] = "RENDERING" /\ fence[e])
        BY <1>9, <2>2, <2>4 DEF PollReady, TypeOK, PublishOK
    <2> QED BY <2>3, <2>4
<1>10. CASE PollDone
    BY <1>10, SizeAssumption DEF PollDone, TypeOK, PublishOK, PcValue
<1>11. CASE PublishRef
    <2>1. pubEntry \in Entry /\ pubs # << >>
        BY <1>11 DEF PublishRef, PublishOK
    <2>2. CASE Lookup(pubEntry) /\ state[pubEntry] = "READY"
        <3>1. /\ refcount' = [refcount EXCEPT ![pubEntry] = @ + 1]
              /\ hold' = [hold EXCEPT !["publishing"] = pubEntry]
              /\ pc = "ref" /\ pc' = "swap"
              /\ UNCHANGED <<pubVars, state, fence, writeIdx, lastRendered,
                             gpuQueue, previewOn, want, pollIdx, historyVars>>
            BY <1>11, <2>2 DEF PublishRef
        <3>2. refcount' \in [Entry -> Nat] BY <1>t, <2>1, <3>1
        <3>3. /\ hold' \in [Place -> Entry \cup {NoEntry}]
              /\ hold'["publishing"] # NoEntry
              /\ hold'["dropped"] = hold["dropped"]
            BY <1>t, <2>1, <3>1, PlaceFacts, EntryFacts
        <3> QED BY <2>1, <3>1, <3>2, <3>3 DEF TypeOK, PublishOK, PcValue
    <2>3. CASE ~(Lookup(pubEntry) /\ state[pubEntry] = "READY")
        <3>1. NextMailbox /\ pc = "ref"
            BY <1>11, <2>3 DEF PublishRef
        <3>2. UNCHANGED <<refcount, hold, state, fence, writeIdx, lastRendered,
                          gpuQueue, previewOn, want, pollIdx, historyVars>>
            BY <1>11, <2>3 DEF PublishRef
        <3> QED BY <2>1, <3>1, <3>2, NextMailboxType
                DEF TypeOK, PublishOK, PcValue
    <2> QED BY <2>2, <2>3
<1>12. CASE PublishSwap
    <2>1. pubEntry \in Entry /\ pubs # << >> /\ pc = "swap"
        BY <1>12 DEF PublishSwap, PublishOK
    <2>2. Head(pubs) \in Mailbox
        BY <2>1 DEF TypeOK
    <2>3. /\ hold' \in [Place -> Entry \cup {NoEntry}]
          /\ hold'["publishing"] = NoEntry
          /\ hold'["dropped"] = hold[Head(pubs)]
        BY <1>12, <1>t, <2>2, PlaceFacts DEF PublishSwap
    <2>4. UNCHANGED <<ringVars, want, pollIdx, historyVars>>
        BY <1>12 DEF PublishSwap
    <2>5. CASE hold[Head(pubs)] = NoEntry
        <3>1. NextMailbox BY <1>12, <2>5 DEF PublishSwap
        <3> QED BY <2>1, <2>3, <2>4, <2>5, <3>1, NextMailboxType
                DEF TypeOK, PublishOK, PcValue
    <2>6. CASE hold[Head(pubs)] # NoEntry
        <3>1. pc' = "unref" /\ UNCHANGED pubVars
            BY <1>12, <2>6 DEF PublishSwap
        <3> QED BY <2>1, <2>3, <2>4, <2>6, <3>1 DEF TypeOK, PublishOK, PcValue
    <2> QED BY <2>5, <2>6
<1>13. CASE PublishUnref
    <2>1. pubEntry \in Entry /\ pubs # << >> /\ pc = "unref" /\ NextMailbox
        BY <1>13 DEF PublishUnref, PublishOK
    <2>2. refcount' \in [Entry -> Nat]
        BY <1>13, <1>r, PlaceFacts DEF PublishUnref
    <2>3. /\ hold' \in [Place -> Entry \cup {NoEntry}]
          /\ hold'["publishing"] = hold["publishing"]
          /\ hold'["dropped"] = NoEntry
        BY <1>13, <1>t, PlaceFacts DEF PublishUnref
    <2>4. UNCHANGED <<state, fence, writeIdx, lastRendered, gpuQueue,
                      previewOn, want, pollIdx, historyVars>>
        BY <1>13 DEF PublishUnref
    <2> QED BY <2>1, <2>2, <2>3, <2>4, NextMailboxType
            DEF TypeOK, PublishOK, PcValue
<1>14. CASE Republish
    <2>1. Last("canvas") \in Entry
        BY <1>t, EntryFacts DEF Last
    <2> QED BY <1>14, <2>1, MailboxLists
            DEF Republish, TypeOK, PublishOK, PcValue
<1>15. CASE RepublishFail
    BY <1>15 DEF RepublishFail, TypeOK, PublishOK, PcValue
<1>16. CASE RepublishPreview
    <2>1. Last("preview") \in Entry
        <3>1. lastRendered["preview"] \in Index("preview")
            BY <1>16 DEF RepublishPreview, Republishable, TypeOK, Ring
        <3> QED BY <3>1, EntryFacts DEF Last
    <2> QED BY <1>16, <2>1, MailboxLists
            DEF RepublishPreview, TypeOK, PublishOK, PcValue
<1>17. ASSUME NEW i \in Index("canvas"), RenderSubmit(i)
       PROVE  TypeOK' /\ PublishOK'
    <2>1. <<"canvas", i>> \in Entry BY EntryFacts
    <2>2. Submit(<<"canvas", i>>) BY <1>17 DEF RenderSubmit
    <2>3. newest' \in Index("canvas") \cup {NoEntry} BY <1>17 DEF RenderSubmit
    <2> QED BY <1>17, <2>1, <2>2, <2>3, SubmitType
            DEF RenderSubmit, TypeOK, PublishOK, PcValue
<1>18. ASSUME NEW i \in Index("canvas"), NEW reset \in BOOLEAN,
              RenderFail(i, reset)
       PROVE  TypeOK' /\ PublishOK'
    <2>1. <<"canvas", i>> \in Entry BY EntryFacts
    <2>2. FailedSubmit(<<"canvas", i>>, reset) BY <1>18 DEF RenderFail
    <2> QED BY <1>18, <2>1, <2>2, SubmitType
            DEF RenderFail, TypeOK, PublishOK, PcValue
<1>19. CASE RenderNoEntry
    BY <1>19 DEF RenderNoEntry, TypeOK, PublishOK, PcValue
<1>20. ASSUME NEW i \in Index("preview"), PreviewSubmit(i)
       PROVE  TypeOK' /\ PublishOK'
    <2>1. <<"preview", i>> \in Entry BY EntryFacts
    <2>2. Submit(<<"preview", i>>) BY <1>20 DEF PreviewSubmit
    <2> QED BY <1>20, <2>1, <2>2, SubmitType
            DEF PreviewSubmit, PreviewWanted, TypeOK, PublishOK, PcValue
<1>21. ASSUME NEW i \in Index("preview"), NEW reset \in BOOLEAN,
              PreviewFail(i, reset)
       PROVE  TypeOK' /\ PublishOK'
    <2>1. <<"preview", i>> \in Entry BY EntryFacts
    <2>2. FailedSubmit(<<"preview", i>>, reset) BY <1>21 DEF PreviewFail
    <2> QED BY <1>21, <2>1, <2>2, SubmitType
            DEF PreviewFail, PreviewWanted, TypeOK, PublishOK, PcValue
<1>22. CASE PreviewSkip
    BY <1>22 DEF PreviewSkip, PreviewWanted, TypeOK, PublishOK, PcValue
<1>23. CASE GpuComplete
    <2>1. /\ fence' \in [Entry -> BOOLEAN]
          /\ gpuQueue' \in Seq(Entry)
        BY <1>23 DEF GpuComplete, TypeOK
    <2> QED BY <1>23, <2>1 DEF GpuComplete, TypeOK, PublishOK
<1>24. ASSUME NEW m \in Mailbox, NEW h \in Holder, MailboxAcquire(m, h)
       PROVE  TypeOK' /\ PublishOK'
    <2>1. /\ hold' \in [Place -> Entry \cup {NoEntry}]
          /\ hold'["publishing"] = hold["publishing"]
          /\ hold'["dropped"] = hold["dropped"]
        BY <1>24, <1>t, PlaceFacts DEF MailboxAcquire
    <2> QED BY <1>24, <2>1 DEF MailboxAcquire, TypeOK, PublishOK
<1>25. ASSUME NEW h \in Holder, MailboxRelease(h)
       PROVE  TypeOK' /\ PublishOK'
    <2>1. /\ hold' \in [Place -> Entry \cup {NoEntry}]
          /\ hold'["publishing"] = hold["publishing"]
          /\ hold'["dropped"] = hold["dropped"]
        BY <1>25, <1>t, PlaceFacts DEF MailboxRelease
    <2>2. refcount' \in [Entry -> Nat]
        BY <1>25, <1>r, PlaceFacts DEF MailboxRelease
    <2> QED BY <1>25, <2>1, <2>2 DEF MailboxRelease, TypeOK, PublishOK
<1>26. CASE UNCHANGED vars
    BY <1>26 DEF vars, TypeOK, PublishOK
<1> QED
    BY <1>1, <1>2, <1>3, <1>4, <1>5, <1>6, <1>7, <1>8, <1>9, <1>10, <1>11,
       <1>12, <1>13, <1>14, <1>15, <1>16, <1>17, <1>18, <1>19, <1>20, <1>21,
       <1>22, <1>23, <1>24, <1>25, <1>26
       DEF Next, Command, Loop, Consumer

-----------------------------------------------------------------------------
(* The GPU's queue and the fences.                                         *)

\* Submitting an acquired entry, or failing to, keeps the queue facts.
LEMMA SubmitQueue ==
    ASSUME TypeOK, QueueOK, ReadyOK, NEW e \in Entry, Acquirable(e),
           e \in PreviewEntry => previewOn, pc \notin {"wait", "destroy"},
           pc' \notin {"wait", "destroy"}, previewOn' = previewOn,
           Submit(e) \/ \E reset \in BOOLEAN : FailedSubmit(e, reset)
    PROVE  QueueOK' /\ ReadyOK'
<1>1. fence[e] BY DEF Acquirable
<1>2. \A k \in 1 .. Len(gpuQueue) : gpuQueue[k] \in Entry /\ gpuQueue[k] # e
    BY <1>1 DEF QueueOK, TypeOK
<1>3. CASE Submit(e)
    <2>1. /\ state' = [state EXCEPT ![e] = "RENDERING"]
          /\ fence' = [fence EXCEPT ![e] = FALSE]
          /\ gpuQueue' = Append(gpuQueue, e)
        BY <1>3 DEF Submit
    <2>2. /\ Len(gpuQueue') = Len(gpuQueue) + 1 /\ Len(gpuQueue) \in Nat
          /\ \A k \in 1 .. Len(gpuQueue) : gpuQueue'[k] = gpuQueue[k]
          /\ gpuQueue'[Len(gpuQueue) + 1] = e
        BY <2>1 DEF TypeOK
    <2>3. \A k \in 1 .. Len(gpuQueue') :
              k \in 1 .. Len(gpuQueue) \/ k = Len(gpuQueue) + 1
        BY <2>2
    <2>4. \A k \in 1 .. Len(gpuQueue') :
              state'[gpuQueue'[k]] = "RENDERING" /\ ~fence'[gpuQueue'[k]]
        BY <1>2, <2>1, <2>2, <2>3 DEF QueueOK, TypeOK
    <2>5. \A j, k \in 1 .. Len(gpuQueue') : gpuQueue'[j] = gpuQueue'[k] => j = k
        BY <1>2, <2>2, <2>3 DEF QueueOK
    <2>6. ~previewOn' => \A k \in 1 .. Len(gpuQueue') : gpuQueue'[k] \in CanvasEntry
        BY <2>2, <2>3, EntryFacts DEF QueueOK
    <2>7. ReadyOK' BY <2>1 DEF ReadyOK, TypeOK
    <2> QED BY <2>4, <2>5, <2>6, <2>7 DEF QueueOK
<1>4. CASE \E reset \in BOOLEAN : FailedSubmit(e, reset)
    <2>1. /\ state' = [state EXCEPT ![e] = "FREE"]
          /\ fence' = [fence EXCEPT ![e] = TRUE] \/ fence' = [fence EXCEPT ![e] = FALSE]
          /\ gpuQueue' = gpuQueue
        BY <1>4 DEF FailedSubmit
    <2>2. \A k \in 1 .. Len(gpuQueue') :
              state'[gpuQueue'[k]] = "RENDERING" /\ ~fence'[gpuQueue'[k]]
        BY <1>2, <2>1 DEF QueueOK, TypeOK
    <2>3. ReadyOK' BY <2>1 DEF ReadyOK, TypeOK
    <2> QED BY <2>1, <2>2, <2>3 DEF QueueOK
<1> QED BY <1>3, <1>4

\* Every step keeps the facts about the GPU's queue and the fences.
LEMMA QueueStep ==
    ASSUME TypeOK, PublishOK, QueueOK, ReadyOK, [Next]_vars
    PROVE  QueueOK' /\ ReadyOK'
<1> USE DEF threadVars, pubVars, historyVars, ringVars
<1>1. CASE Command
    <2>1. CASE CaptureTransition \/ ReleaseTransition
        BY <2>1 DEF CaptureTransition, ReleaseTransition, QueueOK, ReadyOK
    <2>2. CASE TeardownPreview
        <3>1. \A e \in Entry : fence[e] => fence'[e]
            BY <2>2 DEF TeardownPreview
        <3>2. gpuQueue' = << >> /\ state' = state
            BY <2>2 DEF TeardownPreview
        <3> QED BY <3>1, <3>2 DEF QueueOK, ReadyOK
    <2> QED BY <1>1, <2>1, <2>2 DEF Command
<1>2. CASE \/ Frame \/ WaitPreviewReleased \/ WaitPreviewTimeout \/ PollDone
           \/ Republish \/ RepublishFail \/ RepublishPreview \/ RenderNoEntry
           \/ PreviewSkip
    <2>1. UNCHANGED <<state, fence, gpuQueue, previewOn>>
        BY <1>2 DEF Frame, BeginFrame, WaitPreviewReleased, WaitPreviewTimeout,
                    PollDone, Republish, RepublishFail, RepublishPreview,
                    RenderNoEntry, PreviewSkip
    <2>2. pc' \in {"wait", "destroy"} => pc \in {"wait", "destroy"}
        BY <1>2 DEF Frame, BeginFrame, WaitPreviewReleased, WaitPreviewTimeout,
                    PollDone, Republish, RepublishFail, RepublishPreview,
                    RenderNoEntry, PreviewSkip
    <2> QED BY <2>1, <2>2 DEF QueueOK, ReadyOK
<1>3. CASE PublishRef \/ PublishSwap \/ PublishUnref
    <2>1. UNCHANGED <<state, fence, gpuQueue, previewOn>>
        BY <1>3 DEF PublishRef, PublishSwap, PublishUnref
    <2>2. pc' \notin {"wait", "destroy"}
        BY <1>3 DEF PublishRef, PublishSwap, PublishUnref, NextMailbox, TypeOK
    <2> QED BY <2>1, <2>2 DEF QueueOK, ReadyOK
<1>4. ASSUME NEW reconfigure \in BOOLEAN, DestroyPreview(reconfigure)
      PROVE  QueueOK' /\ ReadyOK'
    <2>1. gpuQueue' = << >> /\ fence' = fence /\ pc' \notin {"wait", "destroy"}
        BY <1>4 DEF DestroyPreview, QueueOK
    <2>2. \A e \in Entry : state'[e] = "READY" => state[e] = "READY"
        BY <1>4 DEF DestroyPreview
    <2> QED BY <2>1, <2>2 DEF QueueOK, ReadyOK
<1>5. ASSUME NEW ok \in BOOLEAN, CreatePreview(ok)
      PROVE  QueueOK' /\ ReadyOK'
    <2>1. \A k \in 1 .. Len(gpuQueue) : gpuQueue[k] \in CanvasEntry
        BY <1>5 DEF CreatePreview, QueueOK
    <2>2. \A e \in CanvasEntry : e \in Entry /\ e \notin PreviewEntry
        BY EntryFacts
    <2>3. \A e \in CanvasEntry : state'[e] = state[e] /\ fence'[e] = fence[e]
        BY <1>5, <2>2 DEF CreatePreview, TypeOK
    <2>4. gpuQueue' = gpuQueue /\ pc' \notin {"wait", "destroy"}
        BY <1>5 DEF CreatePreview
    <2>5. QueueOK' BY <2>1, <2>3, <2>4 DEF QueueOK
    <2>6. \A e \in Entry : state'[e] = "READY" => state[e] = "READY"
        BY <1>5 DEF CreatePreview
    <2>7. \A e \in Entry : fence[e] => fence'[e]
        BY <1>5 DEF CreatePreview
    <2> QED BY <2>5, <2>6, <2>7 DEF ReadyOK
<1>6. CASE PollReady
    <2> DEFINE e == PollEntry
    <2>1. gpuQueue' = gpuQueue /\ fence' = fence /\ previewOn' = previewOn
          /\ pc' \notin {"wait", "destroy"}
        BY <1>6 DEF PollReady
    <2>2. CASE state[e] = "RENDERING" /\ fence[e]
        <3>1. state' = [state EXCEPT ![e] = "READY"]
            BY <1>6, <2>2 DEF PollReady
        <3>2. fence[e] BY <2>2
        <3> HIDE DEF e
        <3>3. \A k \in 1 .. Len(gpuQueue) :
                  gpuQueue[k] # e /\ gpuQueue[k] \in Entry
            BY <3>2 DEF QueueOK, TypeOK
        <3>4. QueueOK' BY <2>1, <3>1, <3>3 DEF QueueOK, TypeOK
        <3>5. ReadyOK' BY <2>1, <3>1, <3>2 DEF ReadyOK, TypeOK
        <3> QED BY <3>4, <3>5
    <2>3. CASE ~(state[e] = "RENDERING" /\ fence[e])
        BY <1>6, <2>1, <2>3 DEF PollReady, QueueOK, ReadyOK
    <2> QED BY <2>2, <2>3
<1>7. ASSUME NEW i \in Index("canvas"),
             RenderSubmit(i) \/ \E reset \in BOOLEAN : RenderFail(i, reset)
      PROVE  QueueOK' /\ ReadyOK'
    <2> DEFINE e == <<"canvas", i>>
    <2>1. e \in Entry /\ e \notin PreviewEntry BY EntryFacts
    <2>2. /\ Acquirable(e) /\ pc = "render" /\ pc' \in {"preview", "cmd"}
          /\ previewOn' = previewOn
          /\ Submit(e) \/ \E reset \in BOOLEAN : FailedSubmit(e, reset)
        BY <1>7 DEF RenderSubmit, RenderFail, Acquired
    <2> HIDE DEF e
    <2> QED BY <2>1, <2>2, SubmitQueue
<1>8. ASSUME NEW i \in Index("preview"),
             PreviewSubmit(i) \/ \E reset \in BOOLEAN : PreviewFail(i, reset)
      PROVE  QueueOK' /\ ReadyOK'
    <2> DEFINE e == <<"preview", i>>
    <2>1. e \in Entry BY EntryFacts
    <2>2. /\ Acquirable(e) /\ pc \in {"preview", "republishPreview"}
          /\ pc' = "cmd" /\ previewOn /\ previewOn' = previewOn
          /\ Submit(e) \/ \E reset \in BOOLEAN : FailedSubmit(e, reset)
        BY <1>8 DEF PreviewSubmit, PreviewFail, PreviewWanted, Acquired
    <2> HIDE DEF e
    <2> QED BY <2>1, <2>2, SubmitQueue
<1>9. CASE GpuComplete
    <2>1. /\ gpuQueue # << >>
          /\ fence' = [fence EXCEPT ![Head(gpuQueue)] = TRUE]
          /\ gpuQueue' = Tail(gpuQueue)
          /\ UNCHANGED <<state, previewOn, pc>>
        BY <1>9 DEF GpuComplete
    <2>2. /\ Len(gpuQueue) \in Nat \ {0} /\ Len(gpuQueue') = Len(gpuQueue) - 1
          /\ Head(gpuQueue) = gpuQueue[1]
          /\ \A k \in 1 .. Len(gpuQueue') : gpuQueue'[k] = gpuQueue[k + 1]
        BY <2>1 DEF TypeOK
    <2>3. \A k \in 1 .. Len(gpuQueue') : k + 1 \in 1 .. Len(gpuQueue) /\ k + 1 # 1
        BY <2>2
    <2>4. 1 \in 1 .. Len(gpuQueue) BY <2>2
    <2>5. \A k \in 1 .. Len(gpuQueue') :
              /\ gpuQueue'[k] \in Entry /\ gpuQueue'[k] # gpuQueue[1]
              /\ state'[gpuQueue'[k]] = "RENDERING" /\ ~fence'[gpuQueue'[k]]
        BY <2>1, <2>2, <2>3, <2>4 DEF QueueOK, TypeOK
    <2>6. \A j, k \in 1 .. Len(gpuQueue') : gpuQueue'[j] = gpuQueue'[k] => j = k
        BY <2>2, <2>3 DEF QueueOK
    <2>7. ~previewOn' => \A k \in 1 .. Len(gpuQueue') : gpuQueue'[k] \in CanvasEntry
        BY <2>1, <2>2, <2>3 DEF QueueOK
    <2>8. pc' \notin {"wait", "destroy"} BY <2>1 DEF QueueOK
    <2>9. ReadyOK'
        BY <2>1 DEF ReadyOK, TypeOK
    <2> QED BY <2>5, <2>6, <2>7, <2>8, <2>9 DEF QueueOK
<1>10. CASE Consumer
    BY <1>10 DEF Consumer, MailboxAcquire, MailboxRelease, QueueOK, ReadyOK
<1>11. CASE UNCHANGED vars
    BY <1>11 DEF vars, QueueOK, ReadyOK
<1> QED
    BY <1>1, <1>2, <1>3, <1>4, <1>5, <1>6, <1>7, <1>8, <1>9, <1>10, <1>11
       DEF Next, Loop

-----------------------------------------------------------------------------
(* Reference counts, and what a reference protects.                        *)

\* The part of the invariant that speaks of leases.
LeaseOK == RefcountExact /\ HeldOK /\ QuietOK

\* A step that leaves the leases and their counts alone, takes no leased
\* entry out of READY and opens no new obligation of QuietOK keeps LeaseOK.
LEMMA LeaseUntouched ==
    ASSUME TypeOK, LeaseOK, UNCHANGED <<hold, refcount, timedOut>>,
           \A e \in Entry : Guarded(e) /\ state[e] = "READY" /\ refcount[e] # 0
                                => state'[e] = "READY",
           ~timedOut /\ (~previewOn' \/ pc' = "destroy") =>
                (~previewOn \/ pc = "destroy")
    PROVE  LeaseOK'
<1>1. RefcountExact' BY DEF LeaseOK, RefcountExact, Guarded
<1>2. HeldOK'
    <2> SUFFICES ASSUME NEW e \in Entry, Guarded(e)', Held(e)'
                 PROVE  state'[e] = "READY"
        BY DEF HeldOK
    <2>1. Guarded(e) /\ Held(e) BY DEF Guarded, Held
    <2>2. state[e] = "READY" BY <2>1 DEF LeaseOK, HeldOK
    <2>3. refcount[e] = Cardinality(Holders(hold, e))
        BY <2>1 DEF LeaseOK, RefcountExact, Holders
    <2>4. refcount[e] # 0 BY <2>1, <2>3, HoldersFinite DEF Held
    <2> QED BY <2>1, <2>2, <2>4
<1>3. QuietOK' BY DEF LeaseOK, QuietOK
<1> QED BY <1>1, <1>2, <1>3 DEF LeaseOK

\* Giving back the reference that a place owns: the counts stay exact.
LEMMA ReleasedCount ==
    ASSUME TypeOK, LeaseOK, NEW p \in Place, NEW e \in Entry, Guarded(e)
    PROVE  Released(p)[e] = Cardinality(Holders([hold EXCEPT ![p] = NoEntry], e))
<1> DEFINE v == hold[p]
           g == [hold EXCEPT ![p] = NoEntry]
<1>t. /\ hold \in [Place -> Entry \cup {NoEntry}]
      /\ refcount \in [Entry -> Nat]
    BY DEF TypeOK
<1>1. refcount[e] = Cardinality(Holders(hold, e))
    BY DEF LeaseOK, RefcountExact, Holders
<1>2. CASE v = NoEntry
    <2>1. g = hold BY <1>t, <1>2
    <2>2. Released(p)[e] = refcount[e]
        BY <1>2, EntryFacts DEF Released
    <2> QED BY <1>1, <2>1, <2>2
<1>3. CASE v # NoEntry
    <2>1. v \in Entry BY <1>t, <1>3
    <2>2. Cardinality(Holders(g, e)) =
          Cardinality(Holders(hold, e)) - (IF e = v THEN 1 ELSE 0)
        BY <1>t, <2>1, HoldersClear
    <2>3. CASE e = v
        <3>1. refcount[e] # 0
            BY <1>1, <2>3, HoldersFinite
        <3>2. Lookup(e)
            BY <2>3, EntryFacts DEF Guarded, Lookup, LeaseOK, QuietOK
        <3>3. Released(p)[e] = refcount[e] - 1
            BY <1>t, <2>3, <3>1, <3>2 DEF Released, Unref
        <3> QED BY <1>1, <2>2, <2>3, <3>3
    <2>4. CASE e # v
        <3>1. Released(p)[e] = refcount[e] BY <2>4 DEF Released
        <3>2. Cardinality(Holders(hold, e)) \in Nat BY HoldersFinite
        <3> QED BY <1>1, <2>2, <2>4, <3>1, <3>2
    <2> QED BY <2>3, <2>4
<1> QED BY <1>2, <1>3

\* Giving back the reference that a place owns.
LEMMA LeaseRelease ==
    ASSUME TypeOK, LeaseOK, NEW p \in Place,
           hold' = [hold EXCEPT ![p] = NoEntry], refcount' = Released(p),
           UNCHANGED <<state, previewOn, timedOut>>,
           pc' # "destroy" \/ pc' = pc
    PROVE  LeaseOK'
<1>t. hold \in [Place -> Entry \cup {NoEntry}]
    BY DEF TypeOK
<1>1. RefcountExact'
    BY ReleasedCount DEF RefcountExact, Holders, Guarded
<1>2. \A q \in Place, e \in Entry : hold'[q] = e => hold[q] = e
    BY <1>t, EntryFacts
<1>3. HeldOK'
    BY <1>2 DEF LeaseOK, HeldOK, Held, Guarded
<1>4. QuietOK'
    BY <1>2, EntryFacts DEF LeaseOK, QuietOK
<1> QED BY <1>1, <1>3, <1>4 DEF LeaseOK

\* Taking a reference of a READY entry into an empty place.
LEMMA LeaseTake ==
    ASSUME TypeOK, LeaseOK, NEW p \in Place, NEW v \in Entry, Lookup(v),
           state[v] = "READY", hold[p] = NoEntry, pc # "destroy",
           pc' # "destroy",
           hold' = [hold EXCEPT ![p] = v],
           refcount' = [refcount EXCEPT ![v] = @ + 1],
           UNCHANGED <<state, previewOn, timedOut>>
    PROVE  LeaseOK'
<1>t. /\ hold \in [Place -> Entry \cup {NoEntry}]
      /\ refcount \in [Entry -> Nat]
    BY DEF TypeOK
<1>1. RefcountExact'
    <2> SUFFICES ASSUME NEW e \in Entry, Guarded(e)
                 PROVE  refcount'[e] = Cardinality(Holders(hold', e))
        BY DEF RefcountExact, Holders, Guarded
    <2>1. refcount[e] = Cardinality(Holders(hold, e))
        BY DEF LeaseOK, RefcountExact, Holders
    <2>2. Cardinality(Holders(hold', e)) =
          Cardinality(Holders(hold, e)) + (IF e = v THEN 1 ELSE 0)
        BY <1>t, HoldersAssign
    <2>3. refcount'[e] = refcount[e] + (IF e = v THEN 1 ELSE 0)
        BY <1>t
    <2> QED BY <2>1, <2>2, <2>3
<1>2. \A q \in Place : hold'[q] = v \/ hold'[q] = hold[q]
    BY <1>t
<1>3. HeldOK'
    BY <1>2 DEF LeaseOK, HeldOK, Held, Guarded
<1>4. QuietOK'
    BY <1>2, EntryFacts DEF LeaseOK, QuietOK, Lookup
<1> QED BY <1>1, <1>3, <1>4 DEF LeaseOK

\* Passing a lease on to an empty place.
LEMMA LeaseMove ==
    ASSUME TypeOK, LeaseOK, NEW p \in Place, NEW q \in Place, p # q,
           hold[q] = NoEntry,
           hold' = [hold EXCEPT ![q] = hold[p], ![p] = NoEntry],
           UNCHANGED <<state, refcount, previewOn, timedOut>>,
           pc' # "destroy" \/ pc' = pc
    PROVE  LeaseOK'
<1>t. hold \in [Place -> Entry \cup {NoEntry}]
    BY DEF TypeOK
<1>1. RefcountExact'
    <2> SUFFICES ASSUME NEW e \in Entry, Guarded(e)
                 PROVE  refcount'[e] = Cardinality(Holders(hold', e))
        BY DEF RefcountExact, Holders, Guarded
    <2>1. refcount[e] = Cardinality(Holders(hold, e))
        BY DEF LeaseOK, RefcountExact, Holders
    <2>2. Cardinality(Holders([hold EXCEPT ![q] = hold[p], ![p] = NoEntry], e))
            = Cardinality(Holders(hold, e))
        BY <1>t, HoldersMove, ZenonT(60)
    <2> QED BY <2>1, <2>2
<1>2. \A s \in Place, e \in Entry : hold'[s] = e => \E r \in Place : hold[r] = e
    BY <1>t, EntryFacts
<1>3. HeldOK'
    BY <1>2 DEF LeaseOK, HeldOK, Held, Guarded
<1>4. QuietOK'
    BY <1>2, EntryFacts DEF LeaseOK, QuietOK
<1> QED BY <1>1, <1>3, <1>4 DEF LeaseOK

\* native_canvas_acquire only hands out an entry nobody leases.
LEMMA AcquirableUnheld ==
    ASSUME LeaseOK, NEW e \in Entry, Guarded(e), Acquirable(e)
    PROVE  refcount[e] = 0 /\ ~Held(e)
<1>1. refcount[e] = Cardinality(Holders(hold, e))
    BY DEF LeaseOK, RefcountExact, Holders
<1> QED BY <1>1, HoldersFinite DEF Acquirable, Held

\* Recycling an acquired entry.
LEMMA LeaseRecycle ==
    ASSUME TypeOK, LeaseOK, NEW e \in Entry, Acquirable(e),
           Submit(e) \/ \E reset \in BOOLEAN : FailedSubmit(e, reset),
           UNCHANGED <<hold, previewOn, timedOut>>,
           pc # "destroy", pc' # "destroy"
    PROVE  LeaseOK'
<1>1. refcount[e] = 0 BY DEF Acquirable
<1>2. refcount' = refcount
    BY <1>1 DEF Submit, FailedSubmit, TypeOK
<1>3. \A d \in Entry : d # e => state'[d] = state[d]
    BY DEF Submit, FailedSubmit, TypeOK
<1> QED BY <1>1, <1>2, <1>3, LeaseUntouched

\* Every step keeps the lease facts: exact counts, leased entries READY.
LEMMA LeaseStep ==
    ASSUME TypeOK, PublishOK, LeaseOK, [Next]_vars
    PROVE  LeaseOK'
<1> USE DEF threadVars, pubVars, historyVars, ringVars
<1>t. /\ hold \in [Place -> Entry \cup {NoEntry}]
      /\ refcount \in [Entry -> Nat]
      /\ lastRendered["canvas"] \in Index("canvas")
    BY DEF TypeOK, PublishOK, Ring
<1>1. CASE CaptureTransition
    <2> DEFINE last == <<"canvas", lastRendered["canvas"]>>
               g == [hold EXCEPT !["transition"] = NoEntry]
               d == Released("transition")
    <2>1. last \in Entry /\ last \in CanvasEntry BY <1>t, EntryFacts
    <2>2. /\ pc = "cmd"
          /\ UNCHANGED <<state, previewOn, timedOut, pc>>
        BY <1>1 DEF CaptureTransition
    <2>3. CASE state[last] = "READY"
        <3>1. hold' = [hold EXCEPT !["transition"] = last] /\
              refcount' = [d EXCEPT ![last] = @ + 1]
            BY <1>1, <2>3 DEF CaptureTransition
        <3>2. /\ g \in [Place -> Entry \cup {NoEntry}]
              /\ g["transition"] = NoEntry
              /\ hold' = [g EXCEPT !["transition"] = last]
            BY <1>t, <3>1, PlaceFacts
        <3>3. RefcountExact'
            <4> SUFFICES ASSUME NEW e \in Entry, Guarded(e)
                         PROVE  refcount'[e] = Cardinality(Holders(hold', e))
                BY <2>2 DEF RefcountExact, Holders, Guarded
            <4>1. d[e] = Cardinality(Holders(g, e))
                BY ReleasedCount, PlaceFacts
            <4> HIDE DEF g, last
            <4>2. Cardinality(Holders([g EXCEPT !["transition"] = last], e)) =
                  Cardinality(Holders(g, e)) + (IF e = last THEN 1 ELSE 0)
                <5>1. "transition" \in Place BY PlaceFacts
                <5> QED BY <2>1, <3>2, <5>1, HoldersAssign
            <4>3. refcount'[e] = d[e] + (IF e = last THEN 1 ELSE 0)
                <5>1. d = [x \in Entry |-> d[x]] BY DEF Released
                <5>2. d[e] \in Nat BY <4>1, HoldersFinite
                <5> HIDE DEF d
                <5> QED BY <3>1, <5>1, <5>2
            <4> QED BY <3>2, <4>1, <4>2, <4>3
        <3>4. \A q \in Place : hold'[q] = last \/ hold'[q] = hold[q]
            BY <1>t, <3>1
        <3>5. HeldOK'
            BY <2>2, <2>3, <3>4 DEF LeaseOK, HeldOK, Held, Guarded
        <3>6. QuietOK'
            BY <2>1, <2>2, <3>4, EntryFacts DEF LeaseOK, QuietOK
        <3> QED BY <3>3, <3>5, <3>6 DEF LeaseOK
    <2>4. CASE state[last] # "READY"
        <3>1. hold' = g /\ refcount' = d
            BY <1>1, <2>4 DEF CaptureTransition
        <3> QED BY <2>2, <3>1, LeaseRelease, PlaceFacts
    <2> QED BY <2>3, <2>4
<1>2. CASE ReleaseTransition
    BY <1>2, LeaseRelease, PlaceFacts DEF ReleaseTransition
<1>3. CASE TeardownPreview
    BY <1>3, LeaseRelease, PlaceFacts DEF TeardownPreview
<1>4. CASE \/ Frame \/ PollDone \/ Republish \/ RepublishFail
           \/ RepublishPreview \/ RenderNoEntry \/ PreviewSkip
    <2>1. UNCHANGED <<hold, refcount, state, previewOn, timedOut>>
        BY <1>4 DEF Frame, BeginFrame, PollDone, Republish, RepublishFail,
                    RepublishPreview, RenderNoEntry, PreviewSkip
    <2>2. pc' # "destroy"
        BY <1>4 DEF Frame, BeginFrame, PollDone, Republish, RepublishFail,
                    RepublishPreview, RenderNoEntry, PreviewSkip
    <2> QED BY <2>1, <2>2, LeaseUntouched
<1>5. CASE WaitPreviewReleased
    <2>1. UNCHANGED <<hold, refcount, state, previewOn, timedOut>>
        BY <1>5 DEF WaitPreviewReleased
    <2>2. \A e \in PreviewEntry : refcount[e] = 0
        BY <1>5, <1>t, EntryFacts DEF WaitPreviewReleased, PreviewBusy
    <2>3. ~timedOut => \A p \in Place : hold[p] \notin PreviewEntry
        <3> SUFFICES ASSUME ~timedOut, NEW p \in Place, hold[p] \in PreviewEntry
                     PROVE  FALSE
            OBVIOUS
        <3>1. hold[p] \in Entry /\ Guarded(hold[p])
            BY EntryFacts DEF Guarded
        <3>2. refcount[hold[p]] = Cardinality(Holders(hold, hold[p]))
            BY <3>1 DEF LeaseOK, RefcountExact, Holders
        <3> QED BY <2>2, <3>2, HoldersFinite
    <2>4. RefcountExact' /\ HeldOK'
        BY <2>1 DEF LeaseOK, RefcountExact, HeldOK, Held, Guarded
    <2>5. QuietOK' BY <2>1, <2>3 DEF QuietOK
    <2> QED BY <2>4, <2>5 DEF LeaseOK
<1>6. CASE WaitPreviewTimeout
    BY <1>6 DEF WaitPreviewTimeout, LeaseOK, RefcountExact, HeldOK, Held,
                Guarded, QuietOK
<1>7. ASSUME NEW reconfigure \in BOOLEAN, DestroyPreview(reconfigure)
      PROVE  LeaseOK'
    <2>1. /\ hold' = hold /\ timedOut' = timedOut /\ pc = "destroy"
          /\ \A e \in Entry : state'[e] = IF e \in PreviewEntry THEN "FREE"
                                                                ELSE state[e]
          /\ \A e \in Entry : refcount'[e] = IF e \in PreviewEntry THEN 0
                                                            ELSE refcount[e]
        BY <1>7 DEF DestroyPreview
    <2>2. ~timedOut => \A p \in Place : hold[p] \notin PreviewEntry
        BY <2>1 DEF LeaseOK, QuietOK
    <2>3. RefcountExact'
        <3> SUFFICES ASSUME NEW e \in Entry, Guarded(e)
                     PROVE  refcount'[e] = Cardinality(Holders(hold, e))
            BY <2>1 DEF RefcountExact, Holders, Guarded
        <3>1. CASE e \in CanvasEntry
            BY <2>1, <3>1, EntryFacts DEF LeaseOK, RefcountExact, Holders
        <3>2. CASE e \in PreviewEntry
            <4>1. ~timedOut BY <3>2, EntryFacts DEF Guarded
            <4>2. Cardinality(Holders(hold, e)) = 0
                BY <2>2, <3>2, <4>1, HoldersFinite
            <4> QED BY <2>1, <3>2, <4>2
        <3> QED BY <3>1, <3>2, EntryFacts
    <2>4. HeldOK'
        BY <2>1, <2>2, EntryFacts DEF LeaseOK, HeldOK, Held, Guarded
    <2>5. QuietOK' BY <2>1, <2>2 DEF QuietOK
    <2> QED BY <2>3, <2>4, <2>5 DEF LeaseOK
<1>8. ASSUME NEW ok \in BOOLEAN, CreatePreview(ok)
      PROVE  LeaseOK'
    <2>1. /\ hold' = hold /\ timedOut' = timedOut /\ ~previewOn
          /\ \A e \in Entry : state'[e] = IF e \in PreviewEntry THEN "FREE"
                                                                ELSE state[e]
          /\ \A e \in Entry : refcount'[e] = IF e \in PreviewEntry THEN 0
                                                            ELSE refcount[e]
        BY <1>8 DEF CreatePreview
    <2>2. ~timedOut => \A p \in Place : hold[p] \notin PreviewEntry
        BY <2>1 DEF LeaseOK, QuietOK
    <2>3. RefcountExact'
        <3> SUFFICES ASSUME NEW e \in Entry, Guarded(e)
                     PROVE  refcount'[e] = Cardinality(Holders(hold, e))
            BY <2>1 DEF RefcountExact, Holders, Guarded
        <3>1. CASE e \in CanvasEntry
            BY <2>1, <3>1, EntryFacts DEF LeaseOK, RefcountExact, Holders
        <3>2. CASE e \in PreviewEntry
            <4>1. ~timedOut BY <3>2, EntryFacts DEF Guarded
            <4>2. Cardinality(Holders(hold, e)) = 0
                BY <2>2, <3>2, <4>1, HoldersFinite
            <4> QED BY <2>1, <3>2, <4>2
        <3> QED BY <3>1, <3>2, EntryFacts
    <2>4. HeldOK'
        BY <2>1, <2>2, EntryFacts DEF LeaseOK, HeldOK, Held, Guarded
    <2>5. QuietOK' BY <2>1, <2>2 DEF QuietOK
    <2> QED BY <2>3, <2>4, <2>5 DEF LeaseOK
<1>9. CASE PollReady
    <2>1. UNCHANGED <<hold, refcount, previewOn, timedOut>> /\ pc' # "destroy"
        BY <1>9 DEF PollReady
    <2>2. \A e \in Entry : state[e] = "READY" => state'[e] = "READY"
        BY <1>9 DEF PollReady, TypeOK
    <2> QED BY <2>1, <2>2, LeaseUntouched
<1>10. CASE PublishRef
    <2>1. pubEntry \in Entry /\ pubs # << >> /\ pc = "ref"
          /\ hold["publishing"] = NoEntry
        BY <1>10 DEF PublishRef, PublishOK
    <2>2. UNCHANGED <<state, previewOn, timedOut>>
        BY <1>10 DEF PublishRef
    <2>3. CASE Lookup(pubEntry) /\ state[pubEntry] = "READY"
        BY <1>10, <2>1, <2>2, <2>3, LeaseTake, PlaceFacts DEF PublishRef
    <2>4. CASE ~(Lookup(pubEntry) /\ state[pubEntry] = "READY")
        <3>1. UNCHANGED <<refcount, hold>> /\ NextMailbox
            BY <1>10, <2>4 DEF PublishRef
        <3> QED BY <2>1, <2>2, <3>1, NextMailboxType, LeaseUntouched
    <2> QED BY <2>3, <2>4
<1>11. CASE PublishSwap
    <2> DEFINE m == Head(pubs)
               g == [hold EXCEPT !["dropped"] = hold[m], ![m] = NoEntry]
    <2>1. pubEntry \in Entry /\ pubs # << >> /\ pc = "swap"
          /\ hold["dropped"] = NoEntry
        BY <1>11 DEF PublishSwap, PublishOK
    <2>2. m \in Mailbox BY <2>1 DEF TypeOK
    <2>3. hold' = [hold EXCEPT ![m] = hold["publishing"], !["dropped"] = hold[m],
                               !["publishing"] = NoEntry]
        BY <1>11 DEF PublishSwap
    <2>4. UNCHANGED <<state, refcount, previewOn, timedOut>>
        BY <1>11 DEF PublishSwap
    <2>5. pc' # "destroy"
        BY <1>11, <2>1, NextMailboxType DEF PublishSwap
    <2> HIDE DEF m
    <2>6. /\ g \in [Place -> Entry \cup {NoEntry}] /\ g[m] = NoEntry
          /\ g["publishing"] = hold["publishing"]
          /\ hold' = [g EXCEPT ![m] = g["publishing"], !["publishing"] = NoEntry]
        BY <1>t, <2>2, <2>3, PlaceFacts
    <2>7. RefcountExact'
        <3> SUFFICES ASSUME NEW e \in Entry, Guarded(e)
                     PROVE  refcount[e] = Cardinality(Holders(hold', e))
            BY <2>4 DEF RefcountExact, Holders, Guarded
        <3>1. Cardinality(Holders([hold EXCEPT !["dropped"] = hold[m],
                                               ![m] = NoEntry], e)) =
              Cardinality(Holders(hold, e))
            <4>1. m \in Place /\ "dropped" \in Place /\ m # "dropped"
                BY <2>2, PlaceFacts
            <4>2. hold["dropped"] = NoEntry BY <2>1
            <4>3. hold \in [Place -> Entry \cup {NoEntry}] BY <1>t
            <4> HIDE DEF g
            <4> QED BY <4>1, <4>2, <4>3, HoldersMove, ZenonT(60)
        <3>2. Cardinality(Holders(g, e)) = Cardinality(Holders(hold, e))
            BY <3>1
        <3> HIDE DEF g
        <3>3. Cardinality(Holders([g EXCEPT ![m] = g["publishing"],
                                            !["publishing"] = NoEntry], e)) =
              Cardinality(Holders(g, e))
            <4>1. m \in Place /\ "publishing" \in Place /\ "publishing" # m
                BY <2>2, PlaceFacts
            <4> QED BY <2>6, <4>1, HoldersMove, ZenonT(60)
        <3> QED BY <2>6, <3>2, <3>3 DEF LeaseOK, RefcountExact, Holders
    <2>8. \A s \in Place, e \in Entry :
              hold'[s] = e => \E r \in Place : hold[r] = e
        BY <1>t, <2>2, <2>3, EntryFacts, PlaceFacts
    <2>9. HeldOK' BY <2>4, <2>8 DEF LeaseOK, HeldOK, Held, Guarded
    <2>10. QuietOK' BY <2>4, <2>5, <2>8, EntryFacts DEF LeaseOK, QuietOK
    <2> QED BY <2>7, <2>9, <2>10 DEF LeaseOK
<1>12. CASE PublishUnref
    <2>1. pubEntry \in Entry /\ pubs # << >> /\ NextMailbox
        BY <1>12 DEF PublishUnref, PublishOK
    <2>2. pc' # "destroy" BY <2>1, NextMailboxType
    <2> QED BY <1>12, <2>2, LeaseRelease, PlaceFacts DEF PublishUnref
<1>13. ASSUME NEW i \in Index("canvas"),
              RenderSubmit(i) \/ \E reset \in BOOLEAN : RenderFail(i, reset)
       PROVE  LeaseOK'
    <2> DEFINE e == <<"canvas", i>>
    <2>1. e \in Entry BY EntryFacts
    <2>2. /\ Acquirable(e) /\ pc = "render" /\ pc' # "destroy"
          /\ Submit(e) \/ \E reset \in BOOLEAN : FailedSubmit(e, reset)
          /\ UNCHANGED <<hold, previewOn, timedOut>>
        BY <1>13 DEF RenderSubmit, RenderFail, Acquired
    <2> HIDE DEF e
    <2> QED BY <2>1, <2>2, LeaseRecycle
<1>14. ASSUME NEW i \in Index("preview"),
              PreviewSubmit(i) \/ \E reset \in BOOLEAN : PreviewFail(i, reset)
       PROVE  LeaseOK'
    <2> DEFINE e == <<"preview", i>>
    <2>1. e \in Entry BY EntryFacts
    <2>2. /\ Acquirable(e) /\ pc # "destroy" /\ pc' # "destroy"
          /\ Submit(e) \/ \E reset \in BOOLEAN : FailedSubmit(e, reset)
          /\ UNCHANGED <<hold, previewOn, timedOut>>
        BY <1>14 DEF PreviewSubmit, PreviewFail, PreviewWanted, Acquired
    <2> HIDE DEF e
    <2> QED BY <2>1, <2>2, LeaseRecycle
<1>15. CASE GpuComplete
    BY <1>15, LeaseUntouched DEF GpuComplete
<1>16. ASSUME NEW m \in Mailbox, NEW h \in Holder, MailboxAcquire(m, h)
       PROVE  LeaseOK'
    <2>1. /\ hold[m] # NoEntry /\ hold[h] = NoEntry
          /\ UNCHANGED <<state, refcount, previewOn, timedOut, pc>>
        BY <1>16 DEF MailboxAcquire
    <2>2. CASE Lookup(hold[m])
        <3>1. hold' = [hold EXCEPT ![h] = hold[m], ![m] = NoEntry]
            BY <1>16, <1>t, <2>2, PlaceFacts DEF MailboxAcquire
        <3> QED BY <2>1, <3>1, LeaseMove, PlaceFacts
    <2>3. CASE ~Lookup(hold[m])
        <3>1. hold' = [hold EXCEPT ![m] = NoEntry]
            BY <1>16, <1>t, <2>1, <2>3, PlaceFacts DEF MailboxAcquire
        <3>2. refcount' = Released(m)
            BY <1>t, <2>1, <2>3 DEF Released, Unref
        <3> QED BY <2>1, <3>1, <3>2, LeaseRelease, PlaceFacts
    <2> QED BY <2>2, <2>3
<1>17. ASSUME NEW h \in Holder, MailboxRelease(h)
       PROVE  LeaseOK'
    BY <1>17, LeaseRelease, PlaceFacts DEF MailboxRelease
<1>18. CASE UNCHANGED vars
    BY <1>18, LeaseUntouched DEF vars
<1> QED
    BY <1>1, <1>2, <1>3, <1>4, <1>5, <1>6, <1>7, <1>8, <1>9, <1>10, <1>11,
       <1>12, <1>13, <1>14, <1>15, <1>16, <1>17, <1>18
       DEF Next, Command, Loop, Consumer

-----------------------------------------------------------------------------
(* The theorems.                                                           *)

\* The inductive invariant holds of the freshly created rings.
LEMMA InitIInv == Init => IInv
<1> SUFFICES ASSUME Init PROVE IInv
    OBVIOUS
<1>1. TypeOK
    <2>1. /\ state \in [Entry -> {"FREE", "RENDERING", "READY"}]
          /\ refcount \in [Entry -> Nat]
          /\ fence \in [Entry -> BOOLEAN]
          /\ hold \in [Place -> Entry \cup {NoEntry}]
        BY DEF Init
    <2>2. /\ writeIdx \in [Ring -> Nat]
          /\ \A r \in Ring : writeIdx[r] \in Index(r)
          /\ lastRendered \in [Ring -> Nat \cup {NoEntry}]
          /\ \A r \in Ring : lastRendered[r] \in Index(r) \cup {NoEntry}
        BY EntryFacts DEF Init, Ring
    <2>3. gpuQueue \in Seq(Entry) /\ pubs \in Seq(Mailbox)
        BY DEF Init
    <2>4. pollIdx \in 0 .. (CanvasSize + PreviewSize)
        BY SizeAssumption DEF Init
    <2> QED BY <2>1, <2>2, <2>3, <2>4 DEF Init, TypeOK, PcValue
<1>2. PublishOK
    BY PlaceFacts, EntryFacts DEF Init, PublishOK, Ring
<1>3. QueueOK /\ ReadyOK
    BY DEF Init, QueueOK, ReadyOK
<1>4. \A p \in Place : hold[p] = NoEntry
    BY DEF Init
<1>5. RefcountExact
    <2> SUFFICES ASSUME NEW e \in Entry
                 PROVE  refcount[e] = Cardinality(Holders(hold, e))
        BY DEF RefcountExact, Holders
    <2>1. Cardinality(Holders(hold, e)) = 0
        BY <1>4, EntryFacts, HoldersFinite
    <2> QED BY <2>1 DEF Init
<1>6. HeldOK /\ QuietOK
    BY <1>4, EntryFacts DEF HeldOK, QuietOK, Held
<1> QED BY <1>1, <1>2, <1>3, <1>5, <1>6 DEF IInv

\* Every step of every thread preserves the inductive invariant.
LEMMA NextIInv == IInv /\ [Next]_vars => IInv'
<1> SUFFICES ASSUME IInv, [Next]_vars PROVE IInv'
    OBVIOUS
<1>1. TypeOK /\ PublishOK /\ QueueOK /\ ReadyOK /\ LeaseOK
    BY DEF IInv, LeaseOK
<1>2. TypeOK' /\ PublishOK' BY <1>1, TypeStep
<1>3. QueueOK' /\ ReadyOK' BY <1>1, QueueStep
<1>4. LeaseOK' BY <1>1, LeaseStep
<1> QED BY <1>2, <1>3, <1>4 DEF IInv, LeaseOK

\* The invariant holds of every behaviour of the compositor thread, the GPU
\* and the consumers.
THEOREM Invariance == Spec => []IInv
BY InitIInv, NextIInv, PTL DEF Spec

\* Type correctness of the native canvas.
THEOREM TypeCorrect == Spec => []TypeOK
<1>1. IInv => TypeOK BY DEF IInv
<1> QED BY <1>1, Invariance, PTL

\* For rings of any size and any number of consumers, the reference count
\* that native_canvas_ref and native_canvas_unref keep is the number of places
\* that own a reference: none is lost and none is given back twice.
THEOREM RefcountCorrect == Spec => []RefcountExact
<1>1. IInv => RefcountExact BY DEF IInv
<1> QED BY <1>1, Invariance, PTL

\* An image somebody leases is finished, signaled and out of the GPU's queue:
\* the compositor never renders into a frame a consumer still reads.
THEOREM HeldStable == Spec => []HeldIsStable
<1>1. IInv => HeldIsStable
    <2> SUFFICES ASSUME IInv, NEW e \in Entry, Guarded(e), Held(e)
                 PROVE  state[e] = "READY" /\ fence[e] /\ ~Queued(e)
        BY DEF HeldIsStable
    <2>1. state[e] = "READY" BY DEF IInv, HeldOK
    <2>2. fence[e] BY <2>1 DEF IInv, ReadyOK
    <2>3. ~Queued(e) BY <2>1 DEF IInv, QueueOK, Queued
    <2> QED BY <2>1, <2>2, <2>3
<1> QED BY <1>1, Invariance, PTL

-----------------------------------------------------------------------------
(* The canvas ring implements the lease pool.                              *)

PoolHold == [p \in Place |-> IF hold[p] \in CanvasEntry THEN hold[p] ELSE NoEntry]
PoolWriting == {e \in CanvasEntry : state[e] = "RENDERING"}

\* A step that renders no canvas entry and finishes none is a Share step.
LEMMA ShareStep ==
    ASSUME IInv', PoolWriting' = PoolWriting
    PROVE  CanvasPool!Share
<1>1. PoolHold' \in [Place -> CanvasEntry \cup {NoEntry}]
    BY DEF PoolHold
<1>2. ASSUME NEW p \in Place PROVE PoolHold'[p] \notin PoolWriting'
    <2>1. CASE hold'[p] \in CanvasEntry
        <3>1. \A e \in Entry : Guarded(e)' /\ (\E q \in Place : hold'[q] = e)
                                => state'[e] = "READY"
            BY DEF IInv, HeldOK, Held
        <3>2. state'[hold'[p]] = "READY"
            BY <2>1, <3>1, EntryFacts DEF Guarded
        <3> QED BY <2>1, <3>2 DEF PoolHold, PoolWriting
    <2>2. CASE hold'[p] \notin CanvasEntry
        BY <2>2, EntryFacts DEF PoolHold, PoolWriting
    <2> QED BY <2>1, <2>2
<1>3. \A p \in Place : PoolHold'[p] \notin PoolWriting BY <1>2
<1> QED BY <1>1, <1>3 DEF CanvasPool!Share, PoolHold, PoolWriting

\* Every step of the detailed specification is a lease-pool step or leaves
\* the pool unchanged.
LEMMA PoolStep ==
    ASSUME IInv, [Next]_vars
    PROVE  CanvasPool!Next \/ UNCHANGED CanvasPool!vars
<1> USE DEF threadVars, pubVars, historyVars, ringVars
<1>i. IInv' BY NextIInv
<1>t. state \in [Entry -> {"FREE", "RENDERING", "READY"}] BY DEF IInv, TypeOK
<1>1. CASE PollReady
    <2> DEFINE e == PollEntry
    <2>1. CASE state[e] = "RENDERING" /\ fence[e] /\ e \in CanvasEntry
        <3>1. state' = [state EXCEPT ![e] = "READY"] /\ hold' = hold
            BY <1>1, <2>1 DEF PollReady
        <3>2. e \in CanvasEntry BY <2>1
        <3> HIDE DEF e
        <3>3. PoolWriting' = PoolWriting \ {e} /\ PoolHold' = PoolHold
            BY <1>t, <3>1, <3>2, EntryFacts DEF PoolWriting, PoolHold
        <3>4. PICK d \in CanvasEntry :
                  PoolWriting' = PoolWriting \ {d} /\ PoolHold' = PoolHold
            BY <3>2, <3>3
        <3>5. CanvasPool!Finish(d)
            BY <3>4 DEF CanvasPool!Finish, PoolHold, PoolWriting
        <3> QED BY <3>5 DEF CanvasPool!Next
    <2>2. CASE ~(state[e] = "RENDERING" /\ fence[e] /\ e \in CanvasEntry)
        <3>1. \A d \in CanvasEntry : state'[d] = state[d]
            BY <1>1, <1>t, <2>2, EntryFacts DEF PollReady
        <3>2. PoolWriting' = PoolWriting BY <3>1 DEF PoolWriting
        <3> QED BY <1>i, <3>2, ShareStep DEF CanvasPool!Next
    <2> QED BY <2>1, <2>2
<1>2. ASSUME NEW i \in Index("canvas"), RenderSubmit(i)
      PROVE  CanvasPool!Next
    <2> DEFINE e == <<"canvas", i>>
    <2>1. e \in CanvasEntry /\ e \in Entry /\ Guarded(e)
        BY EntryFacts DEF Guarded
    <2>2. /\ Acquirable(e) /\ hold' = hold
          /\ state' = [state EXCEPT ![e] = "RENDERING"]
        BY <1>2 DEF RenderSubmit, Acquired, Submit
    <2> HIDE DEF e
    <2>3. ~Held(e)
        BY <2>1, <2>2, AcquirableUnheld DEF IInv, LeaseOK
    <2>4. \A p \in Place : PoolHold[p] # e
        BY <2>1, <2>3, EntryFacts DEF PoolHold, Held
    <2>5. PoolWriting' = PoolWriting \cup {e} /\ PoolHold' = PoolHold
        BY <1>t, <2>1, <2>2, EntryFacts DEF PoolWriting, PoolHold
    <2>6. CanvasPool!Write(e)
        BY <2>4, <2>5 DEF CanvasPool!Write, PoolHold, PoolWriting
    <2> QED BY <2>1, <2>6 DEF CanvasPool!Next
<1>3. ASSUME NEW i \in Index("canvas"), NEW reset \in BOOLEAN,
             RenderFail(i, reset)
      PROVE  PoolWriting' = PoolWriting
    <2> DEFINE e == <<"canvas", i>>
    <2>1. e \in Entry BY EntryFacts
    <2>2. /\ state[e] \in {"FREE", "READY"}
          /\ state' = [state EXCEPT ![e] = "FREE"]
        BY <1>3 DEF RenderFail, Acquired, Acquirable, FailedSubmit
    <2> HIDE DEF e
    <2> QED BY <1>t, <2>1, <2>2, EntryFacts DEF PoolWriting
<1>4. ASSUME NEW i \in Index("preview"),
             PreviewSubmit(i) \/ \E reset \in BOOLEAN : PreviewFail(i, reset)
      PROVE  PoolWriting' = PoolWriting
    <2> DEFINE e == <<"preview", i>>
    <2>1. e \notin CanvasEntry BY EntryFacts
    <2>2. \E v : state' = [state EXCEPT ![e] = v]
        BY <1>4 DEF PreviewSubmit, PreviewFail, Submit, FailedSubmit
    <2> HIDE DEF e
    <2>3. \A d \in CanvasEntry : state'[d] = state[d]
        BY <1>t, <2>1, <2>2, EntryFacts
    <2> QED BY <2>3 DEF PoolWriting
<1>5. ASSUME NEW b \in BOOLEAN, DestroyPreview(b) \/ CreatePreview(b)
      PROVE  PoolWriting' = PoolWriting
    <2>1. \A d \in CanvasEntry : state'[d] = state[d]
        BY <1>5, EntryFacts DEF DestroyPreview, CreatePreview
    <2> QED BY <2>1 DEF PoolWriting
<1>6. CASE \/ Command \/ Frame \/ WaitPreviewReleased \/ WaitPreviewTimeout
           \/ PollDone \/ PublishRef \/ PublishSwap \/ PublishUnref
           \/ Republish \/ RepublishFail \/ RepublishPreview \/ RenderNoEntry
           \/ PreviewSkip \/ GpuComplete \/ Consumer \/ UNCHANGED vars
    <2>1. state' = state
        BY <1>6 DEF Command, CaptureTransition, ReleaseTransition,
                    TeardownPreview, Frame, BeginFrame, WaitPreviewReleased,
                    WaitPreviewTimeout, PollDone, PublishRef, PublishSwap,
                    PublishUnref, Republish, RepublishFail, RepublishPreview,
                    RenderNoEntry, PreviewSkip, GpuComplete, Consumer,
                    MailboxAcquire, MailboxRelease, vars
    <2> QED BY <1>i, <2>1, ShareStep DEF CanvasPool!Next, PoolWriting
<1>7. ASSUME PoolWriting' = PoolWriting PROVE CanvasPool!Next
    BY <1>i, <1>7, ShareStep DEF CanvasPool!Next
<1> QED
    BY <1>1, <1>2, <1>3, <1>4, <1>5, <1>6, <1>7 DEF Next, Loop

\* Whatever the rings' size and the consumers, the canvas ring is a lease
\* pool: native_canvas_acquire starts to write an entry only when no place
\* leases it, and a lease is only ever taken of a finished entry.
THEOREM LeasePoolRefinement == Spec => ImplementsLeasePool
<1>1. Init => CanvasPool!Init
    <2> SUFFICES ASSUME Init PROVE CanvasPool!Init
        OBVIOUS
    <2>1. PoolHold = [p \in Place |-> NoEntry]
        BY EntryFacts DEF Init, PoolHold
    <2>2. PoolWriting = {}
        BY EntryFacts DEF Init, PoolWriting
    <2> QED BY <2>1, <2>2 DEF CanvasPool!Init, PoolHold, PoolWriting
<1>2. IInv /\ [Next]_vars => [CanvasPool!Next]_CanvasPool!vars
    BY PoolStep
<1> QED
    BY <1>1, <1>2, Invariance, PTL DEF Spec, ImplementsLeasePool, CanvasPool!Spec

-----------------------------------------------------------------------------
(* The frame that is repeated.                                             *)

\* A frame submitted alone is the only one rendered, and once it is done it is
\* the one marked last, whatever fails to render after it.
NewestOK ==
    newest # NoEntry =>
        /\ \A e \in CanvasEntry : state[e] = "RENDERING" => e = <<"canvas", newest>>
        /\ state[<<"canvas", newest>>] # "RENDERING" => lastRendered["canvas"] = newest

\* A step that starts no canvas render and ends none keeps that.
LEMMA NewestKept ==
    ASSUME TypeOK, NewestOK, newest' = newest,
           lastRendered'["canvas"] = lastRendered["canvas"],
           \A e \in CanvasEntry : (state'[e] = "RENDERING") = (state[e] = "RENDERING")
    PROVE  NewestOK'
<1>1. newest # NoEntry => <<"canvas", newest>> \in CanvasEntry
    BY EntryFacts DEF TypeOK
<1> QED BY <1>1 DEF NewestOK

\* Every step keeps it: a render submitted beside another one is not spoken
\* of, and poll_ready can only mark the one that is.
LEMMA NewestStep ==
    ASSUME TypeOK, NewestOK, [Next]_vars
    PROVE  NewestOK'
<1> USE DEF threadVars, pubVars, historyVars, ringVars
<1>t. /\ state \in [Entry -> {"FREE", "RENDERING", "READY"}]
      /\ lastRendered \in [Ring -> Nat \cup {NoEntry}]
      /\ "canvas" \in Ring /\ "preview" \in Ring /\ "canvas" # "preview"
    BY DEF TypeOK, Ring
<1>1. CASE PollReady
    <2> DEFINE e == PollEntry
    <2>1. newest' = newest /\ (e = <<"canvas", pollIdx>> \/ e[1] = "preview")
        BY <1>1 DEF PollReady, PollEntry
    <2>2. CASE ~(state[e] = "RENDERING" /\ fence[e])
        BY <1>1, <2>1, <2>2, NewestKept DEF PollReady
    <2>3. CASE state[e] = "RENDERING" /\ fence[e] /\ e[1] = "preview"
        <3>1. e \notin CanvasEntry
            BY <2>3, <1>t DEF CanvasEntry
        <3>2. /\ state' = [state EXCEPT ![e] = "READY"]
              /\ lastRendered' = [lastRendered EXCEPT !["preview"] = e[2]]
            BY <1>1, <2>3 DEF PollReady
        <3> HIDE DEF e
        <3>3. \A d \in CanvasEntry : state'[d] = state[d]
            BY <1>t, <3>1, <3>2, EntryFacts
        <3>4. lastRendered'["canvas"] = lastRendered["canvas"]
            BY <1>t, <3>2
        <3> QED BY <2>1, <3>3, <3>4, NewestKept
    <2>4. CASE state[e] = "RENDERING" /\ fence[e] /\ e[1] # "preview"
        <3>1. e = <<"canvas", pollIdx>> /\ pollIdx < CanvasSize
            BY <2>4, <1>t, <2>1 DEF PollEntry
        <3>2. e \in CanvasEntry
            BY <3>1, <1>1, SizeAssumption DEF CanvasEntry, Index, Size, TypeOK, PollReady
        <3>3. /\ state' = [state EXCEPT ![e] = "READY"]
              /\ lastRendered' = [lastRendered EXCEPT !["canvas"] = pollIdx]
            BY <1>1, <2>4, <3>1 DEF PollReady
        <3> HIDE DEF e
        <3>4. state[e] = "RENDERING" /\ state'[e] = "READY"
            BY <2>4, <3>2, <3>3, <1>t, EntryFacts
        <3>5. \A d \in CanvasEntry : d # e => state'[d] = state[d]
            BY <1>t, <3>3, EntryFacts
        <3>6. lastRendered'["canvas"] = pollIdx
            BY <1>t, <3>3
        <3>7. SUFFICES ASSUME newest # NoEntry PROVE NewestOK'
            BY <2>1 DEF NewestOK
        <3>8. e = <<"canvas", newest>> /\ pollIdx = newest
            BY <3>1, <3>2, <3>4, <3>7 DEF NewestOK
        <3>9. \A d \in CanvasEntry : state'[d] # "RENDERING"
            BY <3>4, <3>5, <3>7, <3>8 DEF NewestOK
        <3> QED BY <2>1, <3>6, <3>8, <3>9 DEF NewestOK
    <2> QED BY <2>2, <2>3, <2>4
<1>2. ASSUME NEW i \in Index("canvas"), RenderSubmit(i)
      PROVE  NewestOK'
    <2> DEFINE e == <<"canvas", i>>
    <2>1. e \in CanvasEntry /\ e \in Entry
        BY EntryFacts
    <2>2. /\ state' = [state EXCEPT ![e] = "RENDERING"]
          /\ newest' = IF \E d \in CanvasEntry : state[d] = "RENDERING" THEN NoEntry ELSE i
        BY <1>2 DEF RenderSubmit, Submit
    <2>3. state'[e] = "RENDERING" /\ \A d \in CanvasEntry : d # e => state'[d] = state[d]
        BY <1>t, <2>1, <2>2, EntryFacts
    <2> QED BY <2>2, <2>3 DEF NewestOK
<1>3. ASSUME NEW i \in Index("canvas"), NEW reset \in BOOLEAN, RenderFail(i, reset)
      PROVE  NewestOK'
    <2> DEFINE e == <<"canvas", i>>
    <2>1. e \in Entry BY EntryFacts
    <2>2. /\ state[e] \in {"FREE", "READY"} /\ state' = [state EXCEPT ![e] = "FREE"]
          /\ newest' = newest /\ lastRendered' = lastRendered
        BY <1>3 DEF RenderFail, Acquired, Acquirable, FailedSubmit
    <2> HIDE DEF e
    <2>3. \A d \in CanvasEntry : (state'[d] = "RENDERING") = (state[d] = "RENDERING")
        BY <1>t, <2>1, <2>2, EntryFacts
    <2> QED BY <2>2, <2>3, NewestKept
<1>4. ASSUME NEW i \in Index("preview"),
             PreviewSubmit(i) \/ \E reset \in BOOLEAN : PreviewFail(i, reset)
      PROVE  NewestOK'
    <2> DEFINE e == <<"preview", i>>
    <2>1. e \notin CanvasEntry BY EntryFacts
    <2>2. /\ \E v : state' = [state EXCEPT ![e] = v]
          /\ newest' = newest /\ lastRendered' = lastRendered
        BY <1>4 DEF PreviewSubmit, PreviewFail, Submit, FailedSubmit
    <2> HIDE DEF e
    <2>3. \A d \in CanvasEntry : state'[d] = state[d]
        BY <1>t, <2>1, <2>2, EntryFacts
    <2> QED BY <2>2, <2>3, NewestKept
<1>5. ASSUME NEW b \in BOOLEAN, DestroyPreview(b) \/ CreatePreview(b)
      PROVE  NewestOK'
    <2>1. \A d \in CanvasEntry : state'[d] = state[d]
        BY <1>5, EntryFacts DEF DestroyPreview, CreatePreview
    <2>2. newest' = newest /\ lastRendered' = [lastRendered EXCEPT !["preview"] = NoEntry]
        BY <1>5 DEF DestroyPreview, CreatePreview
    <2> QED BY <1>t, <2>1, <2>2, NewestKept
<1>6. CASE \/ Command \/ Frame \/ WaitPreviewReleased \/ WaitPreviewTimeout
           \/ PollDone \/ PublishRef \/ PublishSwap \/ PublishUnref
           \/ Republish \/ RepublishFail \/ RepublishPreview \/ RenderNoEntry
           \/ PreviewSkip \/ GpuComplete \/ Consumer \/ UNCHANGED vars
    <2>1. state' = state /\ newest' = newest /\ lastRendered' = lastRendered
        BY <1>6 DEF Command, CaptureTransition, ReleaseTransition,
                    TeardownPreview, Frame, BeginFrame, WaitPreviewReleased,
                    WaitPreviewTimeout, PollDone, PublishRef, PublishSwap,
                    PublishUnref, Republish, RepublishFail, RepublishPreview,
                    RenderNoEntry, PreviewSkip, GpuComplete, Consumer,
                    MailboxAcquire, MailboxRelease, vars
    <2> QED BY <2>1, NewestKept
<1> QED
    BY <1>1, <1>2, <1>3, <1>4, <1>5, <1>6 DEF Next, Loop

\* Between frames, with no canvas render in flight, what republish_last repeats
\* and a transition captures is the frame submitted last, provided it was the
\* only one in flight.
THEOREM RepeatsCorrect == Spec => []RepeatsNewest
<1>1. Init => NewestOK BY DEF Init, NewestOK
<1>2. IInv /\ NewestOK /\ [Next]_vars => NewestOK'
    BY NewestStep DEF IInv
<1>3. IInv /\ NewestOK => RepeatsNewest
    <2>1. TypeOK /\ newest # NoEntry => <<"canvas", newest>> \in CanvasEntry
        BY EntryFacts DEF TypeOK
    <2> QED BY <2>1 DEF IInv, NewestOK, RepeatsNewest
<1> QED BY <1>1, <1>2, <1>3, Invariance, PTL DEF Spec
=============================================================================
