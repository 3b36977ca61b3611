--------------------------- MODULE ExportPathProofs ---------------------------
(***************************************************************************)
(* Proofs about the two paths of the export thread: the output router      *)
(* (OutputRouter), for queues of any capacity, any number of retained      *)
(* frames and any number of frames published; then the destination export  *)
(* (DestExport), for rings of any size, any number of render targets and   *)
(* any number of frames and changes of the colour mode, and both together  *)
(* (ExportPath).                                                           *)
(***************************************************************************)
EXTENDS ExportPath, SequenceTheorems, FiniteSetTheorems, WellFoundedInduction, TLAPS

-----------------------------------------------------------------------------
(* The output router.  One invariant carries all its theorems: which       *)
(* thread holds a lease at which of its steps (Carried), what each stage   *)
(* of the teardown has settled (Joined), that the leases out are those the *)
(* variables hold and none of them is offered again (Accounted), and that  *)
(* frames go down the encoder's pipeline in the order they were published  *)
(* (Ordered), which also keeps a lease from being in two of its places.    *)

\* Which steps of the threads come with a lease in hand.
ExportHolds == {"gate", "enqueue", "release", "snapshotRelease",
                "previewEnqueue", "previewRelease"}
Carried ==
    /\ cell["export"] # NoLease <=> xpc \in ExportHolds
    /\ xpc \in {"gate", "enqueue", "release"} => cell["export"].box = "OUTPUT"
    /\ xpc = "previewEnqueue" => cell["export"].box = "PREVIEW"
    /\ cell["dropped"] # NoLease => xpc \in {"dropped", "previewDropped"}
    /\ cell["encoder"] # NoLease <=> epc \in {"discard", "consume", "retain", "flush"}
    /\ cell["encoder"] # NoLease => cell["encoder"].box = "OUTPUT"
    /\ cell["preview"] # NoLease => ppc = "consume"
    /\ cell["waiting"] # NoLease => previewOn
    /\ cell["closing"] # NoLease => mpc = "releasePending"
    /\ \A c \in {"preview", "waiting", "closing"} :
           cell[c] # NoLease => cell[c].box = "PREVIEW"
    /\ \A l \in Range(queue) \cup Range(retained) \cup Range(draining) : l.box = "OUTPUT"

\* What the stages of sbs_output_router_free have settled.
Joined ==
    /\ mpc \notin {"run", "joinExport"} => xpc = "exited"
    /\ previewOn <=> mpc \in {"run", "joinExport", "stopPreview"}
    /\ mpc \in {"stopEncoder", "releaseDraining", "joinEncoder", "freed"} => ppc = "exited"
    /\ encoderOn <=> mpc \notin {"releaseDraining", "joinEncoder", "freed"}
    /\ ~encoderOn => queue = << >>
    /\ epc \in {"exiting", "exited"} => ~encoderOn
    /\ epc = "exited" => retained = << >>
    /\ mpc = "freed" => epc = "exited"
    /\ draining # << >> => mpc = "releaseDraining"

Room ==
    /\ Len(queue) <= QueueCapacity
    /\ Len(draining) <= QueueCapacity
    /\ Len(retained) <= RetainCount + (IF epc = "trim" THEN 1 ELSE 0)

InHand == {cell[c] : c \in Cell} \cup Range(queue) \cup Range(retained) \cup Range(draining)

Accounted ==
    /\ out = InHand \ {NoLease}
    /\ \A l \in out : l.frame <= published[l.box]
    /\ \A m \in Mailbox :
           box[m] # NoLease =>
               box[m].box = m /\ box[m].frame = published[m] /\ box[m] \notin out
    /\ content # 0

Distinct ==
    /\ \A c, d \in Cell : cell[c] = cell[d] => c = d \/ cell[c] = NoLease
    /\ \A c \in Cell : cell[c] \notin Range(queue) \cup Range(retained) \cup Range(draining)

\* The stages of the encoder's pipeline, as sets of leases.
OutputOf(l) == IF l \in Lease /\ l.box = "OUTPUT" THEN {l} ELSE {}
Encoding == OutputOf(cell["encoder"])
Exporting == OutputOf(cell["export"])
Offered == OutputOf(box["OUTPUT"])

Below(S, T) == \A a \in S, b \in T : a.frame < b.frame
Increasing(s) == \A i, j \in DOMAIN s : i < j => s[i].frame < s[j].frame

Chain(R, E, D, Q, X, B) ==
    /\ Below(R, E) /\ Below(R, D) /\ Below(R, Q) /\ Below(R, X) /\ Below(R, B)
    /\ Below(E, D) /\ Below(E, Q) /\ Below(E, X) /\ Below(E, B)
    /\ Below(D, Q) /\ Below(D, X) /\ Below(D, B)
    /\ Below(Q, X) /\ Below(Q, B)
    /\ Below(X, B)

Ordered ==
    /\ Increasing(retained) /\ Increasing(draining) /\ Increasing(queue)
    /\ Chain(Range(retained), Encoding, Range(draining), Range(queue), Exporting, Offered)

\* The gate is only behind the queue between the two critical sections.
Noted == xpc \notin {"dropped", "note"} => gate \in {0, queued}

IInv ==
    TypeOK /\ Carried /\ Joined /\ Room /\ Accounted /\ Distinct /\ Ordered /\ Noted

-----------------------------------------------------------------------------
(* Sequences and sets of leases.                                           *)

\* Taking the oldest lease leaves the others, in their order.
LEMMA TailFacts ==
    ASSUME NEW s \in Seq(Lease), s # << >>
    PROVE  /\ Head(s) \in Lease /\ Head(s) \in Range(s)
           /\ Tail(s) \in Seq(Lease)
           /\ Len(Tail(s)) = Len(s) - 1
           /\ Range(s) = {Head(s)} \cup Range(Tail(s))
           /\ Increasing(s) => /\ Increasing(Tail(s))
                               /\ Head(s) \notin Range(Tail(s))
                               /\ Below({Head(s)}, Range(Tail(s)))
<1>1. /\ Head(s) \in Lease /\ Tail(s) \in Seq(Lease)
      /\ Len(Tail(s)) = Len(s) - 1
      /\ \A i \in 1 .. Len(Tail(s)) : Tail(s)[i] = s[i + 1]
    BY HeadTailProperties
<1>2. Len(s) \in Nat /\ Len(s) > 0 /\ Head(s) = s[1] OBVIOUS
<1>3. /\ Range(s) = {s[i] : i \in 1 .. Len(s)}
      /\ Range(Tail(s)) = {Tail(s)[i] : i \in 1 .. Len(s) - 1}
    BY <1>1, RangeEquality
<1>4. Range(s) = {Head(s)} \cup Range(Tail(s))
    <2>1. ASSUME NEW i \in 1 .. Len(s) PROVE s[i] \in {Head(s)} \cup Range(Tail(s))
        <3>1. CASE i = 1 BY <1>2, <3>1
        <3>2. CASE i # 1
            <4>1. i - 1 \in 1 .. Len(s) - 1 /\ (i - 1) + 1 = i BY <1>2, <3>2
            <4>2. s[i] = Tail(s)[i - 1] BY <1>1, <4>1
            <4> QED BY <1>3, <4>1, <4>2
        <3> QED BY <3>1, <3>2
    <2>2. ASSUME NEW i \in 1 .. Len(s) - 1 PROVE Tail(s)[i] \in Range(s)
        <3>1. i + 1 \in 1 .. Len(s) BY <1>2
        <3> QED BY <1>1, <1>3, <3>1
    <2>3. Head(s) \in Range(s) BY <1>2, <1>3
    <2> QED BY <1>3, <2>1, <2>2, <2>3
<1>5. ASSUME Increasing(s)
      PROVE  /\ Increasing(Tail(s))
             /\ \A i \in 1 .. Len(s) - 1 : Head(s).frame < Tail(s)[i].frame
    <2>1. DOMAIN s = 1 .. Len(s) /\ DOMAIN Tail(s) = 1 .. Len(s) - 1
        BY <1>1
    <2>2. ASSUME NEW i \in 1 .. Len(s) - 1, NEW j \in 1 .. Len(s) - 1, i < j
          PROVE  Tail(s)[i].frame < Tail(s)[j].frame
        <3>1. i + 1 \in DOMAIN s /\ j + 1 \in DOMAIN s /\ i + 1 < j + 1
            BY <1>2, <2>1, <2>2
        <3> QED BY <1>1, <1>5, <3>1 DEF Increasing
    <2>3. ASSUME NEW i \in 1 .. Len(s) - 1 PROVE Head(s).frame < Tail(s)[i].frame
        <3>1. 1 \in DOMAIN s /\ i + 1 \in DOMAIN s /\ 1 < i + 1 BY <1>2, <2>1
        <3> QED BY <1>1, <1>2, <1>5, <3>1 DEF Increasing
    <2> QED BY <2>1, <2>2, <2>3 DEF Increasing
<1>6. ASSUME Increasing(s) PROVE Head(s) \notin Range(Tail(s))
    <2> SUFFICES ASSUME NEW i \in 1 .. Len(s) - 1, Head(s) = Tail(s)[i] PROVE FALSE
        BY <1>3
    <2>1. Head(s).frame \in Nat BY <1>1 DEF Lease
    <2>2. Head(s).frame < Head(s).frame BY <1>5, <1>6
    <2> QED BY <2>1, <2>2
<1> QED BY <1>1, <1>3, <1>4, <1>5, <1>6 DEF Below

\* Adding a lease at the end.
LEMMA AppendFacts ==
    ASSUME NEW s \in Seq(Lease), NEW l \in Lease
    PROVE  /\ Append(s, l) \in Seq(Lease)
           /\ Len(Append(s, l)) = Len(s) + 1
           /\ Range(Append(s, l)) = Range(s) \cup {l}
           /\ Increasing(s) /\ Below(Range(s), {l}) => Increasing(Append(s, l))
<1> DEFINE t == Append(s, l)
<1>1. /\ t \in Seq(Lease) /\ Len(t) = Len(s) + 1 /\ t[Len(s) + 1] = l
      /\ \A i \in 1 .. Len(s) : t[i] = s[i]
    BY AppendProperties
<1>2. Len(s) \in Nat OBVIOUS
<1> HIDE DEF t
<1>3. /\ Range(s) = {s[i] : i \in 1 .. Len(s)}
      /\ Range(t) = {t[i] : i \in 1 .. Len(s) + 1}
    BY <1>1, RangeEquality
<1>4. Range(t) = Range(s) \cup {l}
    <2>1. ASSUME NEW i \in 1 .. Len(s) + 1 PROVE t[i] \in Range(s) \cup {l}
        BY <1>1, <1>2, <1>3
    <2>2. l \in Range(t) BY <1>1, <1>2, <1>3
    <2>3. ASSUME NEW i \in 1 .. Len(s) PROVE s[i] \in Range(t)
        BY <1>1, <1>2, <1>3
    <2> QED BY <1>3, <2>1, <2>2, <2>3
<1>5. ASSUME Increasing(s), Below(Range(s), {l}) PROVE Increasing(t)
    <2>1. DOMAIN s = 1 .. Len(s) /\ DOMAIN t = 1 .. Len(s) + 1 BY <1>1
    <2> SUFFICES ASSUME NEW i \in 1 .. Len(s) + 1, NEW j \in 1 .. Len(s) + 1, i < j
                 PROVE  t[i].frame < t[j].frame
        BY <2>1 DEF Increasing
    <2>2. i \in 1 .. Len(s) BY <1>2
    <2>3. CASE j = Len(s) + 1
        <3>1. s[i] \in Range(s) BY <1>3, <2>2
        <3> QED BY <1>1, <1>5, <2>2, <2>3, <3>1 DEF Below
    <2>4. CASE j # Len(s) + 1
        <3>1. j \in 1 .. Len(s) BY <1>2, <2>4
        <3> QED BY <1>1, <1>5, <2>1, <2>2, <3>1 DEF Increasing
    <2> QED BY <2>3, <2>4
<1> QED BY <1>1, <1>4, <1>5 DEF t

\* A sequence has no more leases than places.
LEMMA RangeSize ==
    ASSUME NEW s \in Seq(Lease)
    PROVE  IsFiniteSet(Range(s)) /\ Cardinality(Range(s)) <= Len(s)
<1>1. Len(s) \in Nat /\ DOMAIN s = 1 .. Len(s) OBVIOUS
<1>2. IsFiniteSet(DOMAIN s) /\ Cardinality(DOMAIN s) = Len(s)
    BY <1>1, FS_Interval
<1>3. s \in Surjection(DOMAIN s, Range(s))
    BY DEF Surjection, Range
<1> QED BY <1>2, <1>3, FS_Surjection

\* The empty sequence.
LEMMA EmptyFacts ==
    << >> \in Seq(Lease) /\ Len(<< >>) = 0 /\ Range(<< >>) = {} /\ Increasing(<< >>)
BY DEF Range, Increasing

\* Concatenating two increasing sequences, one below the other.
LEMMA ConcatFacts ==
    ASSUME NEW s \in Seq(Lease), NEW t \in Seq(Lease),
           Increasing(s), Increasing(t), Below(Range(s), Range(t))
    PROVE  /\ s \o t \in Seq(Lease) /\ Range(s \o t) = Range(s) \cup Range(t)
           /\ Increasing(s \o t)
<1> DEFINE u == s \o t
<1>1. /\ u \in Seq(Lease) /\ Len(u) = Len(s) + Len(t)
      /\ \A i \in 1 .. Len(s) + Len(t) :
             u[i] = IF i <= Len(s) THEN s[i] ELSE t[i - Len(s)]
    BY ConcatProperties
<1>2. Range(u) = Range(s) \cup Range(t) BY RangeConcatenation
<1>3. Len(s) \in Nat /\ Len(t) \in Nat OBVIOUS
<1> HIDE DEF u
<1>4. /\ DOMAIN s = 1 .. Len(s) /\ DOMAIN t = 1 .. Len(t)
      /\ DOMAIN u = 1 .. Len(s) + Len(t)
    BY <1>1
<1>5. ASSUME NEW i \in 1 .. Len(s) + Len(t), NEW j \in 1 .. Len(s) + Len(t), i < j
      PROVE  u[i].frame < u[j].frame
    <2>1. CASE j <= Len(s)
        <3>1. i \in DOMAIN s /\ j \in DOMAIN s BY <1>3, <1>4, <1>5, <2>1
        <3>2. u[i] = s[i] /\ u[j] = s[j] BY <1>1, <1>3, <1>4, <3>1
        <3> QED BY <1>5, <3>1, <3>2 DEF Increasing
    <2>2. CASE i <= Len(s) /\ j > Len(s)
        <3>1. i \in DOMAIN s /\ j - Len(s) \in DOMAIN t BY <1>3, <1>4, <2>2
        <3>2. u[i] = s[i] /\ u[j] = t[j - Len(s)] BY <1>1, <1>3, <2>2
        <3>3. s[i] \in Range(s) /\ t[j - Len(s)] \in Range(t) BY <3>1 DEF Range
        <3> QED BY <3>2, <3>3 DEF Below
    <2>3. CASE i > Len(s)
        <3>1. /\ i - Len(s) \in DOMAIN t /\ j - Len(s) \in DOMAIN t
              /\ i - Len(s) < j - Len(s)
            BY <1>3, <1>4, <1>5, <2>3
        <3>2. u[i] = t[i - Len(s)] /\ u[j] = t[j - Len(s)] BY <1>1, <1>3, <1>5, <2>3
        <3> QED BY <3>1, <3>2 DEF Increasing
    <2> QED BY <1>3, <2>1, <2>2, <2>3
<1>6. Increasing(u) BY <1>4, <1>5 DEF Increasing
<1> QED BY <1>1, <1>2, <1>6 DEF u

-----------------------------------------------------------------------------
(* Steps that move no lease.                                               *)

Still == UNCHANGED <<boxVars, leaseVars, out>>

\* They leave what is said about the leases alone.
LEMMA StillLeases ==
    ASSUME Accounted, Distinct, Ordered, Still
    PROVE  Accounted' /\ Distinct' /\ Ordered'
BY DEF Still, boxVars, leaseVars, Accounted, InHand, Distinct, Ordered, Encoding,
       Exporting, Offered

ExportStill ==
    \/ \E n \in SUBSET Consumers : BeginFrame(n)
    \/ AcquireNothing \/ CheckGate \/ NoteQueued \/ ExportExit

\* The export thread starts a frame, finds a mailbox empty, looks at the gate or
\* sets it, and leaves.
LEMMA ExportStillStep ==
    ASSUME IInv, ExportStill
    PROVE  IInv'
<1> USE DEF IInv
<1>1. Still
    BY DEF ExportStill, BeginFrame, AcquireNothing, CheckGate, NoteQueued, ExportExit,
           Still, boxVars, leaseVars, historyVars
<1>2. UNCHANGED <<configVars, runVars, epc, ppc, mpc, queued>>
    BY DEF ExportStill, BeginFrame, AcquireNothing, CheckGate, NoteQueued, ExportExit,
           historyVars
<1>3. /\ xpc' \in {"idle", "output", "snapshot", "preview", "release", "enqueue", "exited"}
      /\ need' \in SUBSET Consumers
      /\ gate' \in Nat
      /\ gate' \in {0, queued}
      /\ xpc \notin {"exited", "dropped", "previewDropped"}
    <2>1. ASSUME NEW n \in SUBSET Consumers, BeginFrame(n) PROVE <1>3
        BY <2>1 DEF BeginFrame, GoOn, TypeOK, Noted
    <2>2. CASE AcquireNothing
        BY <2>2 DEF AcquireNothing, GoOn, OutputDone, SnapshotDone, PreviewDone, TypeOK, Noted
    <2>3. CASE CheckGate BY <2>3 DEF CheckGate, TypeOK, Noted
    <2>4. CASE NoteQueued BY <2>4 DEF NoteQueued, GoOn, OutputDone, TypeOK
    <2>5. CASE ExportExit BY <2>5 DEF ExportExit, TypeOK, Noted
    <2> QED BY <2>1, <2>2, <2>3, <2>4, <2>5 DEF ExportStill
<1>4. (xpc' \in ExportHolds <=> xpc \in ExportHolds)
          /\ (xpc' \in {"enqueue", "release"} => xpc \in {"gate"})
    BY DEF ExportStill, BeginFrame, AcquireNothing, CheckGate, NoteQueued, ExportExit,
           GoOn, OutputDone, SnapshotDone, PreviewDone, ExportHolds
<1>5. TypeOK'
    BY <1>1, <1>2, <1>3 DEF TypeOK, Still, boxVars, leaseVars, configVars, runVars
<1>6. Carried' /\ Joined' /\ Room' /\ Noted'
    <2>1. Carried'
        BY <1>1, <1>2, <1>3, <1>4 DEF Carried, Still, leaseVars, runVars
    <2>2. Joined' /\ Room' /\ Noted'
        BY <1>1, <1>2, <1>3 DEF Joined, Room, Noted, Still, leaseVars, runVars
    <2> QED BY <2>1, <2>2
<1> QED BY <1>1, <1>5, <1>6, StillLeases

OtherStill ==
    \/ EncoderWait \/ EncoderStop
    \/ \E dupOk, bframes \in BOOLEAN : EncoderConsume(dupOk, bframes)
    \/ PreviewWait \/ PreviewStop
    \/ Setters
    \/ StopExport \/ JoinExport \/ JoinPreview \/ JoinEncoder

\* The hand-off threads wait and stop, the setters set, and the threads are
\* joined.
LEMMA OtherStillStep ==
    ASSUME IInv, OtherStill
    PROVE  IInv'
<1> USE DEF IInv
<1>1. Still /\ UNCHANGED <<need, xpc, queued, encoderOn, previewOn>>
    BY DEF OtherStill, EncoderWait, EncoderStop, EncoderConsume, PreviewWait, PreviewStop,
           Setters, SetEncoderManager, SetPreviewEngine, SetColorMode, StopExport,
           JoinExport, JoinPreview, JoinEncoder, Still, boxVars, leaseVars, runVars,
           historyVars
<1>2. gate' \in {gate, 0} /\ exportOn' \in BOOLEAN /\ encoderMgr' \in BOOLEAN
          /\ preview' \in BOOLEAN
    BY DEF OtherStill, EncoderWait, EncoderStop, EncoderConsume, PreviewWait, PreviewStop,
           Setters, SetEncoderManager, SetPreviewEngine, SetColorMode, StopExport,
           JoinExport, JoinPreview, JoinEncoder, configVars, runVars, TypeOK
<1>3. \/ UNCHANGED <<epc, ppc, mpc>>
      \/ /\ UNCHANGED <<ppc, mpc>>
         /\ \/ epc = "loop" /\ epc' = "waiting"
            \/ epc = "loop" /\ epc' = "exiting" /\ ~encoderOn
            \/ epc = "consume" /\ epc' \in {"retain", "flush"}
      \/ /\ UNCHANGED <<epc, mpc>>
         /\ ppc = "loop" /\ ppc' \in {"waiting", "exited"}
      \/ /\ UNCHANGED <<epc, ppc>>
         /\ \/ mpc = "run" /\ mpc' = "joinExport"
            \/ mpc = "joinExport" /\ mpc' = "stopPreview" /\ xpc = "exited"
            \/ mpc = "joinPreview" /\ mpc' = "stopEncoder" /\ ppc = "exited"
            \/ mpc = "joinEncoder" /\ mpc' = "freed" /\ epc = "exited"
    BY DEF OtherStill, EncoderWait, EncoderStop, EncoderConsume, PreviewWait, PreviewStop,
           Setters, SetEncoderManager, SetPreviewEngine, SetColorMode, StopExport,
           JoinExport, JoinPreview, JoinEncoder
<1>4. TypeOK'
    BY <1>1, <1>2, <1>3 DEF TypeOK, Still, boxVars, leaseVars
<1>5. Carried'
    BY <1>1, <1>3 DEF Carried, Still, leaseVars
<1>6. Joined' /\ Room' /\ Noted'
    BY <1>1, <1>2, <1>3 DEF Joined, Room, Noted, Still, leaseVars
<1> QED BY <1>1, <1>4, <1>5, <1>6, StillLeases

-----------------------------------------------------------------------------
(* Leases that are given back.                                             *)

\* The pipeline stays in order when leases leave it, ...
LEMMA ChainSub ==
    ASSUME NEW R, NEW E, NEW D, NEW Q, NEW X, NEW B, Chain(R, E, D, Q, X, B),
           NEW R2 \in SUBSET R, NEW E2 \in SUBSET E, NEW D2 \in SUBSET D,
           NEW Q2 \in SUBSET Q, NEW X2 \in SUBSET X, NEW B2 \in SUBSET B
    PROVE  Chain(R2, E2, D2, Q2, X2, B2)
BY DEF Chain, Below

\* ... and when one goes on to the next stage that is empty, or joins it.
LEMMA ChainMoves ==
    ASSUME NEW R, NEW E, NEW D, NEW Q, NEW X, NEW B, NEW l, NEW Q2 \in SUBSET Q
    PROVE  /\ Chain(R, E, D, Q, {}, {l}) => Chain(R, E, D, Q, {l}, {})
           /\ Chain(R, E, D, Q, {l}, B) => Chain(R, E, D, Q2 \cup {l}, {}, B)
           /\ Chain(R, {}, {}, Q2 \cup {l}, X, B) /\ Below({l}, Q2)
                  => Chain(R, {l}, {}, Q2, X, B)
           /\ Chain(R, {l}, D, Q, X, B) => Chain(R \cup {l}, {}, D, Q, X, B)
           /\ Chain(R, E, {}, Q, X, B) => Chain(R, E, Q, {}, X, B)
BY DEF Chain, Below

\* What the types and the places of the leases say together.
LEMMA HandFacts ==
    ASSUME TypeOK, Accounted
    PROVE  /\ \A c \in Cell : cell[c] # NoLease => cell[c] \in Lease /\ cell[c] \in out
           /\ Range(queue) \subseteq Lease /\ Range(queue) \subseteq out
           /\ Range(retained) \subseteq Lease /\ Range(retained) \subseteq out
           /\ Range(draining) \subseteq Lease /\ Range(draining) \subseteq out
           /\ NoLease \notin out /\ NoLease \notin Lease
<1>1. /\ Range(queue) \subseteq Lease /\ Range(retained) \subseteq Lease
      /\ Range(draining) \subseteq Lease
    BY RangeOfSeq DEF TypeOK
<1>2. \A c \in Cell : cell[c] # NoLease => cell[c] \in Lease /\ cell[c] \in out
    <2> SUFFICES ASSUME NEW c \in Cell, cell[c] # NoLease
                 PROVE  cell[c] \in Lease /\ cell[c] \in out
        OBVIOUS
    <2>1. cell[c] \in InHand BY DEF InHand
    <2> QED BY <2>1 DEF TypeOK, Accounted
<1>3. Range(queue) \cup Range(retained) \cup Range(draining) \subseteq InHand
    BY DEF InHand
<1> QED BY <1>1, <1>2, <1>3, NoLeaseAssumption DEF Accounted

\* Steps that take nothing from a mailbox only have to account for the leases.
LEMMA AccountedStep ==
    ASSUME Accounted, UNCHANGED boxVars, out' \subseteq out, out' = InHand' \ {NoLease}
    PROVE  Accounted'
BY DEF Accounted, boxVars

\* The lease of a variable of a thread is given back, and the variable cleared.
LEMMA CellGivenBack ==
    ASSUME IInv, NEW c \in Cell, cell' = [cell EXCEPT ![c] = NoLease],
           out' = out \ {cell[c]}, UNCHANGED <<boxVars, queue, retained, draining>>
    PROVE  Accounted' /\ Distinct' /\ Ordered'
<1> USE DEF IInv
<1>1. \A d \in Cell : cell'[d] = IF d = c THEN NoLease ELSE cell[d]
    BY DEF TypeOK
<1>2. Accounted'
    <2>1. InHand' = {cell'[d] : d \in Cell} \cup Range(queue) \cup Range(retained)
                        \cup Range(draining)
        BY DEF InHand
    <2>2. ASSUME NEW l \in out' PROVE l \in InHand' \ {NoLease}
        <3>1. l \in InHand \ {NoLease} /\ l # cell[c] BY DEF Accounted
        <3> QED BY <1>1, <2>1, <3>1 DEF InHand
    <2>3. ASSUME NEW l \in InHand' \ {NoLease} PROVE l \in out'
        <3>1. l # cell[c] /\ l \in InHand
            BY <1>1, <2>1 DEF InHand, Distinct
        <3> QED BY <3>1 DEF Accounted
    <2>4. out' = InHand' \ {NoLease} BY <2>2, <2>3
    <2> QED BY <2>4, AccountedStep
<1>3. Distinct' BY <1>1, HandFacts DEF Distinct
<1>4. Ordered'
    <2>1. Encoding' \subseteq Encoding /\ Exporting' \subseteq Exporting /\ Offered' = Offered
        BY <1>1, NoLeaseAssumption DEF Encoding, Exporting, Offered, OutputOf, boxVars, Cell
    <2> HIDE DEF Encoding, Exporting, Offered
    <2>2. Chain(Range(retained), Encoding, Range(draining), Range(queue), Exporting, Offered)
        BY DEF Ordered
    <2> DEFINE C2 == Chain(Range(retained), Encoding', Range(draining), Range(queue), Exporting', Offered')
    <2>3. C2 BY <2>1, <2>2, ChainSub
    <2> QED BY <2>3 DEF Ordered
<1> QED BY <1>2, <1>3, <1>4

\* The oldest lease of the retained ones, or of those the main thread drains.
LEMMA HeadGivenBack ==
    ASSUME IInv, UNCHANGED <<boxVars, cell, queue>>,
           \/ /\ retained # << >> /\ retained' = Tail(retained)
              /\ draining' = draining /\ out' = out \ {Head(retained)}
           \/ /\ draining # << >> /\ draining' = Tail(draining)
              /\ retained' = retained /\ out' = out \ {Head(draining)}
    PROVE  Accounted' /\ Distinct' /\ Ordered'
<1> USE DEF IInv
<1>t. /\ retained \in Seq(Lease) /\ draining \in Seq(Lease)
      /\ Increasing(retained) /\ Increasing(draining)
    BY DEF TypeOK, Ordered
<1>c. Chain(Range(retained), Encoding, Range(draining), Range(queue), Exporting, Offered)
    BY DEF Ordered
<1>d. /\ Range(retained) \cap Range(draining) = {}
      /\ Range(retained) \cap Range(queue) = {} /\ Range(draining) \cap Range(queue) = {}
      /\ \A e \in Cell : cell[e] \notin Range(retained) \cup Range(draining)
    <2>1. \A l \in Range(retained) \cup Range(draining) : l.frame \in Nat
        BY HandFacts DEF Lease
    <2>2. /\ Below(Range(retained), Range(draining)) /\ Below(Range(retained), Range(queue))
          /\ Below(Range(draining), Range(queue))
        BY <1>c DEF Chain
    <2> QED BY <2>1, <2>2 DEF Below, Distinct
<1>1. CASE /\ retained # << >> /\ retained' = Tail(retained)
           /\ draining' = draining /\ out' = out \ {Head(retained)}
    <2>1. /\ Range(retained) = {Head(retained)} \cup Range(retained')
          /\ Head(retained) \notin Range(retained')
          /\ Increasing(retained')
        BY <1>1, <1>t, TailFacts
    <2>2. InHand' = {cell[e] : e \in Cell} \cup Range(queue) \cup Range(retained')
                        \cup Range(draining)
        BY <1>1 DEF InHand
    <2>3. out' = InHand' \ {NoLease}
        BY <1>1, <1>d, <2>1, <2>2 DEF Accounted, InHand
    <2>4. Accounted' BY <1>1, <2>3, AccountedStep
    <2>5. Distinct' BY <1>1, <2>1 DEF Distinct
    <2>6. Encoding' = Encoding /\ Exporting' = Exporting /\ Offered' = Offered
        BY DEF Encoding, Exporting, Offered, boxVars
    <2>7. Chain(Range(retained'), Encoding, Range(draining), Range(queue), Exporting, Offered)
        BY <1>c, <2>1, ChainSub
    <2>8. Ordered' BY <1>1, <1>t, <2>1, <2>6, <2>7 DEF Ordered
    <2> QED BY <2>4, <2>5, <2>8
<1>2. CASE /\ draining # << >> /\ draining' = Tail(draining)
           /\ retained' = retained /\ out' = out \ {Head(draining)}
    <2>1. /\ Range(draining) = {Head(draining)} \cup Range(draining')
          /\ Head(draining) \notin Range(draining')
          /\ Increasing(draining')
        BY <1>2, <1>t, TailFacts
    <2>2. InHand' = {cell[e] : e \in Cell} \cup Range(queue) \cup Range(retained)
                        \cup Range(draining')
        BY <1>2 DEF InHand
    <2>3. out' = InHand' \ {NoLease}
        BY <1>2, <1>d, <2>1, <2>2 DEF Accounted, InHand
    <2>4. Accounted' BY <1>2, <2>3, AccountedStep
    <2>5. Distinct' BY <1>2, <2>1 DEF Distinct
    <2>6. Encoding' = Encoding /\ Exporting' = Exporting /\ Offered' = Offered
        BY DEF Encoding, Exporting, Offered, boxVars
    <2>7. Chain(Range(retained), Encoding, Range(draining'), Range(queue), Exporting, Offered)
        BY <1>c, <2>1, ChainSub
    <2>8. Ordered' BY <1>2, <1>t, <2>1, <2>6, <2>7 DEF Ordered
    <2> QED BY <2>4, <2>5, <2>8
<1> QED BY <1>1, <1>2

\* The export thread gives back the lease it evicted or did not hand over.
LEMMA ExportGivesBack ==
    ASSUME IInv, ReleaseDropped \/ ReleaseExport
    PROVE  IInv'
<1> USE DEF IInv
<1>0. PICK c \in {"dropped", "export"} :
          /\ cell' = [cell EXCEPT ![c] = NoLease]
          /\ out' = out \ {cell[c]}
          /\ c = "dropped" => xpc \in {"dropped", "previewDropped"}
          /\ c = "export" => xpc \in {"release", "snapshotRelease", "previewRelease"}
    BY DEF ReleaseDropped, ReleaseExport, GiveBack
<1>1. /\ UNCHANGED <<boxVars, queue, retained, draining>>
      /\ UNCHANGED <<configVars, gate, runVars, epc, ppc, mpc, queued>>
    BY DEF ReleaseDropped, ReleaseExport
<1>2. Accounted' /\ Distinct' /\ Ordered'
    <2>1. c \in Cell BY DEF Cell
    <2> QED BY <1>0, <1>1, <2>1, CellGivenBack
<1>3. /\ xpc' \in {"idle", "output", "snapshot", "preview", "note"}
      /\ need' \in SUBSET Consumers
      /\ xpc = "dropped" => xpc' = "note"
    BY DEF ReleaseDropped, ReleaseExport, GoOn, OutputDone, SnapshotDone, PreviewDone, TypeOK
<1>4. TypeOK'
    <2>1. cell' \in [Cell -> Lease \cup {NoLease}] BY <1>0 DEF TypeOK
    <2>2. out' \subseteq Lease BY <1>0 DEF TypeOK
    <2> QED BY <1>1, <1>3, <2>1, <2>2 DEF TypeOK, boxVars, configVars, runVars
<1>5. \A d \in Cell : cell'[d] = IF d = c THEN NoLease ELSE cell[d]
    BY <1>0 DEF TypeOK
<1>6. Carried'
    BY <1>0, <1>1, <1>3, <1>5 DEF Carried, ExportHolds, Cell, runVars
<1>7. Joined' /\ Room'
    BY <1>0, <1>1, <1>3 DEF Joined, Room, runVars
<1>8. Noted' BY <1>0, <1>1, <1>3 DEF Noted
<1> QED BY <1>2, <1>4, <1>6, <1>7, <1>8

\* The preview thread gives back the frame it encoded, the main thread the one
\* that was pending, the encoder thread one it cannot encode.
LEMMA OthersGiveBack ==
    ASSUME IInv, PreviewConsume \/ ReleasePending \/ EncoderDiscard
    PROVE  IInv'
<1> USE DEF IInv
<1>0. PICK c \in {"preview", "closing", "encoder"} :
          /\ cell' = [cell EXCEPT ![c] = NoLease]
          /\ out' = out \ {cell[c]}
          /\ c = "preview" => ppc = "consume" /\ ppc' = "loop" /\ UNCHANGED <<mpc, epc>>
          /\ c = "closing" =>
                 mpc = "releasePending" /\ mpc' = "joinPreview" /\ UNCHANGED <<ppc, epc>>
          /\ c = "encoder" => epc = "discard" /\ epc' = "loop" /\ UNCHANGED <<ppc, mpc>>
    BY DEF PreviewConsume, ReleasePending, EncoderDiscard, GiveBack
<1>1. /\ UNCHANGED <<boxVars, queue, retained, draining>>
      /\ UNCHANGED <<configVars, gate, need, runVars, xpc, queued>>
    BY DEF PreviewConsume, ReleasePending, EncoderDiscard
<1>2. Accounted' /\ Distinct' /\ Ordered'
    <2>1. c \in Cell BY DEF Cell
    <2> QED BY <1>0, <1>1, <2>1, CellGivenBack
<1>4. TypeOK'
    <2>1. cell' \in [Cell -> Lease \cup {NoLease}] BY <1>0 DEF TypeOK
    <2>2. out' \subseteq Lease BY <1>0 DEF TypeOK
    <2> QED BY <1>0, <1>1, <2>1, <2>2 DEF TypeOK, boxVars, configVars, runVars
<1>5. \A d \in Cell : cell'[d] = IF d = c THEN NoLease ELSE cell[d]
    BY <1>0 DEF TypeOK
<1>6. Carried'
    BY <1>0, <1>1, <1>5 DEF Carried, ExportHolds, Cell, runVars
<1>7. Joined' /\ Room' /\ Noted'
    BY <1>0, <1>1 DEF Joined, Room, Noted, runVars
<1> QED BY <1>2, <1>4, <1>6, <1>7

\* The encoder thread gives back the retained frames one by one, at last its
\* own.
LEMMA EncoderGivesBack ==
    ASSUME IInv, EncoderTrim \/ EncoderFlush
    PROVE  IInv'
<1> USE DEF IInv
<1>0. /\ UNCHANGED <<boxVars, queue, draining, configVars, gate, need, runVars, xpc, ppc,
                     mpc, queued>>
    BY DEF EncoderTrim, EncoderFlush
<1>1. CASE /\ retained # << >> /\ retained' = Tail(retained)
           /\ out' = out \ {Head(retained)} /\ UNCHANGED <<cell, epc>>
    <2>1. Accounted' /\ Distinct' /\ Ordered' BY <1>0, <1>1, HeadGivenBack
    <2>2. /\ retained' \in Seq(Lease) /\ Len(retained') = Len(retained) - 1
          /\ Range(retained') \subseteq Range(retained)
        <3>1. retained \in Seq(Lease) BY DEF TypeOK
        <3>2. /\ Tail(retained) \in Seq(Lease)
              /\ Len(Tail(retained)) = Len(retained) - 1
              /\ Range(retained) = {Head(retained)} \cup Range(Tail(retained))
            BY <1>1, <3>1, TailFacts
        <3> QED BY <1>1, <3>2
    <2>3. TypeOK' BY <1>0, <1>1, <2>2 DEF TypeOK, boxVars, configVars, runVars
    <2>4. Carried' BY <1>0, <1>1, <2>2 DEF Carried, runVars
    <2>5. Joined' /\ Room' /\ Noted'
        <3>1. Len(retained) \in Nat BY DEF TypeOK
        <3>2. Room' BY <1>0, <1>1, <2>2, <3>1, CapacityAssumption DEF Room
        <3>3. Joined' /\ Noted' BY <1>0, <1>1 DEF Joined, Noted, runVars
        <3> QED BY <3>2, <3>3
    <2> QED BY <2>1, <2>3, <2>4, <2>5
<1>2. CASE /\ epc = "trim" /\ ~Surplus /\ epc' = "loop" /\ UNCHANGED <<cell, out, retained>>
    <2>1. Accounted' /\ Distinct' /\ Ordered'
        BY <1>0, <1>2, StillLeases DEF Still, leaseVars
    <2>2. TypeOK' BY <1>0, <1>2 DEF TypeOK, boxVars, configVars, runVars
    <2>3. Carried' BY <1>0, <1>2 DEF Carried, runVars
    <2>4. Len(retained) \in Nat /\ RetainCount \in Nat BY CapacityAssumption DEF TypeOK
    <2>5. Room' BY <1>0, <1>2, <2>4 DEF Room, Surplus
    <2>6. Joined' /\ Noted' BY <1>0, <1>2 DEF Joined, Noted, runVars
    <2> QED BY <2>1, <2>2, <2>3, <2>5, <2>6
<1>3. CASE /\ epc \in {"flush", "exiting"} /\ retained = << >>
           /\ cell' = [cell EXCEPT !["encoder"] = NoLease]
           /\ out' = out \ {cell["encoder"]}
           /\ epc' = IF epc = "flush" THEN "loop" ELSE "exited"
           /\ UNCHANGED retained
    <2>0. "encoder" \in Cell BY DEF Cell
    <2>1. Accounted' /\ Distinct' /\ Ordered'
        BY <1>0, <1>3, <2>0, CellGivenBack
    <2>2. cell' \in [Cell -> Lease \cup {NoLease}] /\ out' \subseteq Lease
        BY <1>3 DEF TypeOK
    <2>3. TypeOK' BY <1>0, <1>3, <2>2 DEF TypeOK, boxVars, configVars, runVars
    <2>4. \A d \in Cell : cell'[d] = IF d = "encoder" THEN NoLease ELSE cell[d]
        BY <1>3 DEF TypeOK
    <2>5. Carried' BY <1>0, <1>3, <2>4 DEF Carried, ExportHolds, Cell, runVars
    <2>6. Joined' /\ Room' /\ Noted'
        BY <1>0, <1>3 DEF Joined, Room, Noted, runVars
    <2> QED BY <2>1, <2>3, <2>5, <2>6
<1>4. Surplus => retained # << >>
    BY CapacityAssumption DEF Surplus
<1> QED BY <1>1, <1>2, <1>3, <1>4 DEF EncoderTrim, EncoderFlush, GiveBack

\* The main thread gives back what was queued, one lease after the other.
LEMMA MainGivesBack ==
    ASSUME IInv, ReleaseDraining
    PROVE  IInv'
<1> USE DEF IInv
<1>0. UNCHANGED <<boxVars, cell, queue, retained, configVars, gate, need, runVars, xpc,
                  epc, ppc, queued>>
    BY DEF ReleaseDraining
<1>1. CASE draining # << >>
    <2>0. draining' = Tail(draining) /\ out' = out \ {Head(draining)} /\ mpc' = mpc
        BY <1>1 DEF ReleaseDraining, GiveBack
    <2>1. Accounted' /\ Distinct' /\ Ordered' BY <1>0, <1>1, <2>0, HeadGivenBack
    <2>2. /\ draining' \in Seq(Lease) /\ Len(draining') = Len(draining) - 1
          /\ Range(draining') \subseteq Range(draining)
        <3>1. draining \in Seq(Lease) BY DEF TypeOK
        <3>2. /\ Tail(draining) \in Seq(Lease)
              /\ Len(Tail(draining)) = Len(draining) - 1
              /\ Range(draining) = {Head(draining)} \cup Range(Tail(draining))
            BY <1>1, <3>1, TailFacts
        <3> QED BY <2>0, <3>2
    <2>3. TypeOK' BY <1>0, <2>0, <2>2 DEF TypeOK, boxVars, configVars, runVars
    <2>4. Carried' BY <1>0, <2>0, <2>2 DEF Carried, runVars
    <2>5. Len(draining) \in Nat BY DEF TypeOK
    <2>6. Room' BY <1>0, <2>0, <2>2, <2>5, CapacityAssumption DEF Room
    <2>7. Joined' /\ Noted' BY <1>0, <1>1, <2>0 DEF Joined, Noted, runVars
    <2> QED BY <2>1, <2>3, <2>4, <2>6, <2>7
<1>2. CASE draining = << >>
    <2>0. mpc = "releaseDraining" /\ mpc' = "joinEncoder" /\ UNCHANGED <<out, draining>>
        BY <1>2 DEF ReleaseDraining
    <2>1. Accounted' /\ Distinct' /\ Ordered'
        BY <1>0, <2>0, StillLeases DEF Still, leaseVars
    <2>2. TypeOK' BY <1>0, <2>0 DEF TypeOK, boxVars, configVars, runVars
    <2>3. Carried' BY <1>0, <2>0 DEF Carried, runVars
    <2>4. Joined' /\ Room' /\ Noted' BY <1>0, <1>2, <2>0 DEF Joined, Room, Noted, runVars
    <2> QED BY <2>1, <2>2, <2>3, <2>4
<1> QED BY <1>1, <1>2

-----------------------------------------------------------------------------
(* Leases that are handed on.                                              *)

\* Steps that only move leases between the router's variables.
LEMMA MovedStep ==
    ASSUME Accounted, UNCHANGED <<boxVars, out>>, InHand' \ {NoLease} = InHand \ {NoLease}
    PROVE  Accounted'
BY DEF Accounted, boxVars

\* The compositor's lease goes through the encoder queue: at its end ...
LEMMA EnqueueLeaseStep ==
    ASSUME IInv, EnqueueLease
    PROVE  IInv'
<1> USE DEF IInv
<1> DEFINE l == cell["export"]
           rest == IF QueueFull THEN Tail(queue) ELSE queue
<1>0. /\ UNCHANGED <<boxVars, retained, draining, configVars, gate, need, runVars,
                     ppc, mpc, out>>
      /\ xpc = "enqueue"
    BY DEF EnqueueLease
<1>1. CASE ~(encoderMgr /\ encoderOn)
    <2>1. xpc' = "release" /\ UNCHANGED <<cell, queue, queued, epc>>
        BY <1>1 DEF EnqueueLease
    <2>2. Accounted' /\ Distinct' /\ Ordered'
        BY <1>0, <2>1, StillLeases DEF Still, leaseVars
    <2>3. TypeOK' BY <1>0, <2>1 DEF TypeOK, boxVars, configVars, runVars
    <2>4. Carried' BY <1>0, <2>1 DEF Carried, ExportHolds, runVars
    <2>5. Joined' /\ Room' /\ Noted' BY <1>0, <2>1 DEF Joined, Room, Noted, runVars
    <2> QED BY <2>2, <2>3, <2>4, <2>5
<1>2. CASE encoderMgr /\ encoderOn
    <2>1. /\ cell' = [cell EXCEPT !["dropped"] = Evicted, !["export"] = NoLease]
          /\ queue' = QueueWith(l) /\ queued' = l.content
          /\ epc' = Signaled(epc) /\ xpc' = "dropped"
        BY <1>2 DEF EnqueueLease
    <2>2. l \in Lease /\ l \in out /\ l.box = "OUTPUT" /\ l.content \in Nat
        BY <1>0, HandFacts DEF Carried, ExportHolds, Cell, Lease
    <2>3. cell["dropped"] = NoLease BY <1>0 DEF Carried
    <2>4. queue \in Seq(Lease) /\ Len(queue) \in Nat /\ Increasing(queue)
        BY DEF TypeOK, Ordered
    <2>5. /\ rest \in Seq(Lease) /\ Increasing(rest) /\ Len(rest) + 1 <= QueueCapacity
          /\ Range(queue) = Range(rest) \cup ({Evicted} \ {NoLease})
          /\ Evicted \notin Range(rest)
          /\ Evicted \in Lease \cup {NoLease}
        <3>1. CASE QueueFull
            <4>1. queue # << >> /\ Len(queue) <= QueueCapacity
                BY <3>1, <2>4, CapacityAssumption DEF QueueFull, Room
            <4>2. /\ Head(queue) \in Lease /\ Tail(queue) \in Seq(Lease)
                  /\ Range(queue) = {Head(queue)} \cup Range(Tail(queue))
                  /\ Increasing(Tail(queue)) /\ Head(queue) \notin Range(Tail(queue))
                  /\ Len(Tail(queue)) = Len(queue) - 1
                BY <2>4, <4>1, TailFacts
            <4>3. rest = Tail(queue) /\ Evicted = Head(queue) BY <3>1 DEF Evicted
            <4>4. Len(Tail(queue)) + 1 <= QueueCapacity
                BY <2>4, <4>1, <4>2, CapacityAssumption
            <4> HIDE DEF rest
            <4> QED BY <4>2, <4>3, <4>4, NoLeaseAssumption
        <3>2. CASE ~QueueFull
            <4>1. rest = queue /\ Evicted = NoLease BY <3>2 DEF Evicted
            <4>2. Len(queue) + 1 <= QueueCapacity
                BY <3>2, <2>4, CapacityAssumption DEF QueueFull
            <4>3. NoLease \notin Range(queue) BY HandFacts
            <4> HIDE DEF rest
            <4> QED BY <2>4, <4>1, <4>2, <4>3
        <3> QED BY <3>1, <3>2
    <2>6. queue' = Append(rest, l) BY <2>1 DEF QueueWith
    <2>7. Exporting = {l} BY <2>2 DEF Exporting, OutputOf
    <2>8. Chain(Range(retained), Encoding, Range(draining), Range(queue), {l}, Offered)
        BY <2>7 DEF Ordered
    <2> HIDE DEF rest, l
    <2>9. Below(Range(rest), {l}) BY <2>5, <2>8 DEF Chain, Below
    <2>10. /\ queue' \in Seq(Lease) /\ Len(queue') <= QueueCapacity
           /\ Range(queue') = Range(rest) \cup {l} /\ Increasing(queue')
        BY <2>2, <2>5, <2>6, <2>9, AppendFacts
    <2>11. \A d \in Cell : cell'[d] = IF d = "dropped" THEN Evicted
                                      ELSE IF d = "export" THEN NoLease ELSE cell[d]
        BY <2>1 DEF TypeOK, Cell
    <2>12. cell["export"] = l /\ "export" \in Cell /\ "dropped" \in Cell BY DEF l, Cell
    <2>13. Accounted'
        <3>1. InHand' = {cell'[d] : d \in Cell} \cup Range(queue') \cup Range(retained)
                            \cup Range(draining)
            BY <1>0 DEF InHand
        <3>2. ASSUME NEW k \in InHand' \ {NoLease} PROVE k \in InHand \ {NoLease}
            BY <2>5, <2>10, <2>11, <2>12, <3>1, <3>2 DEF InHand
        <3>3. ASSUME NEW k \in InHand \ {NoLease} PROVE k \in InHand' \ {NoLease}
            <4>1. CASE \E d \in Cell : k = cell[d]
                BY <2>3, <2>10, <2>11, <2>12, <3>1, <3>3, <4>1
            <4>2. CASE k \in Range(queue)
                BY <2>5, <2>10, <2>11, <2>12, <3>1, <3>3, <4>2
            <4>3. CASE k \in Range(retained) \cup Range(draining)
                BY <3>1, <3>3, <4>3
            <4> QED BY <3>3, <4>1, <4>2, <4>3 DEF InHand
        <3>4. InHand' \ {NoLease} = InHand \ {NoLease} BY <3>2, <3>3
        <3> QED BY <1>0, <3>4, MovedStep
    <2>14. Distinct'
        <3>1. Range(queue) \cap (Range(retained) \cup Range(draining)) = {}
            <4>1. \A k \in Range(queue) : k.frame \in Nat BY HandFacts DEF Lease
            <4>2. Below(Range(retained), Range(queue)) /\ Below(Range(draining), Range(queue))
                BY <2>8 DEF Chain
            <4> QED BY <4>1, <4>2 DEF Below
        <3>2. \A c \in Cell : cell[c] \notin Range(queue) \cup Range(retained) \cup Range(draining)
            BY DEF Distinct
        <3>3. NoLease \notin Range(queue) \cup Range(retained) \cup Range(draining)
            BY HandFacts
        <3>4. \A c, d \in Cell : cell[c] = cell[d] => c = d \/ cell[c] = NoLease
            BY DEF Distinct
        <3>5. ASSUME NEW c \in Cell
              PROVE  cell'[c] \notin Range(queue') \cup Range(retained) \cup Range(draining)
            <4>1. CASE c = "dropped"
                <5>1. CASE Evicted = NoLease
                    BY <2>2, <2>5, <2>10, <2>11, <3>3, <4>1, <5>1, NoLeaseAssumption
                <5>2. CASE Evicted # NoLease
                    <6>1. Evicted \in Range(queue) BY <2>5, <5>2
                    <6>2. Evicted # l BY <2>12, <3>2, <6>1
                    <6> QED BY <2>5, <2>10, <2>11, <3>1, <4>1, <6>1, <6>2
                <5> QED BY <5>1, <5>2
            <4>2. CASE c = "export"
                BY <2>2, <2>5, <2>10, <2>11, <2>12, <3>3, <4>2, NoLeaseAssumption
            <4>3. CASE c \notin {"dropped", "export"}
                <5>1. cell'[c] = cell[c] BY <2>11, <4>3
                <5>2. cell[c] # l
                    BY <2>2, <2>12, <3>4, <4>3, NoLeaseAssumption
                <5> QED BY <2>5, <2>10, <3>2, <5>1, <5>2
            <4> QED BY <4>1, <4>2, <4>3
        <3>6. ASSUME NEW c \in Cell, NEW d \in Cell, cell'[c] = cell'[d]
              PROVE  c = d \/ cell'[c] = NoLease
            <4>1. CASE Evicted = NoLease BY <2>11, <3>4, <3>6, <4>1
            <4>2. CASE Evicted # NoLease
                <5>1. Evicted \in Range(queue) BY <2>5, <4>2
                <5> QED BY <2>11, <3>2, <3>4, <3>6, <5>1
            <4> QED BY <4>1, <4>2
        <3> QED BY <1>0, <3>5, <3>6 DEF Distinct
    <2>15. Ordered'
        <3>1. Encoding' = Encoding /\ Exporting' = {} /\ Offered' = Offered
            BY <1>0, <2>11, <2>12, NoLeaseAssumption
               DEF Encoding, Exporting, Offered, OutputOf, boxVars, Cell
        <3>2. Chain(Range(retained), Encoding, Range(draining), Range(queue'), {}, Offered)
            <4>1. Range(rest) \in SUBSET Range(queue) BY <2>5
            <4>2. Chain(Range(retained), Encoding, Range(draining), Range(rest) \cup {l}, {},
                        Offered)
                BY <2>8, <4>1, ChainMoves
            <4> QED BY <2>10, <4>2
        <3> QED BY <1>0, <2>10, <3>1, <3>2 DEF Ordered
    <2>16. TypeOK'
        <3>1. cell' \in [Cell -> Lease \cup {NoLease}] BY <2>1, <2>5 DEF TypeOK
        <3>2. epc' \in {"loop", "waiting", "discard", "consume", "retain", "trim",
                        "flush", "exiting", "exited"}
            BY <2>1 DEF Signaled, TypeOK
        <3>3. queued' \in Nat BY <2>1, <2>2 DEF l
        <3> QED BY <1>0, <2>1, <2>10, <3>1, <3>2, <3>3, ZenonT(60) DEF TypeOK, boxVars, configVars, runVars
    <2>17. Carried'
        <3>1. \A k \in Range(queue') \cup Range(retained) \cup Range(draining) : k.box = "OUTPUT"
            BY <2>2, <2>5, <2>10 DEF Carried, l
        <3>2. epc' \in {epc, "loop"} /\ (epc' # epc => epc = "waiting")
            BY <2>1 DEF Signaled
        <3>3. /\ cell'["export"] = NoLease /\ cell'["encoder"] = cell["encoder"]
              /\ cell'["preview"] = cell["preview"] /\ cell'["waiting"] = cell["waiting"]
              /\ cell'["closing"] = cell["closing"]
            BY <2>11 DEF Cell
        <3>4. xpc' = "dropped" BY <2>1
        <3> QED BY <1>0, <3>1, <3>2, <3>3, <3>4 DEF Carried, ExportHolds, runVars
    <2>18. Joined' /\ Room' /\ Noted'
        <3>1. epc' \in {epc, "loop"} /\ (epc' # epc => epc = "waiting")
            BY <2>1 DEF Signaled
        <3>2. encoderOn /\ xpc' = "dropped" BY <1>2, <2>1
        <3>3. Joined' BY <1>0, <3>1, <3>2 DEF Joined, runVars
        <3>4. Room' BY <1>0, <2>10, <3>1 DEF Room
        <3>5. Noted' BY <3>2 DEF Noted
        <3> QED BY <3>3, <3>4, <3>5
    <2> QED BY <2>13, <2>14, <2>15, <2>16, <2>17, <2>18
<1> QED BY <1>1, <1>2

\* ... and at its front.
LEMMA EncoderTakeStep ==
    ASSUME IInv, EncoderTake
    PROVE  IInv'
<1> USE DEF IInv
<1> DEFINE h == Head(queue)
<1>0. /\ UNCHANGED <<boxVars, retained, draining, configVars, gate, need, runVars,
                     xpc, ppc, mpc, out, queued>>
      /\ epc = "loop" /\ queue # << >> /\ epc' \in {"consume", "discard"}
      /\ cell' = [cell EXCEPT !["encoder"] = h] /\ queue' = Tail(queue)
    BY DEF EncoderTake, historyVars
<1>1. queue \in Seq(Lease) /\ Len(queue) \in Nat /\ Increasing(queue)
    BY DEF TypeOK, Ordered
<1>2. /\ h \in Lease /\ queue' \in Seq(Lease)
      /\ Range(queue) = {h} \cup Range(queue')
      /\ Increasing(queue') /\ h \notin Range(queue') /\ Below({h}, Range(queue'))
      /\ Len(queue') = Len(queue) - 1
    BY <1>0, <1>1, TailFacts
<1>3. cell["encoder"] = NoLease /\ "encoder" \in Cell
    BY <1>0 DEF Carried, Cell
<1>4. draining = << >> BY <1>0 DEF Joined
<1>5. Range(draining) = {} BY <1>4, EmptyFacts
<1> HIDE DEF h
<1>6. \A d \in Cell : cell'[d] = IF d = "encoder" THEN h ELSE cell[d]
    BY <1>0 DEF TypeOK, Cell
<1>7. h \in Range(queue) /\ h.box = "OUTPUT" /\ h # NoLease /\ NoLease \notin Range(queue)
    BY <1>2, HandFacts DEF Carried
<1>8. Accounted'
    <2>1. InHand' = {cell'[d] : d \in Cell} \cup Range(queue') \cup Range(retained)
                        \cup Range(draining)
        BY <1>0 DEF InHand
    <2>2. ASSUME NEW k \in InHand' \ {NoLease} PROVE k \in InHand \ {NoLease}
        BY <1>2, <1>6, <1>7, <2>1, <2>2 DEF InHand
    <2>3. ASSUME NEW k \in InHand \ {NoLease} PROVE k \in InHand' \ {NoLease}
        BY <1>2, <1>3, <1>6, <2>1, <2>3 DEF InHand
    <2>4. InHand' \ {NoLease} = InHand \ {NoLease} BY <2>2, <2>3
    <2> QED BY <1>0, <2>4, MovedStep
<1>c. Chain(Range(retained), Encoding, Range(draining), Range(queue), Exporting, Offered)
    BY DEF Ordered
<1>9. Distinct'
    <2>1. Range(queue) \cap (Range(retained) \cup Range(draining)) = {}
        <3>1. \A k \in Range(queue) : k.frame \in Nat BY HandFacts DEF Lease
        <3>2. Below(Range(retained), Range(queue)) BY <1>c DEF Chain
        <3> QED BY <1>5, <3>1, <3>2 DEF Below
    <2> QED BY <1>0, <1>2, <1>6, <1>7, <2>1 DEF Distinct
<1>10. Ordered'
    <2>1. Encoding' = {h} /\ Exporting' = Exporting /\ Offered' = Offered /\ Encoding = {}
        BY <1>0, <1>2, <1>3, <1>6, <1>7, NoLeaseAssumption
           DEF Encoding, Exporting, Offered, OutputOf, boxVars, Cell
    <2>2. Chain(Range(retained), {}, {}, Range(queue') \cup {h}, Exporting, Offered)
        <3>1. Range(queue) = Range(queue') \cup {h} BY <1>2
        <3> QED BY <1>5, <1>c, <2>1, <3>1
    <2>3. Chain(Range(retained), {h}, {}, Range(queue'), Exporting, Offered)
        BY <1>2, <2>2, ChainMoves
    <2> QED BY <1>0, <1>2, <1>5, <2>1, <2>3 DEF Ordered
<1>11. TypeOK'
    <2>1. cell' \in [Cell -> Lease \cup {NoLease}] BY <1>0, <1>2 DEF TypeOK
    <2> QED BY <1>0, <1>2, <2>1 DEF TypeOK, boxVars, configVars, runVars
<1>12. Carried'
    BY <1>0, <1>2, <1>6, <1>7 DEF Carried, ExportHolds, Cell, runVars
<1>13. Joined' /\ Room' /\ Noted'
    <2>1. Room' BY <1>0, <1>1, <1>2, CapacityAssumption DEF Room
    <2>2. Joined' /\ Noted' BY <1>0 DEF Joined, Noted, runVars
    <2> QED BY <2>1, <2>2
<1> QED BY <1>8, <1>9, <1>10, <1>11, <1>12, <1>13

\* The encoder thread keeps a lease it has encoded: there is always room.
LEMMA EncoderRetainStep ==
    ASSUME IInv, EncoderRetain
    PROVE  IInv'
<1> USE DEF IInv
<1> DEFINE l == cell["encoder"]
<1>a. Len(retained) \in Nat /\ Len(retained) <= RetainCount /\ retained \in Seq(Lease)
    <2>1. epc = "retain" BY DEF EncoderRetain
    <2> QED BY <2>1, CapacityAssumption DEF Room, TypeOK
<1>b. ~(Len(retained) >= RetainCapacity) BY <1>a, CapacityAssumption
<1>0. /\ UNCHANGED <<boxVars, queue, draining, configVars, gate, need, runVars, xpc, ppc,
                     mpc, queued>>
      /\ epc = "retain" /\ epc' = "trim"
      /\ cell' = [cell EXCEPT !["encoder"] = NoLease]
      /\ retained' = Append(retained, l)
      /\ out' = out \ {NoLease}
    BY <1>b DEF EncoderRetain, GiveBack
<1>1. out' = out BY <1>0, HandFacts
<1>2. l \in Lease /\ l.box = "OUTPUT" /\ l # NoLease /\ "encoder" \in Cell
    BY <1>0, HandFacts DEF Carried, Cell
<1>c. Chain(Range(retained), Encoding, Range(draining), Range(queue), Exporting, Offered)
    BY DEF Ordered
<1>3. Encoding = {l} BY <1>2 DEF Encoding, OutputOf
<1>d. cell["encoder"] = l OBVIOUS
<1> HIDE DEF l
<1>4. Below(Range(retained), {l}) BY <1>c, <1>3 DEF Chain
<1>5. /\ retained' \in Seq(Lease) /\ Len(retained') = Len(retained) + 1
      /\ Range(retained') = Range(retained) \cup {l} /\ Increasing(retained')
    <2>1. Increasing(retained) BY DEF Ordered
    <2> QED BY <1>0, <1>2, <1>4, <1>a, <2>1, AppendFacts
<1>6. \A d \in Cell : cell'[d] = IF d = "encoder" THEN NoLease ELSE cell[d]
    BY <1>0 DEF TypeOK, Cell
<1>8. Accounted'
    <2>1. InHand' = {cell'[d] : d \in Cell} \cup Range(queue) \cup Range(retained')
                        \cup Range(draining)
        BY <1>0 DEF InHand
    <2>2. ASSUME NEW k \in InHand' \ {NoLease} PROVE k \in InHand \ {NoLease}
        BY <1>2, <1>d, <1>5, <1>6, <2>1, <2>2 DEF InHand
    <2>3. ASSUME NEW k \in InHand \ {NoLease} PROVE k \in InHand' \ {NoLease}
        BY <1>d, <1>5, <1>6, <2>1, <2>3 DEF InHand
    <2>4. InHand' \ {NoLease} = InHand \ {NoLease} BY <2>2, <2>3
    <2> QED BY <1>0, <1>1, <2>4, MovedStep
<1>9. Distinct'
    <2>1. NoLease \notin Range(queue) \cup Range(retained) \cup Range(draining)
        BY HandFacts
    <2> QED BY <1>0, <1>2, <1>d, <1>5, <1>6, <2>1 DEF Distinct
<1>10. Ordered'
    <2>1. Encoding' = {} /\ Exporting' = Exporting /\ Offered' = Offered
        BY <1>0, <1>2, <1>6, NoLeaseAssumption
           DEF Encoding, Exporting, Offered, OutputOf, boxVars, Cell
    <2>2. Chain(Range(retained) \cup {l}, {}, Range(draining), Range(queue), Exporting, Offered)
        BY <1>3, <1>c, ChainMoves
    <2> QED BY <1>0, <1>5, <2>1, <2>2 DEF Ordered
<1>11. TypeOK'
    <2>1. cell' \in [Cell -> Lease \cup {NoLease}] BY <1>0 DEF TypeOK
    <2> QED BY <1>0, <1>1, <1>5, <2>1 DEF TypeOK, boxVars, configVars, runVars
<1>12. Carried'
    BY <1>0, <1>2, <1>5, <1>6 DEF Carried, ExportHolds, Cell, runVars
<1>13. Joined' /\ Room' /\ Noted'
    <2>1. Room' BY <1>0, <1>a, <1>5, CapacityAssumption DEF Room
    <2>2. Joined' /\ Noted' BY <1>0 DEF Joined, Noted, runVars
    <2> QED BY <2>1, <2>2
<1> QED BY <1>8, <1>9, <1>10, <1>11, <1>12, <1>13

\* A lease goes from one thread's variable to another's, which was clear.
LEMMA CellMoved ==
    ASSUME IInv, NEW a \in {"waiting"}, NEW b \in {"preview", "closing"},
           cell[b] = NoLease, cell' = [cell EXCEPT ![b] = cell[a], ![a] = NoLease],
           UNCHANGED <<boxVars, queue, retained, draining, out>>
    PROVE  Accounted' /\ Distinct' /\ Ordered'
<1> USE DEF IInv
<1>0. a \in Cell /\ b \in Cell /\ a # b /\ {a, b} \cap {"encoder", "export"} = {}
    BY DEF Cell
<1>1. \A d \in Cell : cell'[d] = IF d = a THEN NoLease ELSE IF d = b THEN cell[a] ELSE cell[d]
    BY <1>0 DEF TypeOK
<1>2. Accounted'
    <2>1. InHand' = {cell'[d] : d \in Cell} \cup Range(queue) \cup Range(retained)
                        \cup Range(draining)
        BY DEF InHand
    <2>2. ASSUME NEW k \in InHand' \ {NoLease} PROVE k \in InHand \ {NoLease}
        BY <1>0, <1>1, <2>1, <2>2 DEF InHand
    <2>3. ASSUME NEW k \in InHand \ {NoLease} PROVE k \in InHand' \ {NoLease}
        BY <1>0, <1>1, <2>1, <2>3 DEF InHand
    <2>4. InHand' \ {NoLease} = InHand \ {NoLease} BY <2>2, <2>3
    <2> QED BY <2>4, MovedStep
<1>3. Distinct'
    <2>1. NoLease \notin Range(queue) \cup Range(retained) \cup Range(draining)
        BY HandFacts
    <2> QED BY <1>0, <1>1, <2>1, ZenonT(60) DEF Distinct
<1>4. Ordered'
    <2>1. Encoding' = Encoding /\ Exporting' = Exporting /\ Offered' = Offered
        BY <1>0, <1>1 DEF Encoding, Exporting, Offered, boxVars, Cell
    <2> QED BY <2>1 DEF Ordered
<1> QED BY <1>2, <1>3, <1>4

\* The preview thread takes the pending frame; the main thread takes it when it
\* stops the thread.
LEMMA PendingTaken ==
    ASSUME IInv, PreviewTake \/ StopPreview
    PROVE  IInv'
<1> USE DEF IInv
<1>0. UNCHANGED <<boxVars, queue, retained, draining, configVars, gate, need, exportOn,
                  encoderOn, xpc, epc, out, queued>>
    BY DEF PreviewTake, StopPreview, historyVars, runVars
<1>1. PICK b \in {"preview", "closing"} :
          /\ cell[b] = NoLease
          /\ cell' = [cell EXCEPT ![b] = cell["waiting"], !["waiting"] = NoLease]
          /\ b = "preview" => ppc = "loop" /\ ppc' = "consume" /\ UNCHANGED <<mpc, previewOn>>
          /\ b = "closing" => /\ mpc = "stopPreview" /\ mpc' = "releasePending"
                              /\ ~previewOn' /\ previewOn' \in BOOLEAN
                              /\ ppc' = Signaled(ppc)
    <2>1. CASE PreviewTake
        <3>1. cell["preview"] = NoLease BY <2>1 DEF PreviewTake, Carried
        <3> QED BY <2>1, <3>1 DEF PreviewTake, runVars
    <2>2. CASE StopPreview
        <3>1. cell["closing"] = NoLease BY <2>2 DEF StopPreview, Carried
        <3> QED BY <2>2, <3>1 DEF StopPreview
    <2> QED BY <2>1, <2>2
<1>2. Accounted' /\ Distinct' /\ Ordered' BY <1>0, <1>1, CellMoved
<1>3. \A d \in Cell : cell'[d] = IF d = "waiting" THEN NoLease
                                 ELSE IF d = b THEN cell["waiting"] ELSE cell[d]
    BY <1>1 DEF TypeOK, Cell
<1>4. ppc' \in {ppc, "loop", "consume"} /\ (b = "closing" /\ ppc' # ppc => ppc = "waiting")
    BY <1>1 DEF Signaled
<1>5. TypeOK'
    <2>1. cell' \in [Cell -> Lease \cup {NoLease}] BY <1>1 DEF TypeOK, Cell
    <2>2. ppc' \in {"loop", "waiting", "consume", "exited"}
        BY <1>4 DEF TypeOK
    <2>3. /\ mpc' \in {"run", "joinExport", "stopPreview", "releasePending",
                       "joinPreview", "stopEncoder", "releaseDraining",
                       "joinEncoder", "freed"}
          /\ previewOn' \in BOOLEAN
        BY <1>1 DEF TypeOK
    <2> QED BY <1>0, <2>1, <2>2, <2>3 DEF TypeOK, boxVars, configVars
<1>6. Carried'
    BY <1>0, <1>1, <1>3, <1>4 DEF Carried, ExportHolds, Cell
<1>7. Joined' /\ Room' /\ Noted'
    BY <1>0, <1>1, <1>4 DEF Joined, Room, Noted
<1> QED BY <1>2, <1>5, <1>6, <1>7

\* The export thread replaces the pending frame by its own.
LEMMA EnqueuePreviewStep ==
    ASSUME IInv, EnqueuePreview
    PROVE  IInv'
<1> USE DEF IInv
<1>0. /\ UNCHANGED <<boxVars, queue, retained, draining, configVars, gate, need, runVars,
                     epc, mpc, out, queued>>
      /\ xpc = "previewEnqueue"
    BY DEF EnqueuePreview, historyVars
<1>1. CASE ~(preview /\ previewOn)
    <2>1. xpc' = "previewRelease" /\ UNCHANGED <<cell, ppc>>
        BY <1>1 DEF EnqueuePreview
    <2>2. Accounted' /\ Distinct' /\ Ordered'
        BY <1>0, <2>1, StillLeases DEF Still, leaseVars
    <2>3. TypeOK' BY <1>0, <2>1 DEF TypeOK, boxVars, configVars, runVars
    <2>4. Carried' BY <1>0, <2>1 DEF Carried, ExportHolds, runVars
    <2>5. Joined' /\ Room' /\ Noted' BY <1>0, <2>1 DEF Joined, Room, Noted, runVars
    <2> QED BY <2>2, <2>3, <2>4, <2>5
<1>2. CASE preview /\ previewOn
    <2>1. /\ cell' = [cell EXCEPT !["dropped"] = cell["waiting"],
                                  !["waiting"] = cell["export"], !["export"] = NoLease]
          /\ ppc' = Signaled(ppc) /\ xpc' = "previewDropped"
        BY <1>2 DEF EnqueuePreview
    <2>2. cell["dropped"] = NoLease BY <1>0 DEF Carried
    <2>3. {"dropped", "waiting", "export"} \subseteq Cell BY DEF Cell
    <2>4. \A d \in Cell : cell'[d] = CASE d = "dropped" -> cell["waiting"]
                                       [] d = "waiting" -> cell["export"]
                                       [] d = "export" -> NoLease
                                       [] OTHER -> cell[d]
        BY <2>1 DEF TypeOK, Cell
    <2>5. Accounted'
        <3>1. InHand' = {cell'[d] : d \in Cell} \cup Range(queue) \cup Range(retained)
                            \cup Range(draining)
            BY <1>0 DEF InHand
        <3>2. ASSUME NEW k \in InHand' \ {NoLease} PROVE k \in InHand \ {NoLease}
            BY <2>3, <2>4, <3>1, <3>2 DEF InHand
        <3>3. ASSUME NEW k \in InHand \ {NoLease} PROVE k \in InHand' \ {NoLease}
            BY <2>2, <2>3, <2>4, <3>1, <3>3 DEF InHand
        <3>4. InHand' \ {NoLease} = InHand \ {NoLease} BY <3>2, <3>3
        <3> QED BY <1>0, <3>4, MovedStep
    <2>6. Distinct'
        <3>1. NoLease \notin Range(queue) \cup Range(retained) \cup Range(draining)
            BY HandFacts
        <3> QED BY <1>0, <2>2, <2>3, <2>4, <3>1 DEF Distinct
    <2>7. Ordered'
        <3>1. cell["export"].box = "PREVIEW" BY <1>0 DEF Carried
        <3>2. Encoding' = Encoding /\ Exporting' = Exporting /\ Offered' = Offered
            BY <1>0, <2>3, <2>4, <3>1, NoLeaseAssumption
               DEF Encoding, Exporting, Offered, OutputOf, boxVars, Cell
        <3> QED BY <1>0, <3>2 DEF Ordered
    <2>8. TypeOK'
        <3>1. cell' \in [Cell -> Lease \cup {NoLease}] BY <2>1, <2>3 DEF TypeOK
        <3>2. ppc' \in {"loop", "waiting", "consume", "exited"}
            BY <2>1 DEF Signaled, TypeOK
        <3>3. xpc' \in {"previewDropped"} BY <2>1
        <3> QED BY <1>0, <3>1, <3>2, <3>3 DEF TypeOK, boxVars, configVars, runVars
    <2>9. /\ ppc' \in {ppc, "loop"} /\ (ppc' # ppc => ppc = "waiting")
        BY <2>1 DEF Signaled
    <2>10. Carried'
        <3>1. /\ cell'["export"] = NoLease /\ cell'["encoder"] = cell["encoder"]
              /\ cell'["preview"] = cell["preview"] /\ cell'["waiting"] = cell["export"]
              /\ cell'["closing"] = cell["closing"]
            BY <2>4 DEF Cell
        <3> QED BY <1>0, <1>2, <2>1, <2>9, <3>1 DEF Carried, ExportHolds, runVars
    <2>11. Joined' /\ Room' /\ Noted'
        BY <1>0, <2>1, <2>9 DEF Joined, Room, Noted, runVars
    <2> QED BY <2>5, <2>6, <2>7, <2>8, <2>10, <2>11
<1> QED BY <1>1, <1>2

\* The main thread takes over the whole queue: it has room for all of it.
LEMMA StopEncoderStep ==
    ASSUME IInv, StopEncoder
    PROVE  IInv'
<1> USE DEF IInv
<1>a. queue \in Seq(Lease) /\ Len(queue) \in Nat /\ Len(queue) <= QueueCapacity
          /\ QueueCapacity \in Nat
    BY CapacityAssumption DEF TypeOK, Room
<1>b. SubSeq(queue, 1, Len(queue)) = queue BY <1>a, SubSeqFull
<1>c. SubSeq(queue, QueueCapacity + 1, Len(queue)) = << >>
    <2>1. QueueCapacity + 1 \in Int /\ Len(queue) \in Int /\ Len(queue) < QueueCapacity + 1
        BY <1>a
    <2> QED BY <2>1, SubSeqEmpty
<1>d. (IF Len(queue) < QueueCapacity THEN Len(queue) ELSE QueueCapacity) = Len(queue)
    BY <1>a
<1>0. /\ UNCHANGED <<boxVars, cell, retained, configVars, gate, need, exportOn,
                     previewOn, xpc, ppc, out, queued>>
      /\ mpc = "stopEncoder" /\ mpc' = "releaseDraining"
      /\ encoderOn' = FALSE
      /\ draining' = queue /\ queue' = << >>
      /\ epc' = Signaled(epc)
    <2>1. draining' = SubSeq(queue, 1, Len(queue)) BY <1>d DEF StopEncoder
    <2>2. queue' = << >> BY <1>c DEF StopEncoder
    <2> QED BY <1>b, <2>1, <2>2 DEF StopEncoder, historyVars
<1>1. epc' \in {epc, "loop"} /\ (epc' # epc => epc = "waiting")
    BY <1>0 DEF Signaled
<1>2. draining = << >> BY <1>0 DEF Joined
<1>3. /\ Range(draining) = {} /\ Range(queue') = {} /\ Range(draining') = Range(queue)
      /\ Len(queue') = 0 /\ queue' \in Seq(Lease) /\ Increasing(queue')
    BY <1>0, <1>2, EmptyFacts
<1>4. Accounted'
    <2>1. InHand' = {cell[d] : d \in Cell} \cup Range(queue') \cup Range(retained)
                        \cup Range(draining')
        BY <1>0 DEF InHand
    <2>2. InHand' = InHand BY <1>3, <2>1 DEF InHand
    <2> QED BY <1>0, <2>2, MovedStep
<1>5. Distinct'
    BY <1>0, <1>3 DEF Distinct
<1>6. Ordered'
    <2>1. Encoding' = Encoding /\ Exporting' = Exporting /\ Offered' = Offered
        BY <1>0 DEF Encoding, Exporting, Offered, boxVars
    <2>2. Chain(Range(retained), Encoding, {}, Range(queue), Exporting, Offered)
        BY <1>3 DEF Ordered
    <2>3. Chain(Range(retained), Encoding, Range(queue), {}, Exporting, Offered)
        BY <2>2, ChainMoves
    <2> QED BY <1>0, <1>3, <2>1, <2>3 DEF Ordered
<1>7. TypeOK'
    <2>1. epc' \in {"loop", "waiting", "discard", "consume", "retain", "trim",
                    "flush", "exiting", "exited"}
        BY <1>1 DEF TypeOK
    <2> QED BY <1>0, <1>3, <2>1, ZenonT(60) DEF TypeOK, boxVars, configVars
<1>8. Carried'
    <2>1. \A l \in Range(queue') \cup Range(retained') \cup Range(draining') : l.box = "OUTPUT"
        BY <1>0, <1>3 DEF Carried
    <2> QED BY <1>0, <1>1, <2>1 DEF Carried
<1>9. Joined' /\ Room' /\ Noted'
    <2>1. Joined' BY <1>0, <1>1 DEF Joined
    <2>2. Room' BY <1>0, <1>1, <1>3, <1>a DEF Room
    <2>3. Noted' BY <1>0 DEF Noted
    <2> QED BY <2>1, <2>2, <2>3
<1> QED BY <1>4, <1>5, <1>6, <1>7, <1>8, <1>9

-----------------------------------------------------------------------------
(* Leases that are taken from a mailbox, and frames put there.             *)

\* A lease comes into the export thread's hand: nobody had it.
LEMMA LeaseTaken ==
    ASSUME IInv, NEW m \in Mailbox, box[m] # NoLease, cell["export"] = NoLease,
           TakeLease(m)
    PROVE  /\ Accounted' /\ Distinct' /\ Ordered'
           /\ box[m] \in Lease /\ box[m].box = m
<1> USE DEF IInv
<1> DEFINE b == box[m]
<1>0. /\ cell' = [cell EXCEPT !["export"] = b]
      /\ box' = [box EXCEPT ![m] = NoLease]
      /\ out' = out \cup {b}
      /\ UNCHANGED <<published, content, queue, retained, draining>>
    BY DEF TakeLease
<1>1. /\ b \in Lease /\ b.box = m /\ b.frame = published[m] /\ b \notin out /\ b # NoLease
      /\ published[m] \in Nat
    BY DEF TypeOK, Accounted
<1>2. \A k \in Mailbox : box'[k] = IF k = m THEN NoLease ELSE box[k]
    BY <1>0 DEF TypeOK
<1>3. \A k \in Mailbox : box[k] = b => k = m
    BY <1>1 DEF Accounted
<1> HIDE DEF b
<1>4. \A d \in Cell : cell'[d] = IF d = "export" THEN b ELSE cell[d]
    BY <1>0 DEF TypeOK, Cell
<1>5. "export" \in Cell BY DEF Cell
<1>6. Accounted'
    <2>1. InHand' = {cell'[d] : d \in Cell} \cup Range(queue) \cup Range(retained)
                        \cup Range(draining)
        BY <1>0 DEF InHand
    <2>2. ASSUME NEW l \in out' PROVE l \in InHand' \ {NoLease}
        BY <1>0, <1>1, <1>4, <1>5, <2>1, <2>2 DEF InHand, Accounted
    <2>3. ASSUME NEW l \in InHand' \ {NoLease} PROVE l \in out'
        BY <1>0, <1>1, <1>4, <1>5, <2>1, <2>3 DEF InHand, Accounted
    <2>4. out' = InHand' \ {NoLease} BY <2>2, <2>3
    <2>5. \A l \in out' : l.frame <= published'[l.box]
        BY <1>0, <1>1 DEF Accounted
    <2>6. ASSUME NEW k \in Mailbox, box'[k] # NoLease
          PROVE  box'[k].box = k /\ box'[k].frame = published'[k] /\ box'[k] \notin out'
        <3>1. box'[k] = box[k] /\ k # m BY <1>2, <2>6
        <3>2. box[k].box = k /\ box[k].frame = published[k] /\ box[k] \notin out
            BY <2>6, <3>1 DEF Accounted
        <3> QED BY <1>0, <1>3, <3>1, <3>2
    <2>7. content' # 0 BY <1>0 DEF Accounted
    <2> QED BY <2>4, <2>5, <2>6, <2>7 DEF Accounted
<1>7. Distinct'
    <2>1. \A d \in Cell : cell[d] # b BY <1>1, HandFacts
    <2>2. b \notin Range(queue) \cup Range(retained) \cup Range(draining)
        BY <1>1, HandFacts
    <2> QED BY <1>0, <1>4, <1>5, <2>1, <2>2 DEF Distinct
<1>8. Ordered'
    <2>1. Encoding' = Encoding /\ Exporting = {}
        BY <1>4, NoLeaseAssumption DEF Encoding, Exporting, OutputOf, Cell
    <2>2. Chain(Range(retained), Encoding, Range(draining), Range(queue), {}, Offered)
        BY <2>1 DEF Ordered
    <2>3. CASE m = "OUTPUT"
        <3>1. Exporting' = {b} /\ Offered' = {} /\ Offered = {b}
            BY <1>1, <1>2, <1>4, <1>5, <2>3, NoLeaseAssumption
               DEF Exporting, Offered, OutputOf, Mailbox, b
        <3>2. Chain(Range(retained), Encoding, Range(draining), Range(queue), {b}, {})
            BY <2>2, <3>1, ChainMoves
        <3> QED BY <1>0, <2>1, <3>1, <3>2 DEF Ordered
    <2>4. CASE m # "OUTPUT"
        <3>1. Exporting' = {} /\ Offered' = Offered
            BY <1>1, <1>2, <1>4, <1>5, <2>4 DEF Exporting, Offered, OutputOf, Mailbox
        <3> QED BY <1>0, <2>1, <2>2, <3>1 DEF Ordered
    <2> QED BY <2>3, <2>4
<1> QED BY <1>1, <1>6, <1>7, <1>8 DEF b

\* The export thread takes what one of the three mailboxes offers.
LEMMA AcquireStep ==
    ASSUME IInv, AcquireOutput \/ AcquireSnapshot \/ AcquirePreview
    PROVE  IInv'
<1> USE DEF IInv
<1>0. PICK m \in Mailbox :
          /\ box[m] # NoLease /\ TakeLease(m)
          /\ m = "OUTPUT" => xpc = "output" /\ xpc' \in {"gate", "release"}
          /\ m = "SNAPSHOT" => xpc = "snapshot" /\ xpc' = "snapshotRelease"
          /\ m = "PREVIEW" => xpc = "preview" /\ xpc' = "previewEnqueue"
    BY DEF AcquireOutput, AcquireSnapshot, AcquirePreview, Mailbox
<1>1. UNCHANGED <<configVars, gate, need, runVars, epc, ppc, mpc, queued>>
    BY DEF AcquireOutput, AcquireSnapshot, AcquirePreview
<1>2. /\ xpc \in {"output", "snapshot", "preview"}
      /\ xpc' \in {"gate", "release", "snapshotRelease", "previewEnqueue"}
      /\ xpc' \in {"gate", "release"} => m = "OUTPUT"
      /\ xpc' = "previewEnqueue" => m = "PREVIEW"
    BY <1>0 DEF Mailbox
<1>3. cell["export"] = NoLease BY <1>2 DEF Carried, ExportHolds
<1>4. Accounted' /\ Distinct' /\ Ordered' /\ box[m] \in Lease /\ box[m].box = m
    BY <1>0, <1>3, LeaseTaken
<1>5. /\ cell' = [cell EXCEPT !["export"] = box[m]]
      /\ box' = [box EXCEPT ![m] = NoLease]
      /\ out' = out \cup {box[m]}
      /\ UNCHANGED <<published, content, queue, retained, draining>>
    BY <1>0 DEF TakeLease
<1>6. TypeOK'
    <2>1. /\ cell' \in [Cell -> Lease \cup {NoLease}]
          /\ box' \in [Mailbox -> Lease \cup {NoLease}]
          /\ out' \subseteq Lease
        BY <1>4, <1>5 DEF TypeOK
    <2> QED BY <1>1, <1>2, <1>5, <2>1 DEF TypeOK, configVars, runVars
<1>7. \A d \in Cell : cell'[d] = IF d = "export" THEN box[m] ELSE cell[d]
    BY <1>5 DEF TypeOK, Cell
<1>8. Carried'
    <2>1. /\ cell'["export"] = box[m] /\ cell'["dropped"] = cell["dropped"]
          /\ cell'["encoder"] = cell["encoder"] /\ cell'["preview"] = cell["preview"]
          /\ cell'["waiting"] = cell["waiting"] /\ cell'["closing"] = cell["closing"]
        BY <1>7 DEF Cell
    <2>2. cell["dropped"] = NoLease BY <1>2 DEF Carried
    <2> QED BY <1>0, <1>1, <1>2, <1>4, <1>5, <2>1, <2>2 DEF Carried, ExportHolds, runVars
<1>9. Joined' /\ Room' /\ Noted'
    BY <1>1, <1>2, <1>5 DEF Joined, Room, Noted, runVars
<1> QED BY <1>4, <1>6, <1>8, <1>9

\* The compositor publishes a frame: it is newer than every frame of its
\* mailbox that somebody still has.
LEMMA PublishStep ==
    ASSUME IInv, NEW m \in Mailbox, NEW repeat \in BOOLEAN, Publish(m, repeat)
    PROVE  IInv'
<1> USE DEF IInv
<1> DEFINE n == published[m] + 1
           c == IF repeat THEN content ELSE content + 1
           f == [box |-> m, frame |-> n, content |-> IF m = "OUTPUT" THEN c ELSE 1]
<1>0. /\ content' = c
      /\ published' = [published EXCEPT ![m] = n]
      /\ box' = [box EXCEPT ![m] = f]
      /\ UNCHANGED <<leaseVars, configVars, gate, need, runVars, xpc, epc, ppc, mpc,
                     historyVars>>
    BY DEF Publish
<1>p. n \in Nat \ {0} /\ n > published[m] /\ published[m] \in Nat BY DEF TypeOK
<1>1. f.box = m /\ f.frame = n OBVIOUS
<1>2. f \in Lease
    <2>1. c \in Nat \ {0} BY DEF TypeOK, Accounted
    <2> HIDE DEF c
    <2> QED BY <1>p, <2>1 DEF Lease
<1>3. c \in Nat /\ c # 0 BY DEF TypeOK, Accounted
<1> HIDE DEF f, n, c
<1>4. /\ \A k \in Mailbox : box'[k] = IF k = m THEN f ELSE box[k]
      /\ \A k \in Mailbox : published'[k] = IF k = m THEN n ELSE published[k]
    BY <1>0 DEF TypeOK
<1>5. UNCHANGED <<cell, queue, retained, draining, out, queued>>
    BY <1>0 DEF leaseVars, historyVars
<1>6. \A l \in out : l \in Lease /\ l.box \in Mailbox /\ l.frame \in Nat
                       /\ l.frame <= published[l.box] /\ published[l.box] \in Nat
    BY DEF TypeOK, Accounted, Lease
<1>7. f \notin out BY <1>1, <1>6, <1>p
<1>8. Accounted'
    <2>1. out' = InHand' \ {NoLease} BY <1>5 DEF Accounted, InHand
    <2>2. ASSUME NEW l \in out' PROVE l.frame <= published'[l.box]
        <3>1. l \in out BY <1>5
        <3>2. CASE l.box = m BY <1>4, <1>6, <1>p, <3>1, <3>2
        <3>3. CASE l.box # m BY <1>4, <1>6, <3>1, <3>3
        <3> QED BY <3>2, <3>3
    <2>3. ASSUME NEW k \in Mailbox, box'[k] # NoLease
          PROVE  box'[k].box = k /\ box'[k].frame = published'[k] /\ box'[k] \notin out'
        <3>1. CASE k = m BY <1>1, <1>4, <1>5, <1>7, <3>1
        <3>2. CASE k # m BY <1>4, <1>5, <2>3, <3>2 DEF Accounted
        <3> QED BY <3>1, <3>2
    <2>4. content' # 0 BY <1>0, <1>3
    <2> QED BY <2>1, <2>2, <2>3, <2>4 DEF Accounted
<1>9. Distinct' BY <1>5 DEF Distinct
<1>10. Ordered'
    <2>1. Encoding' = Encoding /\ Exporting' = Exporting
        BY <1>5 DEF Encoding, Exporting
    <2>2. Chain(Range(retained), Encoding, Range(draining), Range(queue), Exporting, Offered)
        BY DEF Ordered
    <2>3. CASE m = "OUTPUT"
        <3>1. \A l \in out : l.box = "OUTPUT" => l.frame < f.frame
            BY <1>1, <1>6, <1>p, <2>3
        <3>2. /\ \A l \in Range(retained) \cup Range(draining) \cup Range(queue) :
                     l \in out /\ l.box = "OUTPUT"
              /\ \A l \in Encoding \cup Exporting : l \in out /\ l.box = "OUTPUT"
            <4>1. /\ cell["encoder"] # NoLease => cell["encoder"] \in out
                  /\ cell["export"] # NoLease => cell["export"] \in out
                BY HandFacts DEF Cell
            <4>2. \A l \in Range(retained) \cup Range(draining) \cup Range(queue) :
                      l \in out /\ l.box = "OUTPUT"
                BY HandFacts DEF Carried
            <4> QED BY <4>1, <4>2, NoLeaseAssumption DEF Encoding, Exporting, OutputOf
        <3>3. Offered' = {f}
            <4>1. box'["OUTPUT"] = f BY <1>4, <2>3
            <4> QED BY <1>1, <1>2, <2>3, <4>1 DEF Offered, OutputOf
        <3>4. Chain(Range(retained), Encoding, Range(draining), Range(queue), Exporting, {f})
            <4> HIDE DEF Encoding, Exporting
            <4> QED BY <2>2, <3>1, <3>2 DEF Chain, Below
        <3> QED BY <1>5, <2>1, <3>3, <3>4 DEF Ordered
    <2>4. CASE m # "OUTPUT"
        <3>1. Offered' = Offered BY <1>4, <2>4 DEF Offered, Mailbox
        <3> QED BY <1>5, <2>1, <2>2, <3>1 DEF Ordered
    <2> QED BY <2>3, <2>4
<1>11. TypeOK'
    <2>1. /\ box' \in [Mailbox -> Lease \cup {NoLease}]
          /\ published' \in [Mailbox -> Nat]
          /\ content' \in Nat
        BY <1>0, <1>2, <1>3, <1>p DEF TypeOK
    <2> QED BY <1>0, <1>5, <2>1 DEF TypeOK, configVars, runVars
<1>12. Carried' BY <1>0, <1>5 DEF Carried, runVars
<1>13. Joined' /\ Room' /\ Noted' BY <1>0, <1>5 DEF Joined, Room, Noted, runVars
<1> QED BY <1>8, <1>9, <1>10, <1>11, <1>12, <1>13

-----------------------------------------------------------------------------
(* The invariant, and what follows from it.                                *)

\* A new router has no lease.
LEMMA InitIInv == Init => IInv
<1> SUFFICES ASSUME Init PROVE IInv
    OBVIOUS
<1> USE DEF Init
<1>1. \A c \in Cell : cell[c] = NoLease OBVIOUS
<1>2. /\ Range(queue) = {} /\ Range(retained) = {} /\ Range(draining) = {}
      /\ Len(queue) = 0 /\ Len(retained) = 0 /\ Len(draining) = 0
      /\ Increasing(queue) /\ Increasing(retained) /\ Increasing(draining)
      /\ queue \in Seq(Lease) /\ retained \in Seq(Lease) /\ draining \in Seq(Lease)
    BY EmptyFacts
<1>3. TypeOK BY <1>2 DEF TypeOK
<1>4. Carried BY <1>1, <1>2 DEF Carried, ExportHolds, Cell
<1>5. Joined /\ Noted BY DEF Joined, Noted
<1>6. Room BY <1>2, CapacityAssumption DEF Room
<1>7. Accounted
    <2>1. \A l \in InHand : l = NoLease BY <1>1, <1>2 DEF InHand
    <2> QED BY <2>1 DEF Accounted
<1>8. Distinct
    <2>1. \A c \in Cell : cell[c] = NoLease BY <1>1
    <2> QED BY <1>2, <2>1 DEF Distinct
<1>9. Ordered
    <2>1. Encoding = {} /\ Exporting = {} /\ Offered = {}
        BY NoLeaseAssumption DEF Encoding, Exporting, Offered, OutputOf, Cell, Mailbox
    <2>2. Chain({}, {}, {}, {}, {}, {}) BY DEF Chain, Below
    <2> QED BY <1>2, <2>1, <2>2 DEF Ordered
<1> QED BY <1>3, <1>4, <1>5, <1>6, <1>7, <1>8, <1>9 DEF IInv

\* Every step of every thread keeps the invariant.
LEMMA NextIInv == IInv /\ [Next]_vars => IInv'
<1> SUFFICES ASSUME IInv, [Next]_vars PROVE IInv'
    OBVIOUS
<1>1. CASE Compositor BY <1>1, PublishStep DEF Compositor
<1>2. CASE ExportStill BY <1>2, ExportStillStep
<1>3. CASE OtherStill BY <1>3, OtherStillStep
<1>4. CASE ReleaseDropped \/ ReleaseExport BY <1>4, ExportGivesBack
<1>5. CASE PreviewConsume \/ ReleasePending \/ EncoderDiscard BY <1>5, OthersGiveBack
<1>6. CASE EncoderTrim \/ EncoderFlush BY <1>6, EncoderGivesBack
<1>7. CASE ReleaseDraining BY <1>7, MainGivesBack
<1>8. CASE EnqueueLease BY <1>8, EnqueueLeaseStep
<1>9. CASE EncoderTake BY <1>9, EncoderTakeStep
<1>10. CASE EncoderRetain BY <1>10, EncoderRetainStep
<1>11. CASE PreviewTake \/ StopPreview BY <1>11, PendingTaken
<1>12. CASE EnqueuePreview BY <1>12, EnqueuePreviewStep
<1>13. CASE StopEncoder BY <1>13, StopEncoderStep
<1>14. CASE AcquireOutput \/ AcquireSnapshot \/ AcquirePreview BY <1>14, AcquireStep
<1>15. CASE UNCHANGED vars
    <2>1. Still /\ UNCHANGED <<configVars, gate, need, runVars, xpc, epc, ppc, mpc, queued>>
        BY <1>15 DEF vars, Still, historyVars
    <2>2. Accounted' /\ Distinct' /\ Ordered' BY <2>1, StillLeases DEF IInv
    <2>3. TypeOK'
        BY <2>1 DEF IInv, TypeOK, Still, boxVars, leaseVars, configVars, runVars
    <2>4. Carried' BY <2>1 DEF IInv, Carried, Still, leaseVars, runVars
    <2>5. Joined' /\ Room' /\ Noted'
        BY <2>1 DEF IInv, Joined, Room, Noted, Still, leaseVars, runVars
    <2> QED BY <2>2, <2>3, <2>4, <2>5 DEF IInv
<1> QED
    BY <1>1, <1>2, <1>3, <1>4, <1>5, <1>6, <1>7, <1>8, <1>9, <1>10, <1>11, <1>12, <1>13,
       <1>14, <1>15
       DEF Next, ExportFrame, EncoderThread, PreviewThread, Free, ExportStill, OtherStill

\* The invariant holds of every run.
LEMMA Invariance == Spec => []IInv
BY InitIInv, NextIInv, PTL DEF Spec

\* The variables of all threads keep their types.
THEOREM TypesCorrect == Spec => []TypeOK
<1>1. IInv => TypeOK BY DEF IInv
<1> QED BY <1>1, Invariance, PTL

\* The note of the content queued last, by the invariant.
LEMMA SkipsHolds == IInv => SkipsOnlyQueued
<1>1. IInv => SkipsOnlyQueued BY DEF IInv, Noted, SkipsOnlyQueued
<1> QED BY <1>1

\* A content is skipped as a duplicate only if it is the one queued last
\* (native_encoder_content_already_queued).
THEOREM SkipsCorrect == Spec => []SkipsOnlyQueued
BY SkipsHolds, Invariance, PTL

\* sbs_output_router_free gives back every lease.
THEOREM FreedCorrect == Spec => []FreedReturnsAll
<1>1. IInv => FreedReturnsAll
    <2> SUFFICES ASSUME IInv, mpc = "freed" PROVE out = {}
        BY DEF FreedReturnsAll
    <2> USE DEF IInv
    <2>1. xpc = "exited" /\ epc = "exited" /\ ppc = "exited" /\ ~previewOn
        BY DEF Joined
    <2>2. queue = << >> /\ retained = << >> /\ draining = << >>
        BY <2>1 DEF Joined
    <2>3. \A c \in Cell : cell[c] = NoLease
        BY <2>1 DEF Carried, ExportHolds, Cell
    <2>4. Range(queue) = {} /\ Range(retained) = {} /\ Range(draining) = {}
        BY <2>2, EmptyFacts
    <2> QED BY <2>3, <2>4 DEF Accounted, InHand
<1> QED BY <1>1, Invariance, PTL

\* A lease that is out is in exactly one place, by the invariant.
LEMMA OwnedHolds == IInv => LeaseOwnedOnce
<1>1. IInv => LeaseOwnedOnce
    <2> SUFFICES ASSUME IInv PROVE LeaseOwnedOnce
        OBVIOUS
    <2> USE DEF IInv
    <2>1. \A c \in Cell : cell[c] \in out \cup {NoLease}
        BY HandFacts
    <2>2. DOMAIN Queues = 1 .. 3 BY DEF Queues
    <2>3. Queues[1] = queue /\ Queues[2] = retained /\ Queues[3] = draining
        BY DEF Queues
    <2>4. \A k \in DOMAIN Queues : Range(Queues[k]) \subseteq out
        BY <2>2, <2>3, HandFacts
    <2>5. ASSUME NEW l \in out
          PROVE  Cardinality(InCells(l)) + Cardinality(InQueues(l)) = 1
        <3>1. l \in InHand /\ l # NoLease /\ l.frame \in Nat
            BY DEF Accounted, TypeOK, Lease
        <3>2. Chain(Range(retained), Encoding, Range(draining), Range(queue), Exporting, Offered)
            BY DEF Ordered
        <3>3. /\ ~(l \in Range(queue) /\ l \in Range(retained))
              /\ ~(l \in Range(queue) /\ l \in Range(draining))
              /\ ~(l \in Range(retained) /\ l \in Range(draining))
            BY <3>1, <3>2 DEF Chain, Below
        <3>4. \A k, j \in 1 .. 3 : l \in Range(Queues[k]) /\ l \in Range(Queues[j]) => k = j
            BY <2>3, <3>3
        <3>5. \A k \in 1 .. 3 : Increasing(Queues[k])
            BY <2>3 DEF Ordered
        <3>6. \A k \in 1 .. 3 : \A i, j \in DOMAIN Queues[k] :
                  Queues[k][i] = l /\ Queues[k][j] = l => i = j
            <4> SUFFICES ASSUME NEW k \in 1 .. 3, NEW i \in DOMAIN Queues[k],
                                NEW j \in DOMAIN Queues[k],
                                Queues[k][i] = l, Queues[k][j] = l, i # j
                         PROVE  FALSE
                OBVIOUS
            <4>1. Queues[k] \in Seq(Lease) BY <2>3 DEF TypeOK
            <4>2. i \in Nat /\ j \in Nat BY <4>1
            <4>3. i < j \/ j < i BY <4>2
            <4>4. l.frame < l.frame BY <3>5, <4>3 DEF Increasing
            <4> QED BY <3>1, <4>4
        <3>7. \A p \in InQueues(l) : \E k \in 1 .. 3 : \E i \in DOMAIN Queues[k] :
                  p = <<k, i>> /\ Queues[k][i] = l
            BY <2>2 DEF InQueues
        <3>10. \A k \in 1 .. 3 : \A i \in DOMAIN Queues[k] :
                  Queues[k][i] = l => <<k, i>> \in InQueues(l)
            BY <2>2 DEF InQueues
        <3>8. CASE \E c \in Cell : cell[c] = l
            <4>1. PICK c \in Cell : cell[c] = l BY <3>8
            <4>2. InCells(l) = {c} BY <3>1, <4>1 DEF InCells, Distinct
            <4>3. \A k \in 1 .. 3 : l \notin Range(Queues[k])
                BY <2>3, <4>1 DEF Distinct
            <4>4. InQueues(l) = {}
                BY <3>7, <4>3 DEF Range
            <4> QED BY <4>2, <4>4, FS_Singleton, FS_EmptySet
        <3>9. CASE ~ \E c \in Cell : cell[c] = l
            <4>1. InCells(l) = {} BY <3>9 DEF InCells
            <4>2. PICK k \in 1 .. 3 : l \in Range(Queues[k])
                <5>1. l \in Range(queue) \cup Range(retained) \cup Range(draining)
                    BY <3>1, <3>9 DEF InHand
                <5> QED BY <2>3, <5>1
            <4>3. PICK i \in DOMAIN Queues[k] : Queues[k][i] = l BY <4>2 DEF Range
            <4>4. ASSUME NEW p \in InQueues(l) PROVE p = <<k, i>>
                <5>1. PICK j \in 1 .. 3 : \E n \in DOMAIN Queues[j] :
                          p = <<j, n>> /\ Queues[j][n] = l
                    BY <3>7
                <5>2. PICK n \in DOMAIN Queues[j] : p = <<j, n>> /\ Queues[j][n] = l
                    BY <5>1
                <5>3. l \in Range(Queues[j]) BY <5>2 DEF Range
                <5>4. j = k BY <3>4, <4>2, <5>3
                <5> QED BY <3>6, <4>3, <5>2, <5>4
            <4>5. InQueues(l) = {<<k, i>>} BY <3>10, <4>3, <4>4
            <4>6. Cardinality(InQueues(l)) = 1
                <5>1. \A p : Cardinality({p}) = 1 BY FS_Singleton
                <5> QED BY <4>5, <5>1
            <4>7. Cardinality(InCells(l)) = 0 BY <4>1, FS_EmptySet
            <4> QED BY <4>6, <4>7
        <3> QED BY <3>8, <3>9
    <2> QED BY <2>1, <2>4, <2>5 DEF LeaseOwnedOnce
<1> QED BY <1>1

\* A lease is in one variable of one thread.
THEOREM OwnedCorrect == Spec => []LeaseOwnedOnce
BY OwnedHolds, Invariance, PTL

\* The leases in the places of the invariant are few enough.
LEMMA PinnedHolds == IInv => PinnedBound
<1>1. IInv => PinnedBound
    <2> SUFFICES ASSUME IInv PROVE PinnedBound
        OBVIOUS
    <2> USE DEF IInv
    <2> DEFINE waiting == queue \o draining
               Pinned == {l \in out : l.box # "PREVIEW" /\ l \notin Range(waiting)}
    <2>1. queue \in Seq(Lease) /\ draining \in Seq(Lease) /\ retained \in Seq(Lease)
        BY DEF TypeOK
    <2>2. Range(waiting) = Range(queue) \cup Range(draining)
        BY <2>1, RangeConcatenation
    <2>3. Len(waiting) <= QueueCapacity
        <3>1. Len(waiting) = Len(queue) + Len(draining) /\ Len(queue) \in Nat /\ Len(draining) \in Nat
            BY <2>1, ConcatProperties
        <3>2. queue = << >> \/ draining = << >> BY DEF Joined
        <3>3. Len(queue) <= QueueCapacity /\ Len(draining) <= QueueCapacity BY DEF Room
        <3>4. CASE queue = << >>
            <4>1. Len(queue) = 0 BY <3>4, EmptyFacts
            <4> HIDE DEF waiting
            <4> QED BY <3>1, <3>3, <4>1
        <3>5. CASE draining = << >>
            <4>1. Len(draining) = 0 BY <3>5, EmptyFacts
            <4> HIDE DEF waiting
            <4> QED BY <3>1, <3>3, <4>1
        <3> QED BY <3>2, <3>4, <3>5
    <2> HIDE DEF waiting
    <2>4. PICK x : {cell["export"], cell["dropped"]} \subseteq {x, NoLease}
        <3>1. cell["export"] = NoLease \/ cell["dropped"] = NoLease
            BY DEF Carried, ExportHolds
        <3>2. CASE cell["export"] = NoLease
            <4> WITNESS cell["dropped"]
            <4> QED BY <3>2
        <3>3. CASE cell["dropped"] = NoLease
            <4> WITNESS cell["export"]
            <4> QED BY <3>3
        <3> QED BY <3>1, <3>2, <3>3
    <2>5. IsFiniteSet(Range(retained)) /\ Cardinality(Range(retained)) <= Len(retained)
        BY <2>1, RangeSize
    <2>6. Len(retained) \in Nat /\ RetainCount \in Nat BY <2>1, CapacityAssumption
    <2>7. ASSUME NEW l \in Pinned
          PROVE  l \in Range(retained) \/ l = x \/ l = cell["encoder"]
        <3>1. l \in InHand /\ l # NoLease /\ l.box # "PREVIEW" /\ l \notin Range(waiting)
            BY <2>7 DEF Accounted
        <3>2. \A c \in {"preview", "waiting", "closing"} : cell[c] # l
            BY <3>1 DEF Carried
        <3> QED BY <2>2, <2>4, <3>1, <3>2 DEF InHand, Cell
    <2> HIDE DEF Pinned
    <2>8. CASE epc = "trim"
        <3>1. cell["encoder"] = NoLease BY <2>8 DEF Carried
        <3>2. NoLease \notin Pinned BY DEF Pinned, Accounted
        <3>3. Pinned \subseteq Range(retained) \cup {x} BY <2>7, <3>1, <3>2
        <3>4. /\ IsFiniteSet(Range(retained) \cup {x})
              /\ Cardinality(Range(retained) \cup {x}) <= Cardinality(Range(retained)) + 1
            <4>1. Cardinality(Range(retained)) \in Nat BY <2>5, FS_CardinalityType
            <4> QED BY <2>5, <4>1, FS_AddElement
        <3>5. /\ IsFiniteSet(Pinned)
              /\ Cardinality(Pinned) <= Cardinality(Range(retained) \cup {x})
            BY <3>3, <3>4, FS_Subset
        <3>6. /\ Cardinality(Pinned) \in Nat /\ Cardinality(Range(retained)) \in Nat
              /\ Cardinality(Range(retained) \cup {x}) \in Nat
            BY <2>5, <3>4, <3>5, FS_CardinalityType
        <3>7. Len(retained) <= RetainCount + 1 BY <2>8 DEF Room
        <3>8. Cardinality(Pinned) <= RetainCount + 2 BY <2>5, <2>6, <3>4, <3>5, <3>6, <3>7
        <3> QED BY <2>3, <3>8 DEF PinnedBound, Pinned, waiting
    <2>9. CASE epc # "trim"
        <3>1. Pinned \subseteq (Range(retained) \cup {x}) \cup {cell["encoder"]} BY <2>7
        <3>2. /\ IsFiniteSet(Range(retained) \cup {x})
              /\ Cardinality(Range(retained) \cup {x}) <= Cardinality(Range(retained)) + 1
            <4>1. Cardinality(Range(retained)) \in Nat BY <2>5, FS_CardinalityType
            <4> QED BY <2>5, <4>1, FS_AddElement
        <3> DEFINE T == Range(retained) \cup {x}
                   U == T \cup {cell["encoder"]}
        <3>t. IsFiniteSet(T) /\ Cardinality(T) \in Nat BY <3>2, FS_CardinalityType
        <3> HIDE DEF T
        <3>3. IsFiniteSet(U) /\ Cardinality(U) <= Cardinality(T) + 1
            BY <3>t, FS_AddElement
        <3>4. Pinned \subseteq U BY <3>1 DEF T
        <3> HIDE DEF U
        <3>5. IsFiniteSet(Pinned) /\ Cardinality(Pinned) <= Cardinality(U)
            BY <3>3, <3>4, FS_Subset
        <3>6. /\ Cardinality(Pinned) \in Nat /\ Cardinality(Range(retained)) \in Nat
              /\ Cardinality(U) \in Nat
            BY <2>5, <3>3, <3>5, FS_CardinalityType
        <3>7. Len(retained) <= RetainCount BY <2>6, <2>9 DEF Room
        <3>8. Cardinality(T) <= Cardinality(Range(retained)) + 1 BY <3>2 DEF T
        <3>9. Cardinality(Pinned) <= RetainCount + 2
            BY <2>5, <2>6, <3>t, <3>3, <3>5, <3>6, <3>7, <3>8
        <3> QED BY <2>3, <3>9 DEF PinnedBound, Pinned, waiting
    <2> QED BY <2>8, <2>9
<1> QED BY <1>1

\* The router never pins more frames than its capacities add up to.
THEOREM PinnedCorrect == Spec => []PinnedBound
BY PinnedHolds, Invariance, PTL

\* A stage of the pipeline that holds at most one lease, as a sequence.
One(l) == IF l \in Lease /\ l.box = "OUTPUT" THEN <<l>> ELSE << >>

\* It has the lease of the stage, and is in order.
LEMMA OneFacts ==
    ASSUME NEW l
    PROVE  One(l) \in Seq(Lease) /\ Range(One(l)) = OutputOf(l) /\ Increasing(One(l))
<1>1. CASE l \in Lease /\ l.box = "OUTPUT"
    <2>1. One(l) = <<l>> /\ OutputOf(l) = {l} BY <1>1 DEF One, OutputOf
    <2>2. <<l>> \in Seq(Lease) /\ Len(<<l>>) = 1 /\ <<l>>[1] = l BY <1>1
    <2>3. Range(<<l>>) = {l} BY <2>2 DEF Range
    <2>4. Increasing(<<l>>) BY <2>2 DEF Increasing
    <2> QED BY <2>1, <2>2, <2>3, <2>4
<1>2. CASE ~(l \in Lease /\ l.box = "OUTPUT")
    <2>1. One(l) = << >> /\ OutputOf(l) = {} BY <1>2 DEF One, OutputOf
    <2> QED BY <2>1, EmptyFacts
<1> QED BY <1>1, <1>2

\* The pipeline is the concatenation of its ordered stages.
LEMMA PipelineHolds == IInv => PipelineOrdered
<1>1. IInv => PipelineOrdered
    <2> SUFFICES ASSUME IInv PROVE PipelineOrdered
        OBVIOUS
    <2> USE DEF IInv
    <2> DEFINE s1 == retained \o One(cell["encoder"])
               s2 == s1 \o queue
               s3 == s2 \o One(cell["export"])
               s4 == s3 \o One(box["OUTPUT"])
    <2>1. OutputFrames = s4 BY DEF OutputFrames, One
    <2>2. queue \in Seq(Lease) /\ retained \in Seq(Lease)
              /\ Increasing(queue) /\ Increasing(retained)
        BY DEF TypeOK, Ordered
    <2>3. Chain(Range(retained), Encoding, Range(draining), Range(queue), Exporting, Offered)
        BY DEF Ordered
    <2> DEFINE E == Encoding
               X == Exporting
               B == Offered
    <2>4. /\ One(cell["encoder"]) \in Seq(Lease) /\ Range(One(cell["encoder"])) = E
          /\ Increasing(One(cell["encoder"]))
          /\ One(cell["export"]) \in Seq(Lease) /\ Range(One(cell["export"])) = X
          /\ Increasing(One(cell["export"]))
          /\ One(box["OUTPUT"]) \in Seq(Lease) /\ Range(One(box["OUTPUT"])) = B
          /\ Increasing(One(box["OUTPUT"]))
        BY OneFacts DEF Encoding, Exporting, Offered
    <2>5. /\ Below(Range(retained), E) /\ Below(Range(retained), Range(queue))
          /\ Below(Range(retained), X) /\ Below(Range(retained), B)
          /\ Below(E, Range(queue)) /\ Below(E, X) /\ Below(E, B)
          /\ Below(Range(queue), X) /\ Below(Range(queue), B) /\ Below(X, B)
        BY <2>3 DEF Chain
    <2> HIDE DEF E, X, B, s1, s2, s3, s4
    <2>6. s1 \in Seq(Lease) /\ Range(s1) = Range(retained) \cup E /\ Increasing(s1)
        BY <2>2, <2>4, <2>5, ConcatFacts DEF s1
    <2>7. s2 \in Seq(Lease) /\ Range(s2) = Range(s1) \cup Range(queue) /\ Increasing(s2)
        <3>1. Below(Range(s1), Range(queue)) BY <2>5, <2>6 DEF Below
        <3> QED BY <2>2, <2>6, <3>1, ConcatFacts DEF s2
    <2>8. s3 \in Seq(Lease) /\ Range(s3) = Range(s2) \cup X /\ Increasing(s3)
        <3>1. Below(Range(s2), X) BY <2>5, <2>6, <2>7 DEF Below
        <3>2. Below(Range(s2), Range(One(cell["export"]))) BY <2>4, <3>1
        <3> QED BY <2>4, <2>7, <3>2, ConcatFacts DEF s3
    <2>9. Increasing(s4)
        <3>1. Below(Range(s3), B) BY <2>5, <2>6, <2>7, <2>8 DEF Below
        <3>2. Below(Range(s3), Range(One(box["OUTPUT"]))) BY <2>4, <3>1
        <3> QED BY <2>4, <2>8, <3>2, ConcatFacts DEF s4
    <2> QED BY <2>1, <2>9 DEF PipelineOrdered, Increasing
<1> QED BY <1>1

\* Frames reach the encoder in the order they were published.
THEOREM PipelineCorrect == Spec => []PipelineOrdered
BY PipelineHolds, Invariance, PTL
-----------------------------------------------------------------------------
(* The destination export.  The two threads tell each other nothing of     *)
(* where they are, so the invariant does: which pointers the compositor    *)
(* thread holds under its lock (Locks), which steps of the export thread   *)
(* come with a slot (Steps), what a teardown has settled (Torn), and of    *)
(* each slot that can be relied on what its state says of its reference,   *)
(* its render target, its fence and its holder (Good).                     *)

JobType == [kind : {"init", "plan", "submit", "take"}, dest : Dest]

\* The steps of sbs_compositor_init_export_dest, of a submit between claiming
\* a slot and naming it in its target, and of releasing the target's old slot.
Building == {"waitIdle", "unname", "destroy", "create", "describe", "note"}
ReleasingOld == {"oldLoad", "oldSub", "oldCheck", "oldClear"}
Claiming == {"queue", "old", "name"} \cup ReleasingOld
Submitting == Claiming \cup {"count", "mark"}
Consuming == {"consume", "decide", "store"}

XpType ==
    [pc : {"idle", "next", "poll", "pick"} \cup Building \cup Submitting \cup Consuming,
     jobs : Seq(JobType), need : SUBSET Dest, frame : Nat,
     slot : Slot \cup {None}, target : Target, old : Slot \cup {None},
     r : 0 .. RefModulus - 1, i : 0 .. Slots - 1, mode : Mode]
XpTypeOK == xp \in XpType

\* The compositor thread has a slot while it holds the lock: its target's, or
\* one that the export thread took from the target since, and then waits.
Locks ==
    /\ Locked <=> ct.slot # None
    /\ Locked /\ retire[ct.cur] # ct.slot =>
          retire[ct.cur] = None /\ xp.pc = "name" /\ xp.target = ct.cur

\* A frame's destinations are made before any slot is asked for.
JobsOrdered ==
    \/ \A k \in DOMAIN xp.jobs : xp.jobs[k].kind \in {"init", "plan"}
    \/ \A k \in DOMAIN xp.jobs :
          /\ xp.jobs[k].kind \in {"submit", "take"}
          /\ xp.jobs[k].kind = "submit" => dests[xp.jobs[k].dest].ready

\* Where the export thread is, and what it has in its hands there.
Steps ==
    /\ xp.pc # "idle" => xp.jobs # <<>>
    /\ xp.pc \in Building => Head(xp.jobs).kind = "init"
    /\ xp.pc \in Submitting => Head(xp.jobs).kind = "submit" /\ xp.slot \in Slot
                               /\ xp.slot[1] = Head(xp.jobs).dest
    /\ xp.pc \in {"poll", "pick"} \cup Consuming => Head(xp.jobs).kind = "take"
    /\ xp.pc \in Consuming => xp.slot \in Slot
    /\ xp.slot # None => xp.pc \in Submitting \cup Consuming
    /\ xp.old # None <=> xp.pc \in ReleasingOld
    /\ xp.pc \in ReleasingOld => xp.old # xp.slot /\ retire[xp.target] \in {xp.old, None}
    /\ xp.pc \in {"name", "count"} => retire[xp.target] \in {xp.slot, None}

\* Nothing refers to a ring that is about to be zeroed.
Unused(d) ==
    /\ \A k \in DOMAIN gpu : gpu[k][1] # d
    /\ \A t \in Target : retire[t] # None => retire[t][1] # d
    /\ ct.slot # None => ct.slot[1] # d
Torn ==
    /\ xp.pc \in {"unname", "destroy"} => gpu = <<>>
    /\ xp.pc \in {"destroy", "describe"} => Unused(Head(xp.jobs).dest)
    /\ xp.pc = "create" => ~dests[Head(xp.jobs).dest].ready

Apart ==
    /\ \A s \in Slot \ raced : ~Overlap(s)
    /\ \A s \in raced : dests[s[1]].ready

\* A target that names slot s and is not about to be cleared.
Waits(s, t) ==
    /\ retire[t] = s
    /\ ~(ct.pc = "clear" /\ t = ct.cur)
    /\ ~(xp.pc = "oldClear" /\ t = xp.target)
\* ... whose reference is counted.
Counts(s, t) == retire[t] = s /\ t \notin Uncounted

Good(s) ==
    /\ \A t, u \in Target : retire[t] = s /\ retire[u] = s => t = u
    /\ slots[s].refs = IF \E t \in Target : Counts(s, t) THEN 1 ELSE 0
    /\ slots[s].state = "FREE" =>
          xp.slot # s /\ ~InFlight(s) /\ \A t \in Target : ~Waits(s, t)
    /\ slots[s].state \in {"SUBMITTED", "READY"} => ~slots[s].pending /\ xp.slot # s
    /\ slots[s].state = "READY" => ~InFlight(s)
    /\ slots[s].state = "IN_USE" /\ xp.slot # s =>
          slots[s].pending /\ ~InFlight(s) /\ \E t \in Target : Waits(s, t)
    /\ xp.slot = s =>
          /\ slots[s].state = "IN_USE"
          /\ xp.pc \in Claiming =>
                (\A t \in Target : ~Waits(s, t)) /\ (ct.slot = s => ct.pc = "clear")
          /\ xp.pc = "queue" => ~InFlight(s)
          /\ xp.pc \in {"count", "mark"} => retire[xp.target] = s
          /\ xp.pc \in {"consume", "decide"} => ~slots[s].pending
          /\ xp.pc \in Consuming => ~InFlight(s)
          /\ xp.pc = "decide" => xp.r = slots[s].refs
          /\ xp.pc = "store" => slots[s].pending /\ \E t \in Target : Waits(s, t)
    /\ xp.old = s =>
          retire[xp.target] = s /\ (xp.pc = "oldCheck" => xp.r = 0)
    /\ ct.slot = s =>
          /\ retire[ct.cur] # s => \A t \in Target : retire[t] # s
          /\ ct.pc = "sub" => retire[ct.cur] = s
          /\ ct.pc = "check" => ct.r = 0
          /\ ct.pc = "free" => slots[s].pending

ExportIInv ==
    /\ ExportTypeOK /\ XpTypeOK
    /\ Locks /\ JobsOrdered /\ Steps /\ Torn /\ Apart
    /\ QueuedOnce /\ NoDangling
    /\ \A s \in Sound : Good(s)

-----------------------------------------------------------------------------
(* Slots, rings and the choice of a slot.                                  *)

\* A set of naturals has a smallest element.
LEMMA Smallest ==
    ASSUME NEW S \in SUBSET Nat, S # {}
    PROVE  \E m \in S : \A k \in S : m <= k
  <1>1. PICK m \in S : \A k \in S : ~ (<<k, m>> \in OpToRel(<, Nat))
    BY WFMin, NatLessThanWellFounded
  <1>2. \A k \in S : ~ (k < m)
    BY <1>1 DEF OpToRel
  <1> QED
    BY <1>2

\* A slot is a pair of its destination and its index in the ring.
LEMMA SlotFacts ==
    /\ \A s \in Slot : s[1] \in Dest /\ s[2] \in 0 .. Slots - 1 /\ s = <<s[1], s[2]>>
    /\ \A d \in Dest, k \in 0 .. Slots - 1 : <<d, k>> \in Slot
    /\ \A k \in Nat : k % Slots \in 0 .. Slots - 1
    /\ \A k \in Nat : k % Targets \in Target
    /\ 0 \in Target /\ 0 \in 0 .. Slots - 1 /\ None \notin Slot
    /\ 0 \in 0 .. RefModulus - 1 /\ 1 \in 0 .. RefModulus - 1
    /\ (1 - 1) % RefModulus = 0 /\ (0 + 1) % RefModulus = 1
  <1>1. Slots \in Nat \ {0} /\ Targets \in Nat \ {0} /\ RefModulus \in Nat \ {0, 1}
    BY RingAssumption
  <1>2. \A n \in Nat \ {0} : \A k \in Nat : k % n \in 0 .. n - 1
    OBVIOUS
  <1>3. \A n \in Nat \ {0, 1} : 0 % n = 0 /\ 1 % n = 1
    OBVIOUS
  <1>4. /\ \A s \in Slot : s[1] \in Dest /\ s[2] \in 0 .. Slots - 1 /\ s = <<s[1], s[2]>>
        /\ \A d \in Dest, k \in 0 .. Slots - 1 : <<d, k>> \in Slot
    BY DEF Slot
  <1>5. /\ \A k \in Nat : k % Slots \in 0 .. Slots - 1
        /\ \A k \in Nat : k % Targets \in Target
    BY <1>1, <1>2 DEF Target
  <1>6. /\ 0 \in Target /\ 0 \in 0 .. Slots - 1 
        /\ 0 \in 0 .. RefModulus - 1 /\ 1 \in 0 .. RefModulus - 1
    BY <1>1 DEF Target
  <1>7. (1 - 1) % RefModulus = 0 /\ (0 + 1) % RefModulus = 1
    <2>1. 1 - 1 = 0 /\ 0 + 1 = 1
      OBVIOUS
    <2> QED
      BY <1>1, <1>3, <2>1
  <1> QED
    BY <1>4, <1>5, <1>6, <1>7, NoneAssumption

\* sbs_export_dest_acquire_slot gives a FREE slot of its destination, or none.
LEMMA FirstFreeIs ==
    ASSUME ExportTypeOK, NEW d \in Dest, FirstFree(d) # None
    PROVE  FirstFree(d) \in Slot /\ FirstFree(d)[1] = d /\ slots[FirstFree(d)].state = "FREE"
  <1> DEFINE at(k) == <<d, (dests[d].submit + k) % Slots>>
             free == {k \in 0 .. Slots - 1 : slots[at(k)].state = "FREE"}
             least == CHOOSE k \in free : \A j \in free : k <= j
  <1>1. free # {} /\ FirstFree(d) = at(least)
    BY NoneAssumption DEF FirstFree
  <1>2. free \in SUBSET Nat
    BY RingAssumption
  <1>3. least \in free
    <2> HIDE DEF free
    <2>1. \E k \in free : \A j \in free : k <= j
      BY <1>1, <1>2, Smallest
    <2> QED
      BY <2>1
  <1>4. dests[d].submit + least \in Nat
    <2>1. dests[d].submit \in Nat
      BY RingAssumption DEF ExportTypeOK
    <2>2. least \in Nat
      BY <1>2, <1>3
    <2> QED
      BY <2>1, <2>2
  <1> HIDE DEF least
  <1>5. at(least) \in Slot /\ at(least)[1] = d /\ slots[at(least)].state = "FREE"
    BY <1>3, <1>4, SlotFacts
  <1> QED
    BY <1>1, <1>5

\* sbs_export_dest_acquire_ready gives a READY slot of its destination, or none.
LEMMA OldestIs ==
    ASSUME ExportTypeOK, NEW d \in Dest, Oldest(d) # None
    PROVE  Oldest(d) \in Slot /\ Oldest(d)[1] = d /\ slots[Oldest(d)].state = "READY"
  <1> DEFINE ready == {s \in Slot : s[1] = d /\ slots[s].state = "READY"}
             before(a, b) == \/ slots[a].frame < slots[b].frame
                             \/ slots[a].frame = slots[b].frame /\ a[2] < b[2]
             oldest == CHOOSE s \in ready : \A o \in ready \ {s} : before(s, o)
             frames == {slots[s].frame : s \in ready}
  <1>1. ready # {} /\ Oldest(d) = oldest
    BY DEF Oldest
  <1>2. frames \in SUBSET Nat /\ frames # {}
    <2>1. \A s \in ready : slots[s].frame \in Nat
      BY DEF ExportTypeOK
    <2> HIDE DEF ready
    <2> QED
      BY <1>1, <2>1
  <1>3. PICK m \in frames : \A k \in frames : m <= k
    <2> HIDE DEF frames
    <2> QED
      BY <1>2, Smallest
  <1> DEFINE firsts == {s[2] : s \in {o \in ready : slots[o].frame = m}}
  <1>4. firsts \in SUBSET Nat /\ firsts # {}
    BY <1>3, SlotFacts, RingAssumption
  <1>5. PICK i \in firsts : \A k \in firsts : i <= k
    <2> HIDE DEF firsts
    <2> QED
      BY <1>4, Smallest
  <1>6. PICK s \in ready : slots[s].frame = m /\ s[2] = i
    BY <1>5
  <1>7. \A o \in ready \ {s} : before(s, o)
    <2> SUFFICES ASSUME NEW o \in ready \ {s} PROVE before(s, o)
      OBVIOUS
    <2>1. m <= slots[o].frame /\ m \in Nat /\ slots[o].frame \in Nat
      BY <1>2, <1>3
    <2>2. o[2] # s[2]
      BY <1>6, SlotFacts
    <2>3. slots[o].frame = m => i <= o[2]
      BY <1>5
    <2>4. o[2] \in Nat /\ i \in Nat
      BY <1>4, <1>5, SlotFacts, RingAssumption
    <2> QED
      BY <2>1, <2>2, <2>3, <2>4, <1>6
  <1>8. oldest \in ready
    <2> HIDE DEF ready, before
    <2> QED
      BY <1>6, <1>7
  <1> HIDE DEF oldest
  <1> QED
    BY <1>1, <1>8

-----------------------------------------------------------------------------
(* Good slots: the compositor thread.                                      *)

\* A step of the compositor thread keeps a slot good, provided that it does not
\* run into the export thread's work on it.
LEMMA CompositorGood ==
    ASSUME ExportIInv, CompositorStep, NEW s \in Sound, ~Overlap(s), ~Overlap(s)'
    PROVE  Good(s)'
  <1>g. Good(s) /\ s \in Slot
    BY DEF ExportIInv, Sound
  <1>t. /\ ct \in [pc : {"wait", "lock", "fence", "sub", "check", "free", "clear", "render"},
                   slot : Slot \cup {None}, r : 0 .. RefModulus - 1,
                   cur : Target, last : Target]
        /\ slots \in [Slot -> [state : {"FREE", "SUBMITTED", "READY", "IN_USE"},
                           refs : 0 .. RefModulus - 1, pending : BOOLEAN, frame : Nat,
                         reset : BOOLEAN]]
        /\ retire \in [Target -> Slot \cup {None}]
        /\ None \notin Slot
    BY NoneAssumption DEF ExportIInv, ExportTypeOK
  <1>l. Locks
    BY DEF ExportIInv
  <1>s. /\ xp.old # None <=> xp.pc \in ReleasingOld
        /\ xp.pc \in ReleasingOld => xp.old # xp.slot /\ retire[xp.target] \in {xp.old, None}
        /\ xp.pc \in {"name", "count"} => retire[xp.target] \in {xp.slot, None}
        /\ xp.target \in Target
    BY DEF ExportIInv, Steps, XpTypeOK, XpType
  <1>p. xp.slot \in Slot => xp.pc \in Submitting \cup Consuming
    BY <1>t DEF ExportIInv, Steps
  <1> USE DEF Claiming, ReleasingOld, Consuming
  <1>1. CASE Wait
    BY <1>1, <1>g, <1>t, <1>l DEF Wait, Good, Waits, Counts, Uncounted, InFlight, Locks, Locked
  <1>2. CASE Lock
    BY <1>2, <1>g, <1>t, <1>l, <1>s DEF Lock, Good, Waits, Counts, Uncounted, InFlight, Locks, Locked
  <1>3. CASE FenceTimeout
    BY <1>3, <1>g, <1>t, <1>l DEF FenceTimeout, Good, Waits, Counts, Uncounted, InFlight, Locks, Locked
  <1>4. CASE LoadRefs
    BY <1>4, <1>g, <1>t, <1>l DEF LoadRefs, Good, Waits, Counts, Uncounted, InFlight, Locks, Locked, Overlap, Retiring, Touching
  <1>5. CASE SubRefs
    <2>1. CASE ct.slot # s
      BY <1>5, <2>1, <1>g, <1>t, <1>l DEF SubRefs, Good, Waits, Counts, Uncounted, InFlight, Locks, Locked
    <2>2. CASE ct.slot = s
      <3>1. retire[ct.cur] = s /\ ct.cur \in Target /\ ct.pc = "sub"
        BY <1>5, <2>2, <1>g, <1>t DEF SubRefs, Good
      <3>2. /\ ~(xp.slot = s /\ xp.pc \in {"count", "mark", "decide", "store"})
            /\ ~(xp.old = s /\ xp.pc \in ReleasingOld)
        BY <2>2, <3>1 DEF Overlap, Retiring, Touching
      <3>3. Counts(s, ct.cur)
        BY <3>1, <3>2, <1>s, <1>t, <1>g DEF Counts, Uncounted
      <3>4. slots[s].refs = 1
        BY <3>1, <3>3, <1>g DEF Good
      <3>5. /\ slots' = [slots EXCEPT ![s].refs = 0]
            /\ ct' = [ct EXCEPT !.r = 0, !.pc = "check"]
            /\ UNCHANGED <<dests, retire, gpu, xp>>
        BY <1>5, <2>2, <3>4, SlotFacts DEF SubRefs
      <3>6. \A t \in Target : ~Counts(s, t)'
        BY <3>1, <3>5, <1>g, <1>t DEF Good, Counts, Uncounted
      <3>7. /\ slots'[s].refs = 0
            /\ slots'[s].state = slots[s].state /\ slots'[s].pending = slots[s].pending
        BY <3>5, <1>t, <1>g
      <3>8. \A t \in Target : Waits(s, t)' <=> Waits(s, t)
        BY <3>5, <3>1, <1>t DEF Waits
      <3> QED
        BY <3>1, <3>2, <3>5, <3>6, <3>7, <3>8, <1>g, <1>t DEF Good, InFlight
    <2> QED
      BY <2>1, <2>2
  <1>6. CASE CheckPending
    BY <1>6, <1>g, <1>t, <1>l DEF CheckPending, Good, Waits, Counts, Uncounted, InFlight, Locks, Locked, Overlap, Retiring, Touching
  <1>7. CASE FreeSlot
    <2>1. CASE ct.slot # s
      BY <1>7, <2>1, <1>g, <1>t, <1>l DEF FreeSlot, Good, Waits, Counts, Uncounted, InFlight, Locks, Locked
    <2>2. CASE ct.slot = s
      <3>1. /\ slots' = [slots EXCEPT ![s].state = "FREE"]
            /\ ct' = [ct EXCEPT !.pc = "clear"] /\ ct.pc = "free"
            /\ UNCHANGED <<dests, retire, gpu, xp>>
        BY <1>7, <2>2 DEF FreeSlot
      <3>2. slots[s].pending
        BY <3>1, <2>2, <1>g DEF Good
      <3>3. /\ ~(xp.slot = s /\ xp.pc \in {"count", "mark", "decide", "store"})
            /\ ~(xp.old = s /\ xp.pc \in ReleasingOld)
        BY <2>2, <3>1 DEF Overlap, Retiring, Touching
      <3>4. xp.slot # s /\ ~InFlight(s)
        <4>1. xp.slot = s => xp.pc \in Claiming \cup Consuming
          BY <3>3, <1>p, <1>g DEF Submitting
        <4> QED
          BY <4>1, <3>1, <3>2, <3>3, <2>2, <1>g, <1>t DEF Good
      <3>5. \A t \in Target : ~Waits(s, t)'
        BY <3>1, <2>2, <1>g, <1>t DEF Good, Waits
      <3>6. /\ slots'[s].refs = slots[s].refs
            /\ slots'[s].state = "FREE" /\ slots'[s].pending = slots[s].pending
        BY <3>1, <1>t, <1>g
      <3>7. \A t \in Target : Counts(s, t)' <=> Counts(s, t)
        BY <3>1, <1>t DEF Counts, Uncounted
      <3> QED
        BY <2>2, <3>1, <3>3, <3>4, <3>5, <3>6, <3>7, <1>g, <1>t, <1>s DEF Good, InFlight
    <2> QED
      BY <2>1, <2>2
  <1>8. CASE ClearTarget
    BY <1>8, <1>g, <1>t, <1>l, <1>s DEF ClearTarget, Good, Waits, Counts, Uncounted, InFlight, Locks, Locked, Overlap, Retiring, Touching
  <1>9. CASE Render
    BY <1>9, <1>g, <1>t, <1>l, ZenonT(60) DEF Render, Good, Waits, Counts, Uncounted, InFlight, Locks, Locked
  <1> QED
    BY <1>1, <1>2, <1>3, <1>4, <1>5, <1>6, <1>7, <1>8, <1>9 DEF CompositorStep
-----------------------------------------------------------------------------
(* Types.                                                                  *)

\* The jobs of a frame: concatenations of at most one job each.
LEMMA JobIfType ==
    ASSUME NEW b \in BOOLEAN, NEW kind \in {"init", "plan", "submit", "take"}, NEW d \in Dest
    PROVE  /\ JobIf(b, kind, d) \in Seq(JobType)
           /\ \A k \in DOMAIN JobIf(b, kind, d) :
                 b /\ JobIf(b, kind, d)[k].kind = kind /\ JobIf(b, kind, d)[k].dest = d
  <1>1. Job(kind, d) \in JobType /\ Job(kind, d).kind = kind /\ Job(kind, d).dest = d
    BY DEF Job, JobType
  <1>2. CASE b
    <2> DEFINE j == Job(kind, d)
    <2>1. JobIf(b, kind, d) = <<j>>
      BY <1>2 DEF JobIf
    <2> HIDE DEF j
    <2>2. <<j>> \in Seq(JobType)
      BY <1>1 DEF j
    <2>3. \A k \in DOMAIN <<j>> : <<j>>[k] = j
      OBVIOUS
    <2> QED
      BY <2>1, <2>2, <2>3, <1>1, <1>2 DEF j
  <1>3. CASE ~b
    BY <1>3 DEF JobIf
  <1> QED
    BY <1>2, <1>3

\* A step of the export thread is where it was before, or in its next job.
LEMMA WorkType ==
    ASSUME XpTypeOK, NEW jobs \in Seq(JobType)
    PROVE  /\ Work(jobs) \in XpType
           /\ Work(jobs).jobs = jobs /\ Work(jobs).slot = None /\ Work(jobs).old = None
           /\ Work(jobs).pc = IF jobs = <<>> THEN "idle" ELSE "next"
           /\ Work(jobs).frame = xp.frame /\ Work(jobs).need = {}
  <1>1. 0 \in Target /\ 0 \in 0 .. RefModulus - 1 /\ 0 \in 0 .. Slots - 1
    BY SlotFacts
  <1> QED
    BY <1>1 DEF Work, XpTypeOK, XpType, Mode

\* When a job is done, the next one of the frame follows.
LEMMA NextJobType ==
    ASSUME XpTypeOK, xp.jobs # <<>>
    PROVE  /\ NextJob \in XpType
           /\ NextJob.jobs = Tail(xp.jobs) /\ NextJob.slot = None /\ NextJob.old = None
           /\ NextJob.pc = IF Tail(xp.jobs) = <<>> THEN "idle" ELSE "next"
  <1>1. Tail(xp.jobs) \in Seq(JobType) /\ xp.need \in SUBSET Dest
    BY DEF XpTypeOK, XpType
  <1> DEFINE w == Work(Tail(xp.jobs))
  <1>2. /\ w \in XpType
        /\ w.jobs = Tail(xp.jobs) /\ w.slot = None /\ w.old = None
        /\ w.pc = IF Tail(xp.jobs) = <<>> THEN "idle" ELSE "next"
    BY <1>1, WorkType
  <1>3. NextJob = [w EXCEPT !.need = xp.need]
    BY DEF NextJob
  <1> HIDE DEF w
  <1>4. NextJob \in XpType
    BY <1>1, <1>2, <1>3 DEF XpType
  <1>5. /\ NextJob.jobs = w.jobs /\ NextJob.slot = w.slot /\ NextJob.old = w.old
        /\ NextJob.pc = w.pc
    BY <1>2, <1>3 DEF XpType
  <1> QED
    BY <1>2, <1>4, <1>5

\* The head of a list of jobs and its tail.
LEMMA HeadType ==
    ASSUME XpTypeOK, xp.jobs # <<>>
    PROVE  /\ Head(xp.jobs) \in JobType /\ Head(xp.jobs).dest \in Dest
           /\ Head(xp.jobs) = xp.jobs[1] /\ 1 \in DOMAIN xp.jobs
           /\ \A k \in DOMAIN Tail(xp.jobs) :
                 k + 1 \in DOMAIN xp.jobs /\ Tail(xp.jobs)[k] = xp.jobs[k + 1]
  <1>1. xp.jobs \in Seq(JobType)
    BY DEF XpTypeOK, XpType
  <1> DEFINE q == xp.jobs
  <1>2. q \in Seq(JobType) /\ q # <<>>
    BY <1>1
  <1> HIDE DEF q
  <1>3. Head(q) \in JobType /\ Head(q) = q[1] /\ 1 \in DOMAIN q
    BY <1>2
  <1>4. \A k \in DOMAIN Tail(q) : k + 1 \in DOMAIN q /\ Tail(q)[k] = q[k + 1]
    BY <1>2
  <1>5. Head(q).dest \in Dest
    BY <1>3 DEF JobType
  <1> QED
    BY <1>3, <1>4, <1>5 DEF q
\* Arithmetic modulo 2^32 stays a uint32.
LEMMA RefTypes ==
    \A r \in 0 .. RefModulus - 1 :
        /\ (r - 1) % RefModulus \in 0 .. RefModulus - 1
        /\ (r + 1) % RefModulus \in 0 .. RefModulus - 1
  <1>1. RefModulus \in Nat \ {0}
    BY RingAssumption
  <1>2. \A n \in Nat \ {0} : \A k \in Int : k % n \in 0 .. n - 1
    OBVIOUS
  <1>3. \A r \in 0 .. RefModulus - 1 : r - 1 \in Int /\ r + 1 \in Int
    BY <1>1
  <1> QED
    BY <1>1, <1>2, <1>3

\* What the threads share, without the position of the export thread.
SharedTypeOK ==
    /\ slots \in [Slot -> [state : {"FREE", "SUBMITTED", "READY", "IN_USE"},
                           refs : 0 .. RefModulus - 1, pending : BOOLEAN, frame : Nat,
                         reset : BOOLEAN]]
    /\ dests \in [Dest -> [ready : BOOLEAN, mode : Mode, submit : 0 .. Slots - 1]]
    /\ inited \in [Dest -> BOOLEAN]
    /\ colorMode \in Mode /\ modes \in Nat
    /\ retire \in [Target -> Slot \cup {None}]
    /\ gpu \in Seq(Slot)
    /\ rendered \in Nat
    /\ ct \in [pc : {"wait", "lock", "fence", "sub", "check", "free", "clear", "render"},
               slot : Slot \cup {None}, r : 0 .. RefModulus - 1,
               cur : Target, last : Target]

\* Every step of the compositor thread keeps the types.
LEMMA CompositorType ==
    ASSUME ExportIInv, CompositorStep
    PROVE  SharedTypeOK' /\ XpTypeOK'
  <1>t. SharedTypeOK /\ XpTypeOK
    BY DEF ExportIInv, ExportTypeOK, SharedTypeOK
  <1>l. Locks
    BY DEF ExportIInv
  <1>1. CASE Wait
    BY <1>1, <1>t DEF Wait, SharedTypeOK, XpTypeOK
  <1>2. CASE Lock
    BY <1>2, <1>t DEF Lock, SharedTypeOK, XpTypeOK
  <1>3. CASE FenceTimeout
    BY <1>3, <1>t DEF FenceTimeout, SharedTypeOK, XpTypeOK
  <1>4. CASE LoadRefs
    <2>1. ct.slot \in Slot
      BY <1>4, <1>t, <1>l DEF LoadRefs, Locks, Locked, SharedTypeOK
    <2> QED
      BY <1>4, <1>t, <2>1 DEF LoadRefs, SharedTypeOK, XpTypeOK
  <1>5. CASE SubRefs
    <2>1. ct.slot \in Slot
      BY <1>5, <1>t, <1>l DEF SubRefs, Locks, Locked, SharedTypeOK
    <2>2. (slots[ct.slot].refs - 1) % RefModulus \in 0 .. RefModulus - 1
      BY <1>t, <2>1, RefTypes DEF SharedTypeOK
    <2> QED
      BY <1>5, <1>t, <2>1, <2>2, ZenonT(60) DEF SubRefs, SharedTypeOK, XpTypeOK
  <1>6. CASE CheckPending
    BY <1>6, <1>t DEF CheckPending, SharedTypeOK, XpTypeOK
  <1>7. CASE FreeSlot
    BY <1>7, <1>t, ZenonT(60) DEF FreeSlot, SharedTypeOK, XpTypeOK
  <1>8. CASE ClearTarget
    BY <1>8, <1>t, SlotFacts DEF ClearTarget, SharedTypeOK, XpTypeOK
  <1>9. CASE Render
    <2>1. (ct.cur + 1) % Targets \in Target
      <3>1. ct.cur + 1 \in Nat
        BY <1>t, RingAssumption DEF SharedTypeOK, Target
      <3> QED
        BY <3>1, SlotFacts
    <2>2. ct' \in [pc : {"wait", "lock", "fence", "sub", "check", "free", "clear", "render"},
                   slot : Slot \cup {None}, r : 0 .. RefModulus - 1,
                   cur : Target, last : Target]
      <3> HIDE DEF Target
      <3> QED
        BY <1>9, <1>t, <2>1 DEF Render, SharedTypeOK
    <2> QED
      BY <1>9, <1>t, <2>2 DEF Render, SharedTypeOK, XpTypeOK
  <1> QED
    BY <1>1, <1>2, <1>3, <1>4, <1>5, <1>6, <1>7, <1>8, <1>9 DEF CompositorStep
\* The jobs a frame is taken with, and what they become once planned.
FrameJobs(who) ==
    JobIf("preview" \in who /\ ~inited["preview"], "init", "preview")
    \o JobIf("output" \in who /\ Visits(who), "init", "output")
    \o <<Job("plan", "output")>>
PlanJobs(ok, due) ==
    JobIf("output" \in ok, "submit", "output")
    \o JobIf("preview" \in ok /\ due, "submit", "preview")
    \o JobIf("output" \in ok, "take", "output")
    \o JobIf("preview" \in ok, "take", "preview")
TimeoutJobs ==
    JobIf(inited["output"], "take", "output") \o JobIf(inited["preview"], "take", "preview")

\* The elements of a concatenation are those of its parts.
LEMMA ConcatElements ==
    ASSUME NEW S, NEW p \in Seq(S), NEW q \in Seq(S)
    PROVE  /\ p \o q \in Seq(S)
           /\ \A k \in DOMAIN (p \o q) :
                 \/ k \in DOMAIN p /\ (p \o q)[k] = p[k]
                 \/ k - Len(p) \in DOMAIN q /\ (p \o q)[k] = q[k - Len(p)]
  OBVIOUS

\* A frame's jobs come from the destinations that are needed and, once
\* planned, only from those that are ready.
LEMMA JobLists ==
    ASSUME ExportTypeOK
    PROVE  /\ \A who \in SUBSET Dest :
                 /\ FrameJobs(who) \in Seq(JobType) /\ FrameJobs(who) # <<>>
                 /\ \A k \in DOMAIN FrameJobs(who) : FrameJobs(who)[k].kind \in {"init", "plan"}
           /\ \A ok \in SUBSET Dest, due \in BOOLEAN :
                 /\ PlanJobs(ok, due) \in Seq(JobType)
                 /\ \A k \in DOMAIN PlanJobs(ok, due) :
                       /\ PlanJobs(ok, due)[k].kind \in {"submit", "take"}
                       /\ PlanJobs(ok, due)[k].dest \in ok
           /\ /\ TimeoutJobs \in Seq(JobType)
              /\ \A k \in DOMAIN TimeoutJobs : TimeoutJobs[k].kind = "take"
  <1>1. \A who \in SUBSET Dest :
           /\ FrameJobs(who) \in Seq(JobType) /\ FrameJobs(who) # <<>>
           /\ \A k \in DOMAIN FrameJobs(who) : FrameJobs(who)[k].kind \in {"init", "plan"}
    <2> TAKE who \in SUBSET Dest
    <2> DEFINE u == "preview" \in who /\ ~inited["preview"]
               v == "output" \in who /\ Visits(who)
               p == JobIf(u, "init", "preview")
               q == JobIf(v, "init", "output")
               r == <<Job("plan", "output")>>
    <2>1. /\ p \in Seq(JobType) /\ \A k \in DOMAIN p : p[k].kind = "init"
          /\ q \in Seq(JobType) /\ \A k \in DOMAIN q : q[k].kind = "init"
      <3>1. /\ u \in BOOLEAN /\ v \in BOOLEAN
            /\ "preview" \in Dest /\ "output" \in Dest
            /\ "init" \in {"init", "plan", "submit", "take"}
        BY DEF Dest
      <3> HIDE DEF u, v
      <3>2. p \in Seq(JobType) /\ \A k \in DOMAIN p : p[k].kind = "init"
        BY ONLY <3>1, JobIfType
      <3>3. q \in Seq(JobType) /\ \A k \in DOMAIN q : q[k].kind = "init"
        BY ONLY <3>1, JobIfType
      <3> QED
        BY <3>2, <3>3
    <2>2. r \in Seq(JobType) /\ r # <<>> /\ \A k \in DOMAIN r : r[k].kind = "plan"
      <3>1. Job("plan", "output") \in JobType /\ Job("plan", "output").kind = "plan"
        BY DEF Job, JobType, Dest
      <3> DEFINE j == Job("plan", "output")
      <3> HIDE DEF j
      <3>2. <<j>> # <<>> /\ \A k \in DOMAIN <<j>> : <<j>>[k] = j
        OBVIOUS
      <3>3. j \in JobType => <<j>> \in Seq(JobType)
        OBVIOUS
      <3> QED
        BY <3>1, <3>2, <3>3 DEF j
    <2> HIDE DEF p, q, r
    <2>3. FrameJobs(who) = (p \o q) \o r
      BY <2>1, <2>2 DEF FrameJobs, p, q, r
    <2>4. /\ p \o q \in Seq(JobType)
          /\ \A k \in DOMAIN (p \o q) : (p \o q)[k].kind = "init"
      BY <2>1, ConcatElements
    <2> DEFINE pq == p \o q
    <2> HIDE DEF pq
    <2>5. /\ pq \o r \in Seq(JobType)
          /\ \A k \in DOMAIN (pq \o r) : (pq \o r)[k].kind \in {"init", "plan"}
      <3>1. pq \in Seq(JobType) /\ \A k \in DOMAIN pq : pq[k].kind = "init"
        BY <2>4 DEF pq
      <3> QED
        BY <2>2, <3>1, ConcatElements
    <2>6. pq \o r # <<>>
      BY <2>2, <2>4 DEF pq
    <2> QED
      BY <2>3, <2>5, <2>6 DEF pq
  <1>2. \A ok \in SUBSET Dest, due \in BOOLEAN :
           /\ PlanJobs(ok, due) \in Seq(JobType)
           /\ \A k \in DOMAIN PlanJobs(ok, due) :
                 /\ PlanJobs(ok, due)[k].kind \in {"submit", "take"}
                 /\ PlanJobs(ok, due)[k].dest \in ok
    <2> TAKE ok \in SUBSET Dest, due \in BOOLEAN
    <2> DEFINE Fine(p) == /\ p \in Seq(JobType)
                          /\ \A k \in DOMAIN p : p[k].kind \in {"submit", "take"} /\ p[k].dest \in ok
               u == "output" \in ok
               v == "preview" \in ok /\ due
               w == "preview" \in ok
               a == JobIf(u, "submit", "output")
               b == JobIf(v, "submit", "preview")
               c == JobIf(u, "take", "output")
               d == JobIf(w, "take", "preview")
    <2>1. Fine(a) /\ Fine(b) /\ Fine(c) /\ Fine(d)
      <3>1. /\ u \in BOOLEAN /\ v \in BOOLEAN /\ w \in BOOLEAN
            /\ "preview" \in Dest /\ "output" \in Dest
            /\ "submit" \in {"init", "plan", "submit", "take"}
            /\ "take" \in {"init", "plan", "submit", "take"}
        BY DEF Dest
      <3>2. (u => "output" \in ok) /\ (v => "preview" \in ok) /\ (w => "preview" \in ok)
        OBVIOUS
      <3> HIDE DEF u, v, w
      <3> DEFINE Of(p, e, kind, to) ==
                    /\ p \in Seq(JobType)
                    /\ \A k \in DOMAIN p : e /\ p[k].kind = kind /\ p[k].dest = to
      <3>3. Of(a, u, "submit", "output")
        BY ONLY <3>1, JobIfType
      <3>4. Of(b, v, "submit", "preview")
        BY ONLY <3>1, JobIfType
      <3>5. Of(c, u, "take", "output")
        BY ONLY <3>1, JobIfType
      <3>6. Of(d, w, "take", "preview")
        BY ONLY <3>1, JobIfType
      <3> HIDE DEF a, b, c, d
      <3> QED
        BY <3>2, <3>3, <3>4, <3>5, <3>6
    <2>2. ASSUME NEW p, NEW q, Fine(p), Fine(q) PROVE Fine(p \o q)
      BY <2>2, ConcatElements
    <2>3. PlanJobs(ok, due) = ((a \o b) \o c) \o d
      BY <2>1 DEF PlanJobs
    <2>4. Fine(((a \o b) \o c) \o d)
      <3> HIDE DEF Fine, a, b, c, d
      <3> QED
        BY <2>1, <2>2
    <2> HIDE DEF a, b, c, d
    <2> QED
      BY <2>3, <2>4
  <1>3. TimeoutJobs \in Seq(JobType) /\ \A k \in DOMAIN TimeoutJobs : TimeoutJobs[k].kind = "take"
    <2> DEFINE p == JobIf(inited["output"], "take", "output")
               q == JobIf(inited["preview"], "take", "preview")
    <2>1. /\ p \in Seq(JobType) /\ \A k \in DOMAIN p : p[k].kind = "take"
          /\ q \in Seq(JobType) /\ \A k \in DOMAIN q : q[k].kind = "take"
      <3>1. /\ inited["output"] \in BOOLEAN /\ inited["preview"] \in BOOLEAN
            /\ "preview" \in Dest /\ "output" \in Dest
            /\ "take" \in {"init", "plan", "submit", "take"}
        BY DEF Dest, ExportTypeOK
      <3>2. p \in Seq(JobType) /\ \A k \in DOMAIN p : p[k].kind = "take"
        BY ONLY <3>1, JobIfType
      <3>3. q \in Seq(JobType) /\ \A k \in DOMAIN q : q[k].kind = "take"
        BY ONLY <3>1, JobIfType
      <3> QED
        BY <3>2, <3>3
    <2> HIDE DEF p, q
    <2>2. p \o q \in Seq(JobType) /\ \A k \in DOMAIN (p \o q) : (p \o q)[k].kind = "take"
      BY <2>1, ConcatElements
    <2> QED
      BY <2>2 DEF TimeoutJobs, p, q
  <1> QED
    BY <1>1, <1>2, <1>3
SlotsType == [Slot -> [state : {"FREE", "SUBMITTED", "READY", "IN_USE"},
                       refs : 0 .. RefModulus - 1, pending : BOOLEAN, frame : Nat,
                         reset : BOOLEAN]]
DestsType == [Dest -> [ready : BOOLEAN, mode : Mode, submit : 0 .. Slots - 1]]

\* What the steps write into slots and destinations keeps their types.
LEMMA SlotWrites ==
    ASSUME SharedTypeOK
    PROVE  /\ slots \in SlotsType /\ dests \in DestsType
           /\ \A s \in Slot, x \in {"FREE", "SUBMITTED", "READY", "IN_USE"} :
                 [slots EXCEPT ![s].state = x] \in SlotsType
           /\ \A s \in Slot : /\ [slots EXCEPT ![s].pending = TRUE] \in SlotsType
                             /\ [slots EXCEPT ![s].refs = (@ + 1) % RefModulus] \in SlotsType
                             /\ [slots EXCEPT ![s].refs = (slots[s].refs - 1) % RefModulus] \in SlotsType
                             /\ [slots EXCEPT ![s].reset = FALSE] \in SlotsType
                             /\ [slots EXCEPT ![s].state = "FREE", ![s].reset = TRUE] \in SlotsType
           /\ \A d \in Dest : FreshRing(d) \in SlotsType
           /\ \A d \in Dest : [dests EXCEPT ![d] = NoDest] \in DestsType
           /\ \A d \in Dest, m \in Mode : [dests EXCEPT ![d] = NewDest(m)] \in DestsType
  <1>1. slots \in SlotsType /\ dests \in DestsType
    BY DEF SharedTypeOK, SlotsType, DestsType
  <1>2. \A s \in Slot, x \in {"FREE", "SUBMITTED", "READY", "IN_USE"} :
           [slots EXCEPT ![s].state = x] \in SlotsType
    BY <1>1 DEF SlotsType
  <1>3. \A s \in Slot : [slots EXCEPT ![s].pending = TRUE] \in SlotsType
    BY <1>1 DEF SlotsType
  <1>4. \A s \in Slot, r \in 0 .. RefModulus - 1 : [slots EXCEPT ![s].refs = r] \in SlotsType
    BY <1>1 DEF SlotsType
  <1>5. \A s \in Slot : /\ (slots[s].refs + 1) % RefModulus \in 0 .. RefModulus - 1
                       /\ (slots[s].refs - 1) % RefModulus \in 0 .. RefModulus - 1
    BY <1>1, RefTypes DEF SlotsType
  <1>6. \A s \in Slot : /\ [slots EXCEPT ![s].refs = (@ + 1) % RefModulus] \in SlotsType
                       /\ [slots EXCEPT ![s].refs = (slots[s].refs - 1) % RefModulus] \in SlotsType
    BY <1>4, <1>5
  <1>9. \A s \in Slot : /\ [slots EXCEPT ![s].reset = FALSE] \in SlotsType
                       /\ [slots EXCEPT ![s].state = "FREE", ![s].reset = TRUE] \in SlotsType
    BY <1>1 DEF SlotsType
  <1>7. \A d \in Dest : FreshRing(d) \in SlotsType
    <2>1. FreshSlot \in [state : {"FREE", "SUBMITTED", "READY", "IN_USE"},
                         refs : 0 .. RefModulus - 1, pending : BOOLEAN, frame : Nat,
                         reset : BOOLEAN]
      BY SlotFacts DEF FreshSlot
    <2> QED
      BY <1>1, <2>1 DEF SlotsType, FreshRing
  <1>8. /\ \A d \in Dest : [dests EXCEPT ![d] = NoDest] \in DestsType
        /\ \A d \in Dest, m \in Mode : [dests EXCEPT ![d] = NewDest(m)] \in DestsType
    BY <1>1, SlotFacts DEF DestsType, NoDest, NewDest, Mode
  <1> QED
    BY <1>1, <1>2, <1>3, <1>6, <1>7, <1>8, <1>9

\* What a step of the export thread may rely on: its job, its slot and the
\* old slot of its target are there when the step needs them.
LEMMA ExportThreadFacts ==
    ASSUME ExportIInv
    PROVE  /\ SharedTypeOK /\ XpTypeOK
           /\ xp.pc # "idle" =>
                 /\ xp.jobs # <<>> /\ Head(xp.jobs).dest \in Dest
                 /\ NextJob \in XpType
           /\ xp.pc \in Submitting \cup Consuming => xp.slot \in Slot
           /\ xp.pc \in ReleasingOld => xp.old \in Slot
  <1>1. SharedTypeOK /\ XpTypeOK /\ Steps
    BY DEF ExportIInv, ExportTypeOK, SharedTypeOK
  <1>2. xp.pc # "idle" => xp.jobs # <<>> /\ Head(xp.jobs).dest \in Dest /\ NextJob \in XpType
    BY <1>1, HeadType, NextJobType DEF Steps
  <1>3. /\ xp.pc \in Submitting \cup Consuming => xp.slot \in Slot
        /\ xp.pc \in ReleasingOld => xp.old \in Slot
    BY <1>1 DEF Steps, XpTypeOK, XpType
  <1> QED
    BY <1>1, <1>2, <1>3

\* Every step of the export thread keeps the types.
LEMMA ExportThreadType ==
    ASSUME ExportIInv, ExportThreadStep
    PROVE  SharedTypeOK' /\ XpTypeOK'
  <1>t. SharedTypeOK /\ XpTypeOK
    BY ExportThreadFacts
  <1>j. xp.pc # "idle" => /\ xp.jobs # <<>> /\ Head(xp.jobs).dest \in Dest /\ NextJob \in XpType
    BY ExportThreadFacts
  <1>s. /\ xp.pc \in Submitting \cup Consuming => xp.slot \in Slot
        /\ xp.pc \in ReleasingOld => xp.old \in Slot
    BY ExportThreadFacts
  <1>w. \A jobs \in Seq(JobType) : Work(jobs) \in XpType
    BY <1>t, WorkType
  <1>z. /\ 0 \in Target /\ 0 \in 0 .. Slots - 1 /\ 0 \in 0 .. RefModulus - 1
        /\ \A k \in Nat : k % Slots \in 0 .. Slots - 1
        /\ Slots \in Nat \ {0}
    BY SlotFacts, RingAssumption
  <1> USE DEF Building, Submitting, Claiming, ReleasingOld, Consuming, At
  <1> HIDE DEF NextJob, Work
  <1>x. \A pc \in {"idle", "next", "poll", "pick"} \cup Building \cup Submitting \cup Consuming :
           Then(pc) \in XpType
    BY <1>t DEF Then, XpTypeOK, XpType
  <1>1. CASE \E who \in SUBSET Dest \ {{}} : TakeEvent(who)
    <2>1. PICK who \in SUBSET Dest \ {{}} : TakeEvent(who)
      BY <1>1
    <2>2. FrameJobs(who) \in Seq(JobType) /\ xp.frame + 1 \in Nat
      BY JobLists, <1>t DEF ExportIInv, XpTypeOK, XpType
    <2>3. xp' = [xp EXCEPT !.pc = "next", !.need = who, !.frame = xp.frame + 1,
                           !.jobs = FrameJobs(who)]
      BY <2>1 DEF TakeEvent, FrameJobs
    <2>4. XpTypeOK'
      BY <2>2, <2>3, <1>t DEF XpTypeOK, XpType
    <2> QED
      BY <2>1, <2>4, <1>t DEF TakeEvent, SharedTypeOK
  <1>2. CASE Plan
    <2> DEFINE ok == {d \in xp.need : inited[d] /\ dests[d].ready}
    <2>1. ok \in SUBSET Dest
      BY <1>t DEF XpTypeOK, XpType
    <2>2. PICK due \in BOOLEAN : xp' = Work(PlanJobs(ok, due))
      BY <1>2 DEF Plan, PlanJobs
    <2>3. PlanJobs(ok, due) \in Seq(JobType)
      <3> HIDE DEF ok
      <3> QED
        BY <2>1, JobLists DEF ExportIInv
    <2>4. XpTypeOK'
      <3> HIDE DEF ok
      <3> QED
        BY <2>2, <2>3, <1>w DEF XpTypeOK
    <2> QED
      BY <1>2, <2>4, <1>t DEF Plan, SharedTypeOK
  <1>3. CASE Timeout
    <2>1. xp' = Work(TimeoutJobs)
      BY <1>3 DEF Timeout, TimeoutJobs
    <2>2. XpTypeOK'
      BY <2>1, JobLists, <1>w DEF XpTypeOK, ExportIInv
    <2> QED
      BY <1>3, <2>2, <1>t DEF Timeout, SharedTypeOK
  <1>4. CASE StartInit
    <2>1. colorMode \in Mode /\ "SDR" \in Mode
      BY <1>t DEF SharedTypeOK, Mode
    <2> HIDE DEF Mode
    <2>2. XpTypeOK'
      BY <1>4, <2>1, <1>t, ZenonT(60) DEF StartInit, XpTypeOK, XpType
    <2> QED
      BY <1>4, <2>2, <1>t DEF StartInit, SharedTypeOK
  <1>5. CASE WaitIdle
    BY <1>5, <1>t, <1>j, <1>s, <1>z DEF WaitIdle, SharedTypeOK, XpTypeOK, XpType, Then
  <1>6. CASE Unname
    BY <1>6, <1>t, <1>j, <1>s, <1>z DEF Unname, SharedTypeOK, XpTypeOK, XpType, Then
  <1>7. CASE Destroy
    <2>1. slots' \in SlotsType
      BY <1>7, SlotWrites, <1>t, <1>j, <1>s DEF Destroy, Destroyed
    <2>2. dests' \in DestsType
      BY <1>7, SlotWrites, <1>t, <1>j, <1>s DEF Destroy, Destroyed
    <2>3. XpTypeOK'
      BY <1>7, <1>t, <1>j, <1>s, <1>z DEF Destroy, SharedTypeOK, XpTypeOK, XpType, Then
    <2> QED
      BY <1>7, <2>1, <2>2, <2>3, <1>t, <1>j, <1>s DEF Destroy, SharedTypeOK, SlotsType, DestsType
  <1>8. CASE Create
    <2>0. xp.mode \in Mode
      BY <1>t DEF XpTypeOK, XpType
    <2>1. slots' \in SlotsType
      BY <1>8, SlotWrites, <1>t, <1>j, <1>s, <2>0 DEF Create
    <2>2. dests' \in DestsType
      BY <1>8, SlotWrites, <1>t, <1>j, <1>s, <2>0 DEF Create
    <2>3. XpTypeOK'
      BY <1>8, <1>j, <1>x DEF Create, XpTypeOK
    <2> QED
      BY <1>8, <2>1, <2>2, <2>3, <1>t, <1>j, <1>s DEF Create, SharedTypeOK, SlotsType, DestsType
  <1>9. CASE Describe
    <2>1. slots' \in SlotsType
      BY <1>9, SlotWrites, <1>t, <1>j, <1>s DEF Describe, Destroyed
    <2>2. dests' \in DestsType
      BY <1>9, SlotWrites, <1>t, <1>j, <1>s DEF Describe, Destroyed
    <2>3. XpTypeOK'
      BY <1>9, <1>j, <1>x DEF Describe, XpTypeOK
    <2> QED
      BY <1>9, <2>1, <2>2, <2>3, <1>t, <1>j, <1>s DEF Describe, SharedTypeOK, SlotsType, DestsType
  <1>10. CASE NoteInited
    <2>1. slots' \in SlotsType
      BY <1>10, SlotWrites, <1>t, <1>j, <1>s DEF NoteInited
    <2>2. dests' \in DestsType
      BY <1>10, SlotWrites, <1>t, <1>j, <1>s DEF NoteInited
    <2>3. XpTypeOK'
      BY <1>10, <1>t, <1>j, <1>s, <1>z DEF NoteInited, SharedTypeOK, XpTypeOK, XpType, Then
    <2> QED
      BY <1>10, <2>1, <2>2, <2>3, <1>t, <1>j, <1>s DEF NoteInited, SharedTypeOK, SlotsType, DestsType
  <1>11. CASE AcquireSlot
    <2>0. FirstFree(Head(xp.jobs).dest) # None =>
             /\ FirstFree(Head(xp.jobs).dest) \in Slot
             /\ (FirstFree(Head(xp.jobs).dest)[2] + 1) % Slots \in 0 .. Slots - 1
      <3>1. FirstFree(Head(xp.jobs).dest) # None => FirstFree(Head(xp.jobs).dest) \in Slot
        BY <1>11, <1>j, FirstFreeIs DEF AcquireSlot, ExportIInv
      <3> QED
        BY <3>1, SlotFacts, RingAssumption
    <2> HIDE DEF FirstFree
    <2>1. slots' \in SlotsType
      BY <1>11, SlotWrites, <1>t, <1>j, <1>s, <2>0, ZenonT(60) DEF AcquireSlot
    <2>2. dests' \in DestsType
      BY <1>11, SlotWrites, <1>t, <1>j, <1>s, <2>0, SMTT(60) DEF AcquireSlot, DestsType
    <2>3. XpTypeOK'
      <3>1. \A s \in Slot : [Then("queue") EXCEPT !.slot = s, !.target = ct.last] \in XpType
        BY <1>t DEF Then, XpTypeOK, XpType, SharedTypeOK
      <3> QED
        BY <1>11, <3>1, <2>0, <1>j DEF AcquireSlot, XpTypeOK
    <2> QED
      BY <1>11, <2>1, <2>2, <2>3, <1>t, <1>j, <1>s DEF AcquireSlot, SharedTypeOK, SlotsType, DestsType
  <1>12. CASE QueueSubmit
    <2>1. slots' \in SlotsType
      BY <1>12, SlotWrites, <1>t, <1>j, <1>s DEF QueueSubmit
    <2>2. dests' \in DestsType
      BY <1>12, SlotWrites, <1>t, <1>j, <1>s DEF QueueSubmit
    <2>3. XpTypeOK'
      BY <1>12, <1>j, <1>x DEF QueueSubmit, XpTypeOK
    <2> QED
      <3>1. gpu' \in Seq(Slot)
        <4>1. gpu \in Seq(Slot) /\ xp.slot \in Slot
          BY <1>12, <1>t, <1>s DEF QueueSubmit, SharedTypeOK
        <4>2. Append(gpu, xp.slot) \in Seq(Slot)
          BY <4>1
        <4> QED
          BY <1>12, <4>1, <4>2 DEF QueueSubmit
      <3> QED
        BY <1>12, <2>1, <2>2, <2>3, <3>1, <1>t DEF QueueSubmit, SharedTypeOK, SlotsType, DestsType
  <1>13. CASE LookOld
    BY <1>13, <1>t, <1>j, <1>s, <1>z, ZenonT(60) DEF LookOld, SharedTypeOK, XpTypeOK, XpType, Then
  <1>14. CASE OldLoad
    BY <1>14, <1>t, <1>j, <1>s, <1>z, ZenonT(60) DEF OldLoad, SharedTypeOK, XpTypeOK, XpType, Then
  <1>15. CASE OldSub
    <2>1. slots' \in SlotsType
      BY <1>15, SlotWrites, <1>t, <1>j, <1>s DEF OldSub
    <2>2. dests' \in DestsType
      BY <1>15, SlotWrites, <1>t, <1>j, <1>s DEF OldSub
    <2>3. XpTypeOK'
      <3>1. (slots[xp.old].refs - 1) % RefModulus \in 0 .. RefModulus - 1
        BY <1>15, <1>t, <1>s, RefTypes DEF OldSub, SharedTypeOK
      <3> QED
        BY <1>15, <3>1, <1>t DEF OldSub, XpTypeOK, XpType, Then
    <2> QED
      BY <1>15, <2>1, <2>2, <2>3, <1>t, <1>j, <1>s DEF OldSub, SharedTypeOK, SlotsType, DestsType
  <1>16. CASE OldCheck
    <2>1. slots' \in SlotsType
      BY <1>16, SlotWrites, <1>t, <1>j, <1>s DEF OldCheck
    <2>2. dests' \in DestsType
      BY <1>16, SlotWrites, <1>t, <1>j, <1>s DEF OldCheck
    <2>3. XpTypeOK'
      BY <1>16, <1>t, <1>j, <1>s, <1>z DEF OldCheck, SharedTypeOK, XpTypeOK, XpType, Then
    <2> QED
      BY <1>16, <2>1, <2>2, <2>3, <1>t, <1>j, <1>s DEF OldCheck, SharedTypeOK, SlotsType, DestsType
  <1>17. CASE OldClear
    BY <1>17, <1>t, <1>j, <1>s, <1>z DEF OldClear, SharedTypeOK, XpTypeOK, XpType, Then
  <1>18. CASE NameTarget
    BY <1>18, <1>t, <1>j, <1>s, <1>z DEF NameTarget, SharedTypeOK, XpTypeOK, XpType, Then
  <1>19. CASE CountRef
    <2>1. slots' \in SlotsType
      BY <1>19, SlotWrites, <1>t, <1>j, <1>s DEF CountRef
    <2>2. dests' \in DestsType
      BY <1>19, SlotWrites, <1>t, <1>j, <1>s DEF CountRef
    <2>3. XpTypeOK'
      BY <1>19, <1>t, <1>j, <1>s, <1>z DEF CountRef, SharedTypeOK, XpTypeOK, XpType, Then
    <2> QED
      BY <1>19, <2>1, <2>2, <2>3, <1>t, <1>j, <1>s DEF CountRef, SharedTypeOK, SlotsType, DestsType
  <1>20. CASE MarkSubmitted
    <2>1. slots' \in SlotsType
      <3>1. xp.frame \in Nat /\ xp.slot \in Slot
        BY <1>20, <1>t, <1>s DEF MarkSubmitted, XpTypeOK, XpType
      <3> DEFINE f == [slots EXCEPT ![xp.slot].state = "SUBMITTED", ![xp.slot].pending = FALSE,
                                    ![xp.slot].frame = xp.frame]
      <3> DEFINE g == [slots EXCEPT ![xp.slot].state = "SUBMITTED"]
                 h == [g EXCEPT ![xp.slot].pending = FALSE]
                 i == [h EXCEPT ![xp.slot].frame = xp.frame]
      <3>2. f = i
        BY Zenon
      <3>3. g \in SlotsType
        BY <3>1, SlotWrites, <1>t
      <3>4. h \in SlotsType
        <4> HIDE DEF g
        <4> QED
          BY <3>1, <3>3 DEF SlotsType
      <3>5. i \in SlotsType
        <4> HIDE DEF h
        <4> QED
          BY <3>1, <3>4 DEF SlotsType
      <3> QED
        BY <1>20, <3>2, <3>5 DEF MarkSubmitted
    <2>2. XpTypeOK'
      BY <1>20, <1>j DEF MarkSubmitted, XpTypeOK
    <2> QED
      BY <1>20, <2>1, <2>2, <1>t DEF MarkSubmitted, SharedTypeOK, SlotsType
  <1>21. CASE StartTake
    BY <1>21, <1>t, <1>j, <1>s, <1>z, ZenonT(60) DEF StartTake, SharedTypeOK, XpTypeOK, XpType, Then
  <1>27. CASE SkipInit
    BY <1>27, <1>t, <1>j, <1>s, <1>z, ZenonT(60) DEF SkipInit, SharedTypeOK, XpTypeOK, XpType
  <1>22. CASE PollReady
    <2>0. <<Head(xp.jobs).dest, xp.i>> \in Slot /\ (xp.i # Slots - 1 => xp.i + 1 \in 0 .. Slots - 1)
      <3>1. xp.i \in 0 .. Slots - 1 /\ Head(xp.jobs).dest \in Dest
        BY <1>22, <1>j, <1>t DEF PollReady, XpTypeOK, XpType
      <3> QED
        BY <3>1, SlotFacts, RingAssumption
    <2>1. slots' \in SlotsType
      BY <1>22, SlotWrites, <1>t, <1>j, <1>s, <2>0 DEF PollReady
    <2>2. dests' \in DestsType
      BY <1>22, SlotWrites, <1>t, <1>j, <1>s, <2>0 DEF PollReady
    <2>3. XpTypeOK'
      BY <1>22, <1>t, <1>j, <1>s, <1>z, <2>0 DEF PollReady, SharedTypeOK, XpTypeOK, XpType, Then
    <2> QED
      BY <1>22, <2>1, <2>2, <2>3, <1>t, <1>j, <1>s DEF PollReady, SharedTypeOK, SlotsType, DestsType
  <1>23. CASE PickOldest
    <2>0. Oldest(Head(xp.jobs).dest) # None => Oldest(Head(xp.jobs).dest) \in Slot
      BY <1>23, <1>j, OldestIs DEF PickOldest, ExportIInv
    <2>1. slots' \in SlotsType
      BY <1>23, SlotWrites, <1>t, <1>j, <1>s, <2>0 DEF PickOldest
    <2>2. dests' \in DestsType
      BY <1>23, SlotWrites, <1>t, <1>j, <1>s, <2>0 DEF PickOldest
    <2>3. XpTypeOK'
      <3>1. \A s \in Slot : [Then("consume") EXCEPT !.slot = s, !.i = 0] \in XpType
        BY <1>z, <1>t DEF Then, XpTypeOK, XpType
      <3> QED
        BY <1>23, <3>1, <2>0, <1>j DEF PickOldest, XpTypeOK
    <2> QED
      BY <1>23, <2>1, <2>2, <2>3, <1>t, <1>j, <1>s DEF PickOldest, SharedTypeOK, SlotsType, DestsType
  <1>24. CASE Consume
    BY <1>24, <1>t, <1>j, <1>s, <1>z DEF Consume, SharedTypeOK, XpTypeOK, XpType, Then
  <1>25. CASE DecideRelease
    <2>1. slots' \in SlotsType
      BY <1>25, SlotWrites, <1>t, <1>j, <1>s DEF DecideRelease
    <2>2. dests' \in DestsType
      BY <1>25, SlotWrites, <1>t, <1>j, <1>s DEF DecideRelease
    <2>3. XpTypeOK'
      BY <1>25, <1>j, <1>x DEF DecideRelease, XpTypeOK
    <2> QED
      BY <1>25, <2>1, <2>2, <2>3, <1>t, <1>j, <1>s DEF DecideRelease, SharedTypeOK, SlotsType, DestsType
  <1>26. CASE StoreInUse
    <2>1. slots' \in SlotsType
      BY <1>26, SlotWrites, <1>t, <1>j, <1>s DEF StoreInUse
    <2>2. dests' \in DestsType
      BY <1>26, SlotWrites, <1>t, <1>j, <1>s DEF StoreInUse
    <2>3. XpTypeOK'
      BY <1>26, <1>t, <1>j, <1>s, <1>z DEF StoreInUse, SharedTypeOK, XpTypeOK, XpType, Then
    <2> QED
      BY <1>26, <2>1, <2>2, <2>3, <1>t, <1>j, <1>s DEF StoreInUse, SharedTypeOK, SlotsType, DestsType
  <1> QED
    BY <1>1, <1>2, <1>3, <1>4, <1>5, <1>6, <1>7, <1>8, <1>9, <1>10, <1>11, <1>12, <1>13, <1>14, <1>15, <1>16, <1>17, <1>18, <1>19, <1>20, <1>21, <1>22, <1>23, <1>24, <1>25, <1>26, <1>27 DEF ExportThreadStep
-----------------------------------------------------------------------------
(* The order of the jobs and the steps of both threads.                    *)

\* The compositor thread keeps what is known of both threads' positions: it
\* alone moves under its lock, and it only ever clears its own target.
LEMMA CompositorOrder ==
    ASSUME ExportIInv, CompositorStep
    PROVE  Locks' /\ JobsOrdered' /\ Steps'
  <1>t. SharedTypeOK /\ Locks /\ JobsOrdered /\ Steps /\ None \notin Slot /\ xp.target \in Target
    BY NoneAssumption DEF ExportIInv, ExportTypeOK, SharedTypeOK, XpTypeOK, XpType
  <1> USE DEF Locked
  <1>1. UNCHANGED <<xp, dests>>
    BY DEF CompositorStep, Wait, Lock, FenceTimeout, LoadRefs, SubRefs, CheckPending,
           FreeSlot, ClearTarget, Render
  <1>2. CASE UNCHANGED retire
    <2>1. JobsOrdered' /\ Steps'
      BY <1>1, <1>2, <1>t DEF JobsOrdered, Steps
    <2>2. Locks'
      <3>1. CASE Lock
        BY <3>1, <1>1, <1>2, <1>t DEF Locks, SharedTypeOK, Lock
      <3>2. CASE FenceTimeout
        BY <3>2, <1>1, <1>2, <1>t DEF Locks, SharedTypeOK, FenceTimeout
      <3>3. CASE Wait \/ Render
        BY <3>3, <1>1, <1>2, <1>t DEF Locks, SharedTypeOK, Wait, Render
      <3>4. CASE LoadRefs \/ SubRefs \/ CheckPending \/ FreeSlot
        BY <3>4, <1>1, <1>2, <1>t DEF Locks, SharedTypeOK, LoadRefs, SubRefs, CheckPending, FreeSlot
      <3>5. CASE ClearTarget
        BY <3>5, <1>1, <1>2, <1>t DEF Locks, SharedTypeOK, ClearTarget
      <3> QED
        BY <3>1, <3>2, <3>3, <3>4, <3>5 DEF CompositorStep
    <2> QED
      BY <2>1, <2>2
  <1>3. CASE ClearTarget
    BY <1>1, <1>3, <1>t DEF ClearTarget, Locks, JobsOrdered, Steps, SharedTypeOK
  <1> QED
    BY <1>2, <1>3 DEF CompositorStep, Wait, Lock, FenceTimeout, LoadRefs, SubRefs,
           CheckPending, FreeSlot, Render

\* When a job is done, the rest of the frame is still in order.
LEMMA NextJobOrder ==
    ASSUME ExportIInv, xp.jobs # <<>>, xp' = NextJob, 
           dests' = dests \/ Head(xp.jobs).kind = "init"
    PROVE  JobsOrdered' /\ Steps' /\ xp'.pc \in {"idle", "next"}
  <1>t. XpTypeOK /\ JobsOrdered /\ None \notin Slot
    BY NoneAssumption DEF ExportIInv
  <1>1. /\ xp'.jobs = Tail(xp.jobs) /\ xp'.slot = None /\ xp'.old = None
        /\ xp'.pc = IF Tail(xp.jobs) = <<>> THEN "idle" ELSE "next"
    BY <1>t, NextJobType
  <1>2. Steps'
    BY <1>1 DEF Steps, Building, Submitting, Claiming, ReleasingOld, Consuming
  <1>3. /\ Head(xp.jobs) = xp.jobs[1] /\ 1 \in DOMAIN xp.jobs
        /\ \A k \in DOMAIN Tail(xp.jobs) :
              k + 1 \in DOMAIN xp.jobs /\ Tail(xp.jobs)[k] = xp.jobs[k + 1]
    BY <1>t, HeadType
  <1>4. JobsOrdered'
    <2>1. CASE \A k \in DOMAIN xp.jobs : xp.jobs[k].kind \in {"init", "plan"}
      BY <2>1, <1>1, <1>3 DEF JobsOrdered
    <2>2. CASE \A k \in DOMAIN xp.jobs :
                  /\ xp.jobs[k].kind \in {"submit", "take"}
                  /\ xp.jobs[k].kind = "submit" => dests[xp.jobs[k].dest].ready
      <3>1. dests' = dests
        BY <2>2, <1>3
      <3>2. \A k \in DOMAIN Tail(xp.jobs) :
               /\ Tail(xp.jobs)[k].kind \in {"submit", "take"}
               /\ Tail(xp.jobs)[k].kind = "submit" => dests[Tail(xp.jobs)[k].dest].ready
        BY <2>2, <1>3
      <3> QED
        BY <3>1, <3>2, <1>1 DEF JobsOrdered
    <2> QED
      BY <2>1, <2>2, <1>t DEF JobsOrdered
  <1> QED
    BY <1>1, <1>2, <1>4

\* Every step of the export thread keeps what is known of the positions.
LEMMA ExportThreadOrder ==
    ASSUME ExportIInv, ExportThreadStep
    PROVE  Locks' /\ JobsOrdered' /\ Steps'
  <1>t. /\ SharedTypeOK /\ XpTypeOK /\ Locks /\ JobsOrdered /\ Steps /\ None \notin Slot
        /\ xp.target \in Target
    BY NoneAssumption DEF ExportIInv, ExportTypeOK, SharedTypeOK, XpTypeOK, XpType
  <1>h. xp.jobs # <<>> => /\ Head(xp.jobs).dest \in Dest
                         /\ Head(xp.jobs) = xp.jobs[1] /\ 1 \in DOMAIN xp.jobs
    BY <1>t, HeadType
  <1> USE DEF Building, Submitting, Claiming, ReleasingOld, Consuming, At, Locked
  <1> HIDE DEF NextJob, Work
  <1>n. ASSUME xp' = NextJob, xp.pc # "idle", xp.pc # "name", UNCHANGED <<retire, ct>>,
               dests' = dests \/ Head(xp.jobs).kind = "init"
        PROVE  Locks' /\ JobsOrdered' /\ Steps'
    <2>1. JobsOrdered' /\ Steps'
      BY <1>n, <1>t, NextJobOrder DEF Steps
    <2> QED
      BY <2>1, <1>n, <1>t DEF Locks
  <1>1. CASE \E who \in SUBSET Dest \ {{}} : TakeEvent(who)
    <2>1. PICK who \in SUBSET Dest \ {{}} : TakeEvent(who)
      BY <1>1
    <2>2. xp' = [xp EXCEPT !.pc = "next", !.need = who, !.frame = xp.frame + 1,
                           !.jobs = FrameJobs(who)]
      BY <2>1 DEF TakeEvent, FrameJobs
    <2>3. /\ xp'.pc = "next" /\ xp'.jobs = FrameJobs(who)
          /\ xp'.slot = xp.slot /\ xp'.old = xp.old /\ xp'.target = xp.target
      BY <2>2, <1>t DEF XpTypeOK, XpType
    <2>4. /\ FrameJobs(who) # <<>>
          /\ \A k \in DOMAIN FrameJobs(who) : FrameJobs(who)[k].kind \in {"init", "plan"}
      BY JobLists DEF ExportIInv
    <2>5. JobsOrdered'
      BY <2>3, <2>4 DEF JobsOrdered
    <2> QED
      BY <2>1, <2>3, <2>4, <2>5, <1>t DEF TakeEvent, Steps, Locks
  <1>2. CASE Plan
    <2> DEFINE ok == {d \in xp.need : inited[d] /\ dests[d].ready}
    <2>1. ok \in SUBSET Dest /\ \A d \in ok : dests[d].ready
      BY <1>t DEF XpTypeOK, XpType
    <2>2. PICK due \in BOOLEAN : xp' = Work(PlanJobs(ok, due))
      BY <1>2 DEF Plan, PlanJobs
    <2> HIDE DEF ok
    <2>3. /\ PlanJobs(ok, due) \in Seq(JobType)
          /\ \A k \in DOMAIN PlanJobs(ok, due) :
                /\ PlanJobs(ok, due)[k].kind \in {"submit", "take"}
                /\ PlanJobs(ok, due)[k].dest \in ok
      BY <2>1, JobLists DEF ExportIInv
    <2>4. /\ xp'.jobs = PlanJobs(ok, due) /\ xp'.slot = None /\ xp'.old = None
          /\ xp'.pc = IF PlanJobs(ok, due) = <<>> THEN "idle" ELSE "next"
      BY <2>2, <2>3, <1>t, WorkType
    <2>5. JobsOrdered'
      BY <1>2, <2>1, <2>3, <2>4 DEF JobsOrdered, Plan
    <2> QED
      BY <1>2, <2>4, <2>5, <1>t DEF Plan, Steps, Locks
  <1>3. CASE Timeout
    <2>1. xp' = Work(TimeoutJobs)
      BY <1>3 DEF Timeout, TimeoutJobs
    <2>2. TimeoutJobs \in Seq(JobType) /\ \A k \in DOMAIN TimeoutJobs : TimeoutJobs[k].kind = "take"
      BY JobLists DEF ExportIInv
    <2>3. /\ xp'.jobs = TimeoutJobs /\ xp'.slot = None /\ xp'.old = None
          /\ xp'.pc = IF TimeoutJobs = <<>> THEN "idle" ELSE "next"
      BY <2>1, <2>2, <1>t, WorkType
    <2>4. JobsOrdered'
      BY <2>2, <2>3 DEF JobsOrdered
    <2> QED
      BY <1>3, <2>3, <2>4, <1>t DEF Timeout, Steps, Locks
  <1>4. CASE StartInit
    BY <1>4, <1>n, <1>t, <1>h DEF StartInit, Then, Locks, JobsOrdered, Steps, SharedTypeOK, XpTypeOK, XpType
  <1>5. CASE WaitIdle
    BY <1>5, <1>n, <1>t, <1>h DEF WaitIdle, Then, Locks, JobsOrdered, Steps, SharedTypeOK, XpTypeOK, XpType
  <1>6. CASE Unname
    BY <1>6, <1>n, <1>t, <1>h DEF Unname, Then, Locks, JobsOrdered, Steps, SharedTypeOK, XpTypeOK, XpType
  <1>7. CASE Destroy
    BY <1>7, <1>n, <1>t, <1>h DEF Destroy, Then, Locks, JobsOrdered, Steps, SharedTypeOK, XpTypeOK, XpType
  <1>8. CASE Create
    <2>1. CASE xp' = NextJob
      BY <1>8, <2>1, <1>n, <1>t DEF Create, Steps
    <2>2. CASE /\ dests' = [dests EXCEPT ![Head(xp.jobs).dest] = NewDest(xp.mode)]
               /\ slots' = FreshRing(Head(xp.jobs).dest)
               /\ xp' = Then("describe")
      BY <1>8, <2>2, <1>t, <1>h DEF Create, Then, Locks, JobsOrdered, Steps, SharedTypeOK, XpTypeOK, XpType
    <2> QED
      BY <1>8, <2>1, <2>2 DEF Create
  <1>9. CASE Describe
    <2>1. CASE xp' = NextJob
      BY <1>9, <2>1, <1>n, <1>t DEF Describe, Steps
    <2>2. CASE xp' = Then("note") /\ UNCHANGED <<slots, dests>>
      BY <1>9, <2>2, <1>t, <1>h DEF Describe, Then, Locks, JobsOrdered, Steps, SharedTypeOK, XpTypeOK, XpType
    <2> QED
      BY <1>9, <2>1, <2>2 DEF Describe
  <1>10. CASE NoteInited
    BY <1>10, <1>n, <1>t, <1>h DEF NoteInited, Then, Locks, JobsOrdered, Steps, SharedTypeOK, XpTypeOK, XpType
  <1>11. CASE AcquireSlot
    <2> DEFINE s == FirstFree(Head(xp.jobs).dest)
    <2>1. CASE s = None
      BY <1>11, <2>1, <1>n, <1>t DEF AcquireSlot, Steps
    <2>2. CASE s # None
      <3>1. /\ dests' = [dests EXCEPT ![Head(xp.jobs).dest].submit = (s[2] + 1) % Slots]
            /\ xp' = [Then("queue") EXCEPT !.slot = s, !.target = ct.last]
            /\ UNCHANGED <<retire, ct>>
        BY <1>11, <2>2 DEF AcquireSlot
      <3>2. s \in Slot /\ s[1] = Head(xp.jobs).dest
        BY <1>11, <2>2, <1>t, <1>h, FirstFreeIs DEF AcquireSlot, Steps, ExportIInv
      <3> HIDE DEF s
      <3>3. /\ xp'.pc = "queue" /\ xp'.jobs = xp.jobs /\ xp'.slot = s
            /\ xp'.old = xp.old /\ xp'.target = ct.last
        BY <3>1, <1>t DEF Then, XpTypeOK, XpType
      <3>4. JobsOrdered'
        <4>1. \A d \in Dest : dests'[d].ready = dests[d].ready
          BY <3>1, <1>t DEF SharedTypeOK
        <4>2. \A k \in DOMAIN xp.jobs : xp.jobs[k].dest \in Dest
          <5>1. xp.jobs \in Seq(JobType)
            BY <1>t DEF XpTypeOK, XpType
          <5>2. \A k \in DOMAIN xp.jobs : xp.jobs[k] \in JobType
            BY <5>1
          <5> QED
            BY <5>2 DEF JobType
        <4> QED
          BY <4>1, <4>2, <3>3, <1>t DEF JobsOrdered
      <3> QED
        BY <1>11, <3>1, <3>2, <3>3, <3>4, <1>t DEF AcquireSlot, Steps, Locks
    <2> QED
      BY <2>1, <2>2
  <1>12. CASE QueueSubmit
    <2>1. CASE xp' = NextJob
      BY <1>12, <2>1, <1>n, <1>t DEF QueueSubmit, Steps
    <2>2. CASE xp' = Then("old")
      BY <1>12, <2>2, <1>t, <1>h DEF QueueSubmit, Then, Locks, JobsOrdered, Steps, SharedTypeOK, XpTypeOK, XpType
    <2> QED
      BY <1>12, <2>1, <2>2 DEF QueueSubmit
  <1>13. CASE LookOld
    BY <1>13, <1>n, <1>t, <1>h DEF LookOld, Then, Locks, JobsOrdered, Steps, SharedTypeOK, XpTypeOK, XpType
  <1>14. CASE OldLoad
    BY <1>14, <1>n, <1>t, <1>h DEF OldLoad, Then, Locks, JobsOrdered, Steps, SharedTypeOK, XpTypeOK, XpType
  <1>15. CASE OldSub
    BY <1>15, <1>n, <1>t, <1>h DEF OldSub, Then, Locks, JobsOrdered, Steps, SharedTypeOK, XpTypeOK, XpType
  <1>16. CASE OldCheck
    BY <1>16, <1>n, <1>t, <1>h DEF OldCheck, Then, Locks, JobsOrdered, Steps, SharedTypeOK, XpTypeOK, XpType
  <1>17. CASE OldClear
    BY <1>17, <1>n, <1>t, <1>h DEF OldClear, Then, Locks, JobsOrdered, Steps, SharedTypeOK, XpTypeOK, XpType
  <1>18. CASE NameTarget
    BY <1>18, <1>n, <1>t, <1>h DEF NameTarget, Then, Locks, JobsOrdered, Steps, SharedTypeOK, XpTypeOK, XpType
  <1>19. CASE CountRef
    BY <1>19, <1>n, <1>t, <1>h DEF CountRef, Then, Locks, JobsOrdered, Steps, SharedTypeOK, XpTypeOK, XpType
  <1>20. CASE MarkSubmitted
    BY <1>20, <1>n, <1>t, <1>h DEF MarkSubmitted, Then, Locks, JobsOrdered, Steps, SharedTypeOK, XpTypeOK, XpType
  <1>21. CASE StartTake
    BY <1>21, <1>n, <1>t, <1>h DEF StartTake, Then, Locks, JobsOrdered, Steps, SharedTypeOK, XpTypeOK, XpType
  <1>27. CASE SkipInit
    BY <1>27, <1>n, <1>t, <1>h DEF SkipInit, Locks, JobsOrdered, Steps, SharedTypeOK, XpTypeOK, XpType
  <1>22. CASE PollReady
    BY <1>22, <1>n, <1>t, <1>h DEF PollReady, Then, Locks, JobsOrdered, Steps, SharedTypeOK, XpTypeOK, XpType
  <1>23. CASE PickOldest
    <2> DEFINE s == Oldest(Head(xp.jobs).dest)
    <2>1. CASE s = None
      BY <1>23, <2>1, <1>n, <1>t DEF PickOldest, Steps
    <2>2. CASE s # None
      <3>1. /\ xp' = [Then("consume") EXCEPT !.slot = s, !.i = 0]
            /\ UNCHANGED <<retire, ct, dests>>
        BY <1>23, <2>2 DEF PickOldest
      <3>2. s \in Slot
        BY <1>23, <2>2, <1>t, <1>h, OldestIs DEF PickOldest, Steps, ExportIInv
      <3> HIDE DEF s
      <3>3. /\ xp'.pc = "consume" /\ xp'.jobs = xp.jobs /\ xp'.slot = s
            /\ xp'.old = xp.old /\ xp'.target = xp.target
        BY <3>1, <1>t DEF Then, XpTypeOK, XpType
      <3> QED
        BY <1>23, <3>1, <3>2, <3>3, <1>t DEF PickOldest, Steps, JobsOrdered, Locks
    <2> QED
      BY <2>1, <2>2
  <1>24. CASE Consume
    BY <1>24, <1>n, <1>t, <1>h DEF Consume, Then, Locks, JobsOrdered, Steps, SharedTypeOK, XpTypeOK, XpType
  <1>25. CASE DecideRelease
    <2>1. CASE xp' = NextJob
      BY <1>25, <2>1, <1>n, <1>t DEF DecideRelease, Steps
    <2>2. CASE xp' = Then("store")
      BY <1>25, <2>2, <1>t, <1>h DEF DecideRelease, Then, Locks, JobsOrdered, Steps, SharedTypeOK, XpTypeOK, XpType
    <2> QED
      BY <1>25, <2>1, <2>2 DEF DecideRelease
  <1>26. CASE StoreInUse
    BY <1>26, <1>n, <1>t, <1>h DEF StoreInUse, Then, Locks, JobsOrdered, Steps, SharedTypeOK, XpTypeOK, XpType
  <1> QED
    BY <1>1, <1>2, <1>3, <1>4, <1>5, <1>6, <1>7, <1>8, <1>9, <1>10, <1>11, <1>12, <1>13, <1>14, <1>15, <1>16, <1>17, <1>18, <1>19, <1>20, <1>21, <1>22, <1>23, <1>24, <1>25, <1>26, <1>27 DEF ExportThreadStep
-----------------------------------------------------------------------------
(* Teardowns, and what they leave behind.                                  *)

\* A ring that is about to be zeroed stays out of use, and what the queue, the
\* targets and the compositor thread refer to stays there: the compositor
\* thread only lets go, or takes what its target names already.
LEMMA CompositorTorn ==
    ASSUME ExportIInv, CompositorStep
    PROVE  Torn' /\ NoDangling'
  <1>t. SharedTypeOK /\ Locks /\ Torn /\ NoDangling /\ None \notin Slot
    BY NoneAssumption DEF ExportIInv, ExportTypeOK, SharedTypeOK
  <1> USE DEF Locked
  <1>1. UNCHANGED <<xp, dests, gpu>>
    BY DEF CompositorStep, Wait, Lock, FenceTimeout, LoadRefs, SubRefs, CheckPending,
           FreeSlot, ClearTarget, Render
  <1>2. CASE Lock
    BY <1>1, <1>2, <1>t DEF Torn, Unused, NoDangling, SharedTypeOK, Lock
  <1>3. CASE ClearTarget
    BY <1>1, <1>3, <1>t DEF Torn, Unused, NoDangling, SharedTypeOK, ClearTarget
  <1>4. CASE FenceTimeout
    BY <1>1, <1>4, <1>t DEF Torn, Unused, NoDangling, SharedTypeOK, FenceTimeout
  <1>5. CASE Wait \/ Render
    BY <1>1, <1>5, <1>t, ZenonT(60) DEF Torn, Unused, NoDangling, SharedTypeOK, Wait, Render
  <1>6. CASE LoadRefs \/ SubRefs \/ CheckPending \/ FreeSlot
    BY <1>1, <1>6, <1>t DEF Torn, Unused, NoDangling, SharedTypeOK, LoadRefs, SubRefs,
       CheckPending, FreeSlot
  <1> QED
    BY <1>2, <1>3, <1>4, <1>5, <1>6 DEF CompositorStep
\* A submit works on a ring that is there.
LEMMA SubmitsToReady ==
    ASSUME ExportIInv, xp.pc \in Submitting
    PROVE  xp.slot \in Slot /\ dests[xp.slot[1]].ready
  <1>1. XpTypeOK /\ JobsOrdered /\ Steps /\ xp.pc # "idle"
    BY DEF ExportIInv, Submitting, Claiming, ReleasingOld
  <1>2. /\ xp.jobs # <<>> /\ Head(xp.jobs).kind = "submit" /\ xp.slot \in Slot
        /\ xp.slot[1] = Head(xp.jobs).dest
    BY <1>1 DEF Steps
  <1>3. Head(xp.jobs) = xp.jobs[1] /\ 1 \in DOMAIN xp.jobs
    BY <1>1, <1>2, HeadType
  <1> QED
    BY <1>1, <1>2, <1>3 DEF JobsOrdered

\* Only a teardown makes a ring unready, and it finds nothing that refers to
\* it: the queue is idle, and Unname has cleared the targets' pointers while
\* the compositor thread had none in its hands.
LEMMA ExportThreadTorn ==
    ASSUME ExportIInv, ExportThreadStep
    PROVE  Torn' /\ NoDangling'
  <1>t. /\ SharedTypeOK /\ XpTypeOK /\ Locks /\ Steps /\ Torn /\ NoDangling /\ None \notin Slot
        /\ xp.target \in Target /\ SharedTypeOK' /\ gpu \in Seq(Slot)
        /\ retire \in [Target -> Slot \cup {None}] /\ ct.slot \in Slot \cup {None}
        /\ dests \in DestsType
    BY NoneAssumption, ExportThreadType
       DEF ExportIInv, ExportTypeOK, SharedTypeOK, XpTypeOK, XpType, DestsType
  <1>h. xp.pc # "idle" => xp.jobs # <<>> /\ Head(xp.jobs).dest \in Dest
    BY ExportThreadFacts
  <1>u. \A s \in Slot : s[1] \in Dest
    BY SlotFacts
  <1> USE DEF Locked
  <1>n. NextJob.pc \notin {"unname", "destroy", "create", "describe"} \/ xp.pc = "idle"
    <2>1. xp.pc # "idle" => NextJob.pc = IF Tail(xp.jobs) = <<>> THEN "idle" ELSE "next"
      BY <1>t, <1>h, NextJobType
    <2> QED
      BY <2>1
  <1>k. ASSUME UNCHANGED <<retire, ct, gpu>>, \A d \in Dest : dests'[d].ready = dests[d].ready,
               xp'.pc \notin {"unname", "destroy", "create", "describe"}
        PROVE  Torn' /\ NoDangling'
    <2>1. NoDangling'
      BY <1>k, <1>t, <1>u DEF NoDangling, Locks
    <2> QED
      BY <2>1, <1>k DEF Torn
  <1>p. \A q : [xp EXCEPT !.pc = q].pc = q /\ Then(q).pc = q /\ Then(q).jobs = xp.jobs
    BY <1>t DEF XpTypeOK, XpType, Then
  <1> HIDE DEF NextJob, Work, Then
  <1>1. CASE \E who \in SUBSET Dest \ {{}} : TakeEvent(who)
    <2>1. PICK who \in SUBSET Dest \ {{}} : TakeEvent(who)
      BY <1>1
    <2>2. xp'.pc = "next"
      BY <2>1, <1>t DEF TakeEvent, XpTypeOK, XpType
    <2> QED
      BY <2>1, <2>2, <1>k DEF TakeEvent
  <1>2. CASE Plan \/ Timeout
    <2>1. \A jobs \in Seq(JobType) : Work(jobs).pc \in {"idle", "next"}
      BY <1>t, WorkType
    <2>2. CASE Plan
      <3> DEFINE ok == {d \in xp.need : inited[d] /\ dests[d].ready}
      <3>1. ok \in SUBSET Dest
        BY <1>t DEF XpTypeOK, XpType
      <3>2. PICK due \in BOOLEAN : xp' = Work(PlanJobs(ok, due))
        BY <2>2 DEF Plan, PlanJobs
      <3> HIDE DEF ok
      <3>3. PlanJobs(ok, due) \in Seq(JobType)
        BY <3>1, JobLists DEF ExportIInv
      <3> QED
        BY <2>1, <2>2, <3>2, <3>3, <1>k DEF Plan
    <2>3. CASE Timeout
      <3>1. xp' = Work(TimeoutJobs)
        BY <2>3 DEF Timeout, TimeoutJobs
      <3>2. TimeoutJobs \in Seq(JobType)
        BY JobLists DEF ExportIInv
      <3> QED
        BY <2>1, <2>3, <3>1, <3>2, <1>k DEF Timeout
    <2> QED
      BY <1>2, <2>2, <2>3
  <1>3. CASE StartInit
    <2>1. /\ xp'.pc \in {"create", "note", "waitIdle"} /\ xp'.jobs = xp.jobs
          /\ xp'.pc = "create" => ~dests[Head(xp.jobs).dest].ready
      BY <1>3, <1>t DEF StartInit, XpTypeOK, XpType
    <2> QED
      BY <1>3, <2>1, <1>t, <1>k, <1>u DEF StartInit, Torn, NoDangling
  <1>4. CASE WaitIdle
    BY <1>4, <1>t, <1>p, <1>u DEF WaitIdle, Torn, NoDangling
  <1>5. CASE Unname
    <2> PICK d \in Dest : d = Head(xp.jobs).dest
      BY <1>5, <1>h DEF Unname
    <2>1. /\ retire' = [t \in Target |-> IF retire[t] # None /\ retire[t][1] = d
                                         THEN None ELSE retire[t]]
          /\ xp'.pc = "destroy" /\ xp'.jobs = xp.jobs
          /\ UNCHANGED <<dests, gpu, ct>> /\ gpu = <<>> /\ ct.slot = None
      BY <1>5, <1>p, <1>t DEF Unname, Torn, Locks
    <2>2. Unused(d)'
      BY <2>1 DEF Unused
    <2>3. NoDangling'
      BY <2>1, <1>t DEF NoDangling, Locks
    <2> QED
      BY <2>1, <2>2, <2>3 DEF Torn, Unused
  <1>6. CASE Destroy
    <2> DEFINE d == Head(xp.jobs).dest
    <2>1. /\ d \in Dest /\ Unused(d) /\ dests' = [dests EXCEPT ![d] = NoDest]
          /\ xp'.pc = "create" /\ xp'.jobs = xp.jobs /\ UNCHANGED <<retire, gpu, ct>>
      BY <1>6, <1>p, <1>t, <1>h DEF Destroy, Destroyed, Torn
    <2> HIDE DEF d
    <2>2. ~dests'[d].ready /\ \A e \in Dest \ {d} : dests'[e] = dests[e]
      BY <2>1, <1>t DEF DestsType, NoDest
    <2>3. NoDangling'
      BY <2>1, <2>2, <1>t, <1>u DEF NoDangling, Unused, Locks
    <2> QED
      BY <2>1, <2>2, <2>3 DEF Torn, d
  <1>7. CASE Create
    <2> DEFINE d == Head(xp.jobs).dest
    <2>1. CASE xp' = NextJob /\ UNCHANGED dests
      BY <1>7, <2>1, <1>n, <1>k DEF Create
    <2>2. CASE dests' = [dests EXCEPT ![d] = NewDest(xp.mode)] /\ xp' = Then("describe")
      <3>1. /\ d \in Dest /\ ~dests[d].ready
            /\ xp'.pc = "describe" /\ xp'.jobs = xp.jobs /\ UNCHANGED <<retire, gpu, ct>>
        BY <1>7, <2>2, <1>p, <1>t, <1>h DEF Create, Torn
      <3> HIDE DEF d
      <3>2. dests'[d].ready /\ \A e \in Dest \ {d} : dests'[e] = dests[e]
        BY <2>2, <3>1, <1>t DEF DestsType, NewDest
      <3>3. Unused(d)
        BY <3>1, <1>t DEF NoDangling, Unused, Locks
      <3>4. NoDangling'
        BY <3>1, <3>2, <1>t, <1>u DEF NoDangling, Locks
      <3> QED
        BY <3>1, <3>3, <3>4 DEF Torn, Unused, d
    <2> QED
      BY <1>7, <2>1, <2>2 DEF Create
  <1>8. CASE Describe
    <2> DEFINE d == Head(xp.jobs).dest
    <2>1. CASE xp' = Then("note") /\ UNCHANGED dests
      BY <1>8, <2>1, <1>p, <1>k DEF Describe
    <2>2. CASE xp' = NextJob /\ Destroyed(d)
      <3>1. /\ d \in Dest /\ Unused(d) /\ dests' = [dests EXCEPT ![d] = NoDest]
            /\ UNCHANGED <<retire, gpu, ct>>
        BY <1>8, <2>2, <1>t, <1>h DEF Describe, Destroyed, Torn
      <3> HIDE DEF d
      <3>2. ~dests'[d].ready /\ \A e \in Dest \ {d} : dests'[e] = dests[e]
        BY <3>1, <1>t DEF DestsType, NoDest
      <3>3. NoDangling'
        BY <3>1, <3>2, <1>t, <1>u DEF NoDangling, Unused, Locks
      <3>4. xp'.pc \notin {"unname", "destroy", "create", "describe"}
        BY <1>8, <2>2, <1>n DEF Describe
      <3> QED
        BY <3>3, <3>4 DEF Torn
    <2> QED
      BY <1>8, <2>1, <2>2 DEF Describe
  <1>9. CASE NoteInited \/ CountRef \/ MarkSubmitted \/ StoreInUse \/ DecideRelease
    BY <1>9, <1>n, <1>p, <1>k DEF NoteInited, CountRef, MarkSubmitted, StoreInUse, DecideRelease
  <1>10. CASE SkipInit \/ StartTake \/ OldCheck
    BY <1>10, <1>n, <1>p, <1>k DEF SkipInit, StartTake, OldCheck, At
  <1>11. CASE LookOld
    <2>1. xp'.pc \in {"name", "oldLoad"}
      BY <1>11, <1>t DEF LookOld, Then, XpTypeOK, XpType
    <2> QED
      BY <1>11, <2>1, <1>k DEF LookOld
  <1>12. CASE OldLoad
    <2>1. xp'.pc \in {"oldSub", "oldCheck"}
      BY <1>12, <1>t DEF OldLoad, Then, XpTypeOK, XpType
    <2> QED
      BY <1>12, <2>1, <1>k DEF OldLoad
  <1>13. CASE OldSub
    <2>1. xp'.pc = "oldCheck"
      BY <1>13, <1>t DEF OldSub, Then, XpTypeOK, XpType
    <2> QED
      BY <1>13, <2>1, <1>k DEF OldSub
  <1>14. CASE OldClear
    <2>1. xp'.pc = "name"
      BY <1>14, <1>t DEF OldClear, Then, XpTypeOK, XpType
    <2>2. NoDangling'
      BY <1>14, <1>t, <1>u DEF OldClear, NoDangling, Locks
    <2> QED
      BY <2>1, <2>2 DEF Torn
  <1>15. CASE NameTarget
    <2>1. xp.slot \in Slot /\ dests[xp.slot[1]].ready
      BY <1>15, SubmitsToReady DEF NameTarget, Submitting, Claiming
    <2>2. NoDangling'
      BY <1>15, <2>1, <1>t, <1>u DEF NameTarget, NoDangling, Locks
    <2>3. xp'.pc = "count"
      BY <1>15, <1>p DEF NameTarget
    <2> QED
      BY <2>2, <2>3 DEF Torn
  <1>16. CASE QueueSubmit
    <2>1. CASE UNCHANGED gpu
      BY <1>16, <2>1, <1>n, <1>p, <1>k DEF QueueSubmit
    <2>2. CASE gpu' = Append(gpu, xp.slot) /\ xp' = Then("old")
      <3>1. xp.slot \in Slot /\ dests[xp.slot[1]].ready
        BY <1>16, SubmitsToReady DEF QueueSubmit, Submitting, Claiming
      <3>2. \A k \in DOMAIN gpu' : gpu'[k] = xp.slot \/ (k \in DOMAIN gpu /\ gpu'[k] = gpu[k])
        BY <2>2, <1>t
      <3>3. NoDangling'
        BY <1>16, <3>1, <3>2, <1>t, <1>u DEF QueueSubmit, NoDangling, Locks
      <3>4. xp'.pc = "old"
        BY <2>2, <1>p
      <3> QED
        BY <3>3, <3>4 DEF Torn
    <2> QED
      BY <1>16, <2>1, <2>2 DEF QueueSubmit
  <1>17. CASE AcquireSlot
    <2>1. \A d \in Dest : dests'[d].ready = dests[d].ready
      BY <1>17, <1>t, <1>h DEF AcquireSlot, DestsType
    <2>2. xp'.pc \notin {"unname", "destroy", "create", "describe"}
      <3>1. \A s, t : [Then("queue") EXCEPT !.slot = s, !.target = t].pc = "queue"
        BY <1>t DEF Then, XpTypeOK, XpType
      <3> QED
        <4> DEFINE s == FirstFree(Head(xp.jobs).dest)
        <4>1. CASE s = None
          BY <1>17, <4>1, <1>n DEF AcquireSlot, At
        <4>2. CASE s # None
          <5>1. xp' = [Then("queue") EXCEPT !.slot = s, !.target = ct.last]
            BY <1>17, <4>2 DEF AcquireSlot
          <5> HIDE DEF s
          <5> QED
            BY <3>1, <5>1
        <4> QED
          BY <4>1, <4>2
    <2> QED
      BY <1>17, <2>1, <2>2, <1>k DEF AcquireSlot
  <1>18. CASE PollReady
    <2>1. xp'.pc \in {"pick", "poll"}
      BY <1>18, <1>t DEF PollReady, Then, XpTypeOK, XpType
    <2> QED
      BY <1>18, <2>1, <1>k DEF PollReady
  <1>19. CASE PickOldest
    <2>1. \A s : [Then("consume") EXCEPT !.slot = s, !.i = 0].pc = "consume"
      BY <1>t DEF Then, XpTypeOK, XpType
    <2> QED
      BY <1>19, <2>1, <1>n, <1>k DEF PickOldest
  <1>20. CASE Consume
    <2>1. xp'.pc = "decide"
      BY <1>20, <1>t DEF Consume, Then, XpTypeOK, XpType
    <2> QED
      BY <1>20, <2>1, <1>k DEF Consume
  <1> QED
    BY <1>1, <1>2, <1>3, <1>4, <1>5, <1>6, <1>7, <1>8, <1>9, <1>10, <1>11, <1>12, <1>13,
       <1>14, <1>15, <1>16, <1>17, <1>18, <1>19, <1>20 DEF ExportThreadStep
-----------------------------------------------------------------------------
(* Good slots: the export thread.                                          *)

\* What the leaves of the next lemmas need of the invariant.
LEMMA GoodFacts ==
    ASSUME ExportIInv, NEW s \in Sound
    PROVE  /\ Good(s) /\ s \in Slot /\ Locks /\ Steps /\ None \notin Slot /\ xp \in XpType
           /\ slots \in [Slot -> [state : {"FREE", "SUBMITTED", "READY", "IN_USE"},
                              refs : 0 .. RefModulus - 1, pending : BOOLEAN, frame : Nat,
                         reset : BOOLEAN]]
           /\ retire \in [Target -> Slot \cup {None}] /\ gpu \in Seq(Slot)
           /\ ct.cur \in Target /\ ct.slot \in Slot \cup {None} /\ xp.target \in Target
           /\ ct.last \in Target
           /\ xp.pc \in ReleasingOld => xp.old \in Slot
           /\ xp.pc \in Submitting \cup Consuming => xp.slot \in Slot
  <1>1. SharedTypeOK /\ xp \in XpType
    BY DEF ExportIInv, ExportTypeOK, SharedTypeOK, XpTypeOK
  <1>2. Good(s) /\ s \in Slot /\ Locks /\ Steps
    BY DEF ExportIInv, Sound
  <1> QED
    BY <1>1, <1>2, NoneAssumption, ExportThreadFacts DEF SharedTypeOK, XpType

\* A step between two positions at which the export thread has no slot in its
\* hands, and that touches nothing of slot s, keeps it good.
LEMMA IdleGood ==
    ASSUME ExportIInv, NEW s \in Sound,
           UNCHANGED <<retire, gpu, ct>>, slots'[s] = slots[s],
           xp.slot = None, xp'.slot = None, xp.old = None, xp'.old = None,
           xp.pc \notin {"oldCheck", "oldClear", "count"},
           xp'.pc \notin {"oldCheck", "oldClear", "count"}
    PROVE  Good(s)'
  <1>1. Good(s) /\ None # s
    BY GoodFacts
  <1>2. \A t \in Target : (Waits(s, t)' <=> Waits(s, t)) /\ (Counts(s, t)' <=> Counts(s, t))
    BY DEF Waits, Counts, Uncounted
  <1>3. InFlight(s)' <=> InFlight(s)
    BY DEF InFlight
  <1> QED
    BY <1>1, <1>2, <1>3 DEF Good

\* The steps of a submit keep a slot good: the slot claimed for it, the old
\* slot of its target, and every other one.
LEMMA SubmitGood ==
    ASSUME ExportIInv, NEW s \in Sound, ~Overlap(s), ~Overlap(s)',
           QueueSubmit \/ LookOld \/ OldLoad \/ OldSub \/ OldCheck \/ OldClear
           \/ NameTarget \/ CountRef \/ MarkSubmitted
    PROVE  Good(s)'
  <1>g. /\ Good(s) /\ s \in Slot /\ Locks /\ Steps /\ None \notin Slot /\ xp \in XpType
        /\ slots \in [Slot -> [state : {"FREE", "SUBMITTED", "READY", "IN_USE"},
                           refs : 0 .. RefModulus - 1, pending : BOOLEAN, frame : Nat,
                         reset : BOOLEAN]]
        /\ retire \in [Target -> Slot \cup {None}] /\ gpu \in Seq(Slot)
        /\ ct.cur \in Target /\ ct.slot \in Slot \cup {None} /\ xp.target \in Target
        /\ xp.pc \in ReleasingOld => xp.old \in Slot
        /\ xp.pc \in Submitting \cup Consuming => xp.slot \in Slot
    BY GoodFacts
  <1>n. xp.pc # "idle" => /\ NextJob.slot = None /\ NextJob.old = None
                          /\ NextJob.pc \in {"idle", "next"}
    BY <1>g, NextJobType DEF Steps, XpTypeOK
  <1>p. \A q : /\ Then(q).pc = q /\ Then(q).slot = xp.slot /\ Then(q).old = xp.old
               /\ Then(q).target = xp.target /\ Then(q).r = xp.r
    BY <1>g DEF Then, XpType
  <1> USE DEF Submitting, Claiming, ReleasingOld, Consuming
  <1>1. CASE QueueSubmit
    <2>1. CASE /\ gpu' = Append(gpu, xp.slot) /\ xp' = Then("old")
               /\ slots' = [slots EXCEPT ![xp.slot].reset = FALSE]
      <3>4. /\ slots'[s].state = slots[s].state /\ slots'[s].refs = slots[s].refs
            /\ slots'[s].pending = slots[s].pending
        BY <2>1, <1>g
      <3>1. InFlight(s)' => InFlight(s) \/ s = xp.slot
        <4>1. \A k \in DOMAIN gpu' : gpu'[k] = xp.slot \/ (k \in DOMAIN gpu /\ gpu'[k] = gpu[k])
          BY <2>1, <1>g
        <4> QED
          BY <4>1 DEF InFlight
      <3>2. \A t \in Target : (Waits(s, t)' <=> Waits(s, t)) /\ (Counts(s, t)' <=> Counts(s, t))
        BY <1>1, <2>1, <1>p DEF QueueSubmit, Waits, Counts, Uncounted
      <3> QED
        BY <1>1, <2>1, <3>1, <3>2, <3>4, <1>g, <1>p DEF QueueSubmit, Good, Steps
    <2>2. CASE /\ slots' = [slots EXCEPT ![xp.slot].state = "FREE", ![xp.slot].reset = TRUE]
               /\ xp' = NextJob /\ UNCHANGED gpu
      <3>1. /\ xp.pc = "queue" /\ xp.old = None /\ xp'.slot = None /\ xp'.old = None
            /\ xp'.pc \in {"idle", "next"} /\ xp.slot \in Slot /\ UNCHANGED <<retire, ct>>
        BY <1>1, <2>2, <1>n, <1>g DEF QueueSubmit, Steps
      <3>2. \A t \in Target : (Waits(s, t)' <=> Waits(s, t)) /\ (Counts(s, t)' <=> Counts(s, t))
        BY <3>1 DEF Waits, Counts, Uncounted
      <3>3. InFlight(s)' <=> InFlight(s)
        BY <2>2 DEF InFlight
      <3>4. CASE s = xp.slot
        <4>1. /\ slots'[s].state = "FREE" /\ slots'[s].refs = slots[s].refs
              /\ slots'[s].pending = slots[s].pending
          BY <2>2, <3>4, <1>g
        <4> QED
          BY <4>1, <3>1, <3>2, <3>3, <3>4, <1>g DEF Good
      <3>5. CASE s # xp.slot
        <4>1. slots'[s] = slots[s]
          BY <2>2, <3>1, <3>5, <1>g
        <4> QED
          BY <4>1, <3>1, <3>2, <3>3, <3>5, <1>g DEF Good
      <3> QED
        BY <3>4, <3>5
    <2> QED
      BY <1>1, <2>1, <2>2 DEF QueueSubmit
  <1>2. CASE LookOld
    <2>1. /\ xp'.slot = xp.slot /\ xp'.target = xp.target
          /\ \/ xp'.pc = "name" /\ xp'.old = xp.old /\ retire[xp.target] \in {None, xp.slot}
             \/ xp'.pc = "oldLoad" /\ xp'.old = retire[xp.target]
                /\ retire[xp.target] \notin {None, xp.slot}
      BY <1>2, <1>g DEF LookOld, Then, XpType
    <2> QED
      BY <1>2, <2>1, <1>g, SMTT(60) DEF LookOld, Good, Waits, Counts, Uncounted, InFlight, Steps, Overlap, Retiring, Touching
  <1>3. CASE OldLoad
    <2>1. /\ xp'.slot = xp.slot /\ xp'.target = xp.target /\ xp'.old = xp.old
          /\ xp'.r = slots[xp.old].refs
          /\ xp'.pc = IF slots[xp.old].refs > 0 THEN "oldSub" ELSE "oldCheck"
      BY <1>3, <1>g DEF OldLoad, Then, XpType
    <2> QED
      <3>1. /\ xp.pc = "oldLoad" /\ xp.old \in Slot /\ xp.slot \in Slot /\ xp.old # xp.slot
            /\ retire[xp.target] \in {xp.old, None}
            /\ slots' = slots /\ UNCHANGED <<retire, gpu, ct>>
        BY <1>3, <1>g DEF OldLoad, Steps
      <3>2. \A t \in Target : Waits(s, t)' <=> Waits(s, t)
        BY <2>1, <3>1 DEF Waits
      <3>3. slots[xp.old].refs \in Nat
        BY <3>1, <1>g, RingAssumption
      <3>4. xp'.pc = "oldCheck" => slots[xp.old].refs = 0 /\ xp'.r = 0
        BY <2>1, <3>3
      <3>5. (\E t \in Target : Counts(s, t)') <=> (\E t \in Target : Counts(s, t))
        <4>1. CASE s = xp.old
          BY <2>1, <3>1, <3>4, <4>1, <1>g DEF Good, Counts, Uncounted
        <4>2. CASE s # xp.old
          BY <2>1, <3>1, <4>2, <1>g DEF Counts, Uncounted
        <4> QED
          BY <4>1, <4>2
      <3>6. InFlight(s)' <=> InFlight(s)
        BY <3>1 DEF InFlight
      <3> QED
        BY <2>1, <3>1, <3>2, <3>4, <3>5, <3>6, <1>g DEF Good
  <1>4. CASE OldSub
    <2>1. /\ xp'.slot = xp.slot /\ xp'.target = xp.target /\ xp'.old = xp.old
          /\ xp'.r = (slots[xp.old].refs - 1) % RefModulus /\ xp'.pc = "oldCheck"
      BY <1>4, <1>g DEF OldSub, Then, XpType
    <2> QED
      <3>1. /\ xp.pc = "oldSub" /\ xp.old \in Slot /\ xp.slot \in Slot /\ xp.old # xp.slot
            /\ retire[xp.target] \in {xp.old, None} /\ UNCHANGED <<retire, gpu, ct>>
            /\ slots' = [slots EXCEPT ![xp.old].refs = (slots[xp.old].refs - 1) % RefModulus]
        BY <1>4, <1>g DEF OldSub, Steps
      <3>2. \A t \in Target : Waits(s, t)' <=> Waits(s, t)
        BY <2>1, <3>1 DEF Waits
      <3>3. InFlight(s)' <=> InFlight(s)
        BY <3>1 DEF InFlight
      <3>4. CASE s # xp.old
        <4>1. slots'[s] = slots[s]
          BY <3>1, <3>4, <1>g
        <4>2. \A t \in Target : Counts(s, t)' <=> Counts(s, t)
          BY <2>1, <3>1, <3>4, <1>g DEF Counts, Uncounted
        <4> QED
          BY <2>1, <3>1, <3>2, <3>3, <3>4, <4>1, <4>2, <1>g DEF Good
      <3>5. CASE s = xp.old
        <4>1. retire[xp.target] = s /\ ~Retiring(s)
          BY <3>1, <3>5, <1>g DEF Good, Overlap, Touching
        <4>2. Counts(s, xp.target)
          BY <3>1, <4>1, <1>g DEF Counts, Uncounted, Retiring, Locks, Locked
        <4>3. slots[s].refs = 1
          BY <4>2, <1>g DEF Good
        <4>4. /\ slots'[s].refs = 0 /\ xp'.r = 0
              /\ slots'[s].state = slots[s].state /\ slots'[s].pending = slots[s].pending
          BY <2>1, <3>1, <3>5, <4>3, <1>g, SlotFacts
        <4>5. \A t \in Target : ~Counts(s, t)'
          BY <2>1, <3>1, <4>1, <1>g DEF Good, Counts, Uncounted
        <4> QED
          BY <2>1, <3>1, <3>2, <3>3, <3>5, <4>1, <4>4, <4>5, <1>g DEF Good
      <3> QED
        BY <3>4, <3>5
  <1>5. CASE OldCheck
    BY <1>5, <1>g, <1>n, <1>p DEF OldCheck, Good, Waits, Counts, Uncounted, InFlight, Steps, Overlap, Retiring, Touching
  <1>6. CASE OldClear
    <2>1. /\ xp'.slot = xp.slot /\ xp'.target = xp.target /\ xp'.old = None /\ xp'.pc = "name"
      BY <1>6, <1>g DEF OldClear, Then, XpType
    <2> QED
      BY <1>6, <2>1, <1>g DEF OldClear, Good, Waits, Counts, Uncounted, InFlight, Steps, Overlap, Retiring, Touching
  <1>7. CASE NameTarget
    <2>1. /\ xp.pc = "name" /\ ~Locked /\ retire' = [retire EXCEPT ![xp.target] = xp.slot]
          /\ xp'.pc = "count" /\ xp'.slot = xp.slot /\ xp'.old = xp.old /\ xp'.target = xp.target
          /\ UNCHANGED <<slots, gpu, ct>>
      BY <1>7, <1>p DEF NameTarget
    <2>2. /\ ct.slot = None /\ xp.old = None /\ xp.slot \in Slot
          /\ retire[xp.target] \in {xp.slot, None}
      BY <2>1, <1>g DEF Locks, Steps
    <2>3. InFlight(s)' <=> InFlight(s)
      BY <2>1 DEF InFlight
    <2>4. Uncounted = {} /\ Uncounted' = {xp.target}
      BY <2>1 DEF Uncounted, Locked
    <2>5. \A t \in Target : Waits(s, t) <=> retire[t] = s
      BY <2>1 DEF Waits, Locked
    <2>6. \A t \in Target : Waits(s, t)' <=> retire'[t] = s
      BY <2>1 DEF Waits, Locked
    <2>7. CASE s # xp.slot
      <3>1. \A t \in Target : retire'[t] = s <=> retire[t] = s
        BY <2>1, <2>2, <2>7, <1>g
      <3>2. \A t \in Target : Counts(s, t)' <=> Counts(s, t)
        BY <2>1, <2>2, <2>4, <2>7, <3>1, <1>g DEF Counts
      <3> QED
        BY <2>1, <2>2, <2>3, <2>5, <2>6, <2>7, <3>1, <3>2, <1>g DEF Good
    <2>8. CASE s = xp.slot
      <3>1. \A t \in Target : retire[t] # s
        BY <2>1, <2>5, <2>8, <1>g DEF Good
      <3>2. \A t \in Target : retire'[t] = s <=> t = xp.target
        BY <2>1, <2>8, <3>1, <1>g
      <3>3. \A t \in Target : ~Counts(s, t) /\ ~Counts(s, t)'
        BY <2>4, <3>1, <3>2 DEF Counts
      <3> QED
        BY <2>1, <2>2, <2>3, <2>6, <2>8, <3>2, <3>3, <1>g DEF Good
    <2> QED
      BY <2>7, <2>8
  <1>8. CASE CountRef
    <2>1. /\ xp.pc = "count" /\ slots' = [slots EXCEPT ![xp.slot].refs = (@ + 1) % RefModulus]
          /\ xp'.pc = "mark" /\ xp'.slot = xp.slot /\ xp'.old = xp.old /\ xp'.target = xp.target
          /\ UNCHANGED <<retire, gpu, ct>>
      BY <1>8, <1>p DEF CountRef
    <2>2. xp.old = None /\ xp.slot \in Slot /\ retire[xp.target] \in {xp.slot, None}
      BY <2>1, <1>g DEF Steps
    <2>3. InFlight(s)' <=> InFlight(s)
      BY <2>1 DEF InFlight
    <2>4. \A t \in Target : Waits(s, t)' <=> Waits(s, t)
      BY <2>1 DEF Waits
    <2>5. CASE s # xp.slot
      <3>1. slots'[s] = slots[s]
        BY <2>1, <2>5, <1>g
      <3>2. \A t \in Target : Counts(s, t)' <=> Counts(s, t)
        BY <2>1, <2>2, <2>5, <1>g DEF Counts, Uncounted
      <3> QED
        BY <2>1, <2>2, <2>3, <2>4, <2>5, <3>1, <3>2, <1>g DEF Good
    <2>6. CASE s = xp.slot
      <3>1. retire[xp.target] = s /\ ~Retiring(s)
        BY <2>1, <2>6, <1>g DEF Good, Overlap, Touching
      <3>2. \A t \in Target : ~Counts(s, t)
        BY <2>1, <3>1, <1>g DEF Good, Counts, Uncounted
      <3>3. Counts(s, xp.target)'
        BY <2>1, <3>1, <1>g DEF Counts, Uncounted, Retiring, Locks, Locked
      <3>4. slots[s].refs = 0
        BY <3>2, <1>g DEF Good
      <3>5. /\ slots'[s].refs = 1
            /\ slots'[s].state = slots[s].state /\ slots'[s].pending = slots[s].pending
        BY <2>1, <2>6, <3>4, <1>g, SlotFacts
      <3>6. \E t \in Target : Counts(s, t)'
        BY <3>3, <1>g, <2>1
      <3> QED
        BY <2>1, <2>2, <2>3, <2>4, <2>6, <3>1, <3>5, <3>6, <1>g DEF Good
    <2> QED
      BY <2>5, <2>6
  <1>9. CASE MarkSubmitted
    BY <1>9, <1>g, <1>n, <1>p DEF MarkSubmitted, Good, Waits, Counts, Uncounted, InFlight, Steps, Overlap, Retiring, Touching
  <1> QED
    BY <1>1, <1>2, <1>3, <1>4, <1>5, <1>6, <1>7, <1>8, <1>9
\* A submit claims a FREE slot, which no target waits for: the compositor
\* thread can at most be about to clear the pointer that still names it.
LEMMA AcquireGood ==
    ASSUME ExportIInv, NEW s \in Sound, AcquireSlot
    PROVE  Good(s)'
  <1>g. /\ Good(s) /\ s \in Slot /\ Locks /\ Steps /\ None \notin Slot /\ xp \in XpType
        /\ slots \in [Slot -> [state : {"FREE", "SUBMITTED", "READY", "IN_USE"},
                           refs : 0 .. RefModulus - 1, pending : BOOLEAN, frame : Nat,
                         reset : BOOLEAN]]
        /\ ct.cur \in Target /\ ct.slot \in Slot \cup {None}
    BY GoodFacts
  <1> DEFINE f == FirstFree(Head(xp.jobs).dest)
  <1>1. /\ xp.pc = "next" /\ xp.slot = None /\ xp.old = None /\ Head(xp.jobs).dest \in Dest
        /\ UNCHANGED <<retire, gpu, ct>>
    BY <1>g, ExportThreadFacts
       DEF AcquireSlot, At, Steps, Submitting, Claiming, ReleasingOld, Consuming
  <1>2. CASE f = None
    <2>1. xp' = NextJob /\ slots' = slots
      BY <1>2 DEF AcquireSlot
    <2>2. xp'.slot = None /\ xp'.old = None /\ xp'.pc \in {"idle", "next"}
      BY <2>1, <1>1, <1>g, NextJobType DEF Steps, XpTypeOK
    <2> QED
      BY <2>1, <2>2, <1>1, IdleGood
  <1>3. CASE f # None
    <2>1. f \in Slot /\ slots[f].state = "FREE"
      BY <1>1, <1>3, FirstFreeIs DEF ExportIInv
    <2>2. /\ slots' = [slots EXCEPT ![f].state = "IN_USE"]
          /\ xp' = [Then("queue") EXCEPT !.slot = f, !.target = ct.last]
      BY <1>3 DEF AcquireSlot
    <2> HIDE DEF f
    <2>3. xp'.pc = "queue" /\ xp'.slot = f /\ xp'.old = None
      BY <2>2, <1>1, <1>g DEF Then, XpType
    <2>4. \A t \in Target : (Waits(s, t)' <=> Waits(s, t)) /\ (Counts(s, t)' <=> Counts(s, t))
      BY <1>1, <2>3 DEF Waits, Counts, Uncounted
    <2>5. InFlight(s)' <=> InFlight(s)
      BY <1>1 DEF InFlight
    <2>6. CASE s = f
      <3>1. /\ slots'[s].state = "IN_USE" /\ slots'[s].refs = slots[s].refs
            /\ slots'[s].pending = slots[s].pending
        BY <2>1, <2>2, <2>6, <1>g
      <3>2. ct.slot = s => ct.pc = "clear"
        BY <2>1, <2>6, <1>1, <1>g DEF Good, Waits, Locks
      <3> QED
        BY <2>1, <2>3, <2>4, <2>5, <2>6, <3>1, <3>2, <1>1, <1>g
           DEF Good, Claiming, ReleasingOld, Consuming
    <2>7. CASE s # f
      <3>1. slots'[s] = slots[s]
        BY <2>1, <2>2, <2>7, <1>g
      <3> QED
        BY <2>3, <2>4, <2>5, <2>7, <3>1, <1>1, <1>g DEF Good
    <2> QED
      BY <2>6, <2>7
  <1> QED
    BY <1>2, <1>3

\* The steps of a consumer keep a slot good: one it is done with is FREE when
\* no target counts on it, and left to the target that does otherwise.
LEMMA TakeGood ==
    ASSUME ExportIInv, NEW s \in Sound, ~Overlap(s), ~Overlap(s)',
           PollReady \/ PickOldest \/ Consume \/ DecideRelease \/ StoreInUse
    PROVE  Good(s)'
  <1>g. /\ Good(s) /\ s \in Slot /\ Locks /\ Steps /\ None \notin Slot /\ xp \in XpType
        /\ slots \in [Slot -> [state : {"FREE", "SUBMITTED", "READY", "IN_USE"},
                           refs : 0 .. RefModulus - 1, pending : BOOLEAN, frame : Nat,
                         reset : BOOLEAN]]
        /\ ct.cur \in Target /\ ct.slot \in Slot \cup {None}
    BY GoodFacts
  <1>h. xp.pc # "idle" => Head(xp.jobs).dest \in Dest
    BY ExportThreadFacts
  <1>n. xp.pc # "idle" => /\ NextJob.slot = None /\ NextJob.old = None
                          /\ NextJob.pc \in {"idle", "next"}
    BY <1>g, NextJobType DEF Steps, XpTypeOK
  <1>p. \A q : Then(q).pc = q /\ Then(q).slot = xp.slot /\ Then(q).old = xp.old /\ Then(q).r = xp.r
    BY <1>g DEF Then, XpType
  <1>r. /\ UNCHANGED <<retire, gpu, ct>> /\ (InFlight(s)' <=> InFlight(s))
        /\ xp.pc \in {"poll", "pick", "consume", "decide", "store"}
    BY DEF PollReady, PickOldest, Consume, DecideRelease, StoreInUse, InFlight
  <1>o. xp.old = None /\ (xp.pc \in {"poll", "pick"} => xp.slot = None)
    BY <1>r, <1>g DEF Steps, Submitting, Claiming, ReleasingOld, Consuming
  <1>w. ASSUME xp'.pc \notin {"oldClear", "oldCheck", "count"}
        PROVE  \A t \in Target : (Waits(s, t)' <=> Waits(s, t)) /\ (Counts(s, t)' <=> Counts(s, t))
    BY <1>r, <1>w DEF Waits, Counts, Uncounted
  <1> USE DEF Claiming, ReleasingOld, Consuming
  <1>1. CASE PollReady
    <2> DEFINE p == <<Head(xp.jobs).dest, xp.i>>
    <2>1. /\ slots' = IF slots[p].state = "SUBMITTED" /\ Signalled(p)
                      THEN [slots EXCEPT ![p].state = "READY"] ELSE slots
          /\ xp.pc = "poll" /\ p \in Slot
      BY <1>1, <1>g, <1>h, SlotFacts DEF PollReady, XpType
    <2>2. xp'.pc \in {"pick", "poll"} /\ xp'.slot = None /\ xp'.old = None
      BY <1>1, <1>o, <1>g DEF PollReady, Then, XpType
    <2> HIDE DEF p
    <2>3. CASE slots'[s] = slots[s]
      BY <2>1, <2>2, <2>3, <1>r, <1>o, IdleGood
    <2>4. CASE slots'[s] # slots[s]
      <3>1. s = p /\ slots[s].state = "SUBMITTED" /\ Signalled(s)
        BY <2>1, <2>4, <1>g
      <3>2. /\ slots'[s].state = "READY" /\ slots'[s].refs = slots[s].refs
            /\ slots'[s].pending = slots[s].pending
        BY <2>1, <3>1, <1>g
      <3> QED
        BY <2>1, <2>2, <3>1, <3>2, <1>r, <1>o, <1>w, <1>g DEF Good, Signalled
    <2> QED
      BY <2>3, <2>4
  <1>2. CASE PickOldest
    <2> DEFINE o == Oldest(Head(xp.jobs).dest)
    <2>1. CASE o = None
      <3>1. xp' = NextJob /\ slots' = slots /\ xp.pc = "pick"
        BY <1>2, <2>1 DEF PickOldest
      <3> QED
        BY <3>1, <1>r, <1>o, <1>n, IdleGood
    <2>2. CASE o # None
      <3>1. /\ xp' = [Then("consume") EXCEPT !.slot = o, !.i = 0] /\ xp.pc = "pick"
            /\ slots' = [slots EXCEPT ![o].state = "IN_USE"]
        BY <1>2, <2>2 DEF PickOldest
      <3>2. o \in Slot /\ slots[o].state = "READY"
        BY <2>2, <3>1, <1>h, OldestIs DEF ExportIInv
      <3> HIDE DEF o
      <3>3. xp'.pc = "consume" /\ xp'.slot = o /\ xp'.old = None
        BY <3>1, <1>o, <1>g DEF Then, XpType
      <3>4. CASE s = o
        <4>1. /\ slots'[s].state = "IN_USE" /\ slots'[s].refs = slots[s].refs
              /\ slots'[s].pending = slots[s].pending
          BY <3>1, <3>2, <3>4, <1>g
        <4> QED
          BY <3>1, <3>2, <3>3, <3>4, <4>1, <1>r, <1>o, <1>w, <1>g DEF Good
      <3>5. CASE s # o
        <4>1. slots'[s] = slots[s]
          BY <3>1, <3>2, <3>5, <1>g
        <4> QED
          BY <3>1, <3>3, <3>5, <4>1, <1>r, <1>o, <1>w, <1>g DEF Good
      <3> QED
        BY <3>4, <3>5
    <2> QED
      BY <2>1, <2>2
  <1>3. CASE Consume
    <2>1. /\ xp'.pc = "decide" /\ xp'.slot = xp.slot /\ xp'.old = xp.old
          /\ xp'.r = slots[xp.slot].refs /\ slots' = slots /\ xp.pc = "consume"
      BY <1>3, <1>g DEF Consume, Then, XpType
    <2> QED
      BY <2>1, <1>r, <1>o, <1>w, <1>g DEF Good
  <1>4. CASE DecideRelease
    <2>1. xp.pc = "decide" /\ xp.slot \in Slot
      BY <1>4, <1>g DEF DecideRelease, Steps
    <2>2. ASSUME s = xp.slot
          PROVE  \A t \in Target : Waits(s, t) <=> Counts(s, t)
      <3>1. ~Retiring(s)
        BY <2>1, <2>2 DEF Overlap, Touching
      <3> QED
        BY <2>1, <3>1, <1>g DEF Waits, Counts, Uncounted, Retiring, Locks, Locked
    <2>3. CASE xp.r = 0 /\ slots' = [slots EXCEPT ![xp.slot].state = "FREE"] /\ xp' = NextJob
      <3>1. CASE s = xp.slot
        <4>1. /\ slots'[s].state = "FREE" /\ slots'[s].refs = slots[s].refs
              /\ slots'[s].pending = slots[s].pending /\ slots[s].refs = 0
          BY <2>1, <2>3, <3>1, <1>g DEF Good
        <4>2. \A t \in Target : ~Counts(s, t)
          BY <4>1, <1>g DEF Good
        <4> QED
          BY <2>1, <2>2, <2>3, <3>1, <4>1, <4>2, <1>r, <1>o, <1>n, <1>w, <1>g DEF Good
      <3>2. CASE s # xp.slot
        <4>1. slots'[s] = slots[s]
          BY <2>1, <2>3, <3>2, <1>g
        <4> QED
          BY <2>1, <2>3, <3>2, <4>1, <1>r, <1>o, <1>n, <1>w, <1>g DEF Good
      <3> QED
        BY <3>1, <3>2
    <2>4. CASE xp.r # 0 /\ slots' = [slots EXCEPT ![xp.slot].pending = TRUE] /\ xp' = Then("store")
      <3>1. CASE s = xp.slot
        <4>1. /\ slots'[s].state = slots[s].state /\ slots'[s].refs = slots[s].refs
              /\ slots'[s].pending = TRUE /\ slots[s].refs # 0
          BY <2>1, <2>4, <3>1, <1>g DEF Good
        <4>2. \E t \in Target : Counts(s, t)
          BY <4>1, <1>g DEF Good
        <4> QED
          BY <2>1, <2>2, <2>4, <3>1, <4>1, <4>2, <1>r, <1>o, <1>p, <1>w, <1>g DEF Good
      <3>2. CASE s # xp.slot
        <4>1. slots'[s] = slots[s]
          BY <2>1, <2>4, <3>2, <1>g
        <4> QED
          BY <2>1, <2>4, <3>2, <4>1, <1>r, <1>o, <1>p, <1>w, <1>g DEF Good
      <3> QED
        BY <3>1, <3>2
    <2> QED
      BY <1>4, <2>3, <2>4 DEF DecideRelease
  <1>5. CASE StoreInUse
    <2>1. /\ xp.pc = "store" /\ xp.slot \in Slot /\ xp' = NextJob
          /\ slots' = [slots EXCEPT ![xp.slot].state = "IN_USE"]
      BY <1>5, <1>g DEF StoreInUse, Steps
    <2>2. CASE s = xp.slot
      <3>1. /\ slots'[s].state = "IN_USE" /\ slots'[s].refs = slots[s].refs
            /\ slots'[s].pending = slots[s].pending
        BY <2>1, <2>2, <1>g
      <3> QED
        BY <2>1, <2>2, <3>1, <1>r, <1>o, <1>n, <1>w, <1>g DEF Good
    <2>3. CASE s # xp.slot
      <3>1. slots'[s] = slots[s]
        BY <2>1, <2>3, <1>g
      <3> QED
        BY <2>1, <2>3, <3>1, <1>r, <1>o, <1>n, <1>w, <1>g DEF Good
    <2> QED
      BY <2>2, <2>3
  <1> QED
    BY <1>1, <1>2, <1>3, <1>4, <1>5
-----------------------------------------------------------------------------
(* Good slots: rings that come and go.                                     *)

\* After a step no slot outside raced is worked on by both threads.
LEMMA ApartStep ==
    ASSUME ExportIInv, ExportNext, NoDangling'
    PROVE  Apart'
  <1>1. raced' = {s \in Slot : dests'[s[1]].ready /\ (s \in raced \/ Overlap(s)')}
    BY DEF ExportNext
  <1>2. \A s \in Slot : Overlap(s)' => dests'[s[1]].ready
    BY DEF NoDangling, Overlap, Retiring, Locked
  <1> QED
    BY <1>1, <1>2 DEF Apart

\* A slot that can be relied on after a step could be relied on before it,
\* unless its ring was made or zeroed.
LEMMA StaysSound ==
    ASSUME ExportIInv, ExportNext, NoDangling', NEW s \in Sound',
           dests[s[1]].ready => dests'[s[1]].ready,
           ~(xp.pc = "destroy" /\ Head(xp.jobs).dest = s[1])
    PROVE  s \in Sound /\ ~Overlap(s) /\ ~Overlap(s)'
  <1>1. s \in Slot /\ s \notin raced'
    BY DEF Sound
  <1>2. Apart /\ Apart'
    BY ApartStep DEF ExportIInv
  <1>3. s \notin raced
    BY <1>1, <1>2 DEF Apart, ExportNext
  <1> QED
    BY <1>1, <1>2, <1>3 DEF Sound, Apart

\* Nothing refers to a destination that is not there.
LEMMA UnreadyUnused ==
    ASSUME ExportIInv, NEW d \in Dest, ~dests[d].ready
    PROVE  Unused(d)
  BY DEF ExportIInv, NoDangling, Unused, Locks

\* A slot as sbs_export_dest_init_slots leaves it is good: nothing refers to it.
LEMMA FreshGood ==
    ASSUME NEW s \in Slot, slots'[s] = FreshSlot, Unused(s[1])', gpu' \in Seq(Slot),
           xp'.slot # s, xp'.old # s
    PROVE  Good(s)'
  <1>1. /\ slots'[s].state = "FREE" /\ slots'[s].refs = 0
    BY DEF FreshSlot
  <1>2. \A t \in Target : retire'[t] # s
    BY NoneAssumption DEF Unused
  <1>3. ~InFlight(s)' /\ ct'.slot # s
    BY NoneAssumption DEF Unused, InFlight
  <1> QED
    BY <1>1, <1>2, <1>3 DEF Good, Waits, Counts

\* The steps of sbs_compositor_init_export_dest, and those between two jobs,
\* keep a slot good: they touch no slot of a ring that stays.
LEMMA InitGood ==
    ASSUME ExportIInv, NEW s \in Sound, ExportThreadStep,
           xp.pc \in {"idle", "next"} \cup Building, ~AcquireSlot,
           ~(xp'.pc = "destroy" /\ Head(xp'.jobs).dest = s[1]),
           slots'[s] = slots[s]
    PROVE  Good(s)'
  <1>g. /\ Good(s) /\ s \in Slot /\ Locks /\ Steps /\ None \notin Slot /\ xp \in XpType
        /\ ct.slot \in Slot \cup {None}
    BY GoodFacts
  <1>n. xp.pc # "idle" => /\ NextJob.slot = None /\ NextJob.old = None
                          /\ NextJob.pc \in {"idle", "next"}
    BY <1>g, NextJobType DEF Steps, XpTypeOK
  <1>p. \A q : /\ Then(q).pc = q /\ Then(q).slot = xp.slot /\ Then(q).old = xp.old
               /\ Then(q).jobs = xp.jobs
    BY <1>g DEF Then, XpType
  <1>o. xp.slot = None /\ xp.old = None
    BY <1>g DEF Steps, Building, Submitting, Claiming, ReleasingOld, Consuming
  <1>w. xp.pc \notin {"oldCheck", "oldClear", "count"}
    BY DEF Building
  <1> HIDE DEF NextJob, Then
  <1>1. CASE \E who \in SUBSET Dest \ {{}} : TakeEvent(who)
    <2>1. xp'.pc = "next" /\ xp'.slot = xp.slot /\ xp'.old = xp.old
      BY <1>1, <1>g DEF TakeEvent, XpType
    <2> QED
      BY <1>1, <2>1, <1>o, <1>w, IdleGood DEF TakeEvent
  <1>2. CASE Plan \/ Timeout
    <2>1. PICK jobs \in Seq(JobType) : xp' = Work(jobs)
      <3>1. ASSUME Plan PROVE \E jobs \in Seq(JobType) : xp' = Work(jobs)
        <4> DEFINE ok == {d \in xp.need : inited[d] /\ dests[d].ready}
        <4>1. ok \in SUBSET Dest
          BY <1>g DEF XpType
        <4>2. PICK due \in BOOLEAN : xp' = Work(PlanJobs(ok, due))
          BY <3>1 DEF Plan, PlanJobs
        <4> HIDE DEF ok
        <4>3. PlanJobs(ok, due) \in Seq(JobType)
          BY <4>1, JobLists DEF ExportIInv
        <4> QED
          BY <4>2, <4>3
      <3>2. ASSUME Timeout PROVE \E jobs \in Seq(JobType) : xp' = Work(jobs)
        <4>1. xp' = Work(TimeoutJobs)
          BY <3>2 DEF Timeout, TimeoutJobs
        <4>2. TimeoutJobs \in Seq(JobType)
          BY JobLists DEF ExportIInv
        <4> QED
          BY <4>1, <4>2
      <3> QED
        BY <1>2, <3>1, <3>2
    <2>2. xp'.pc \in {"idle", "next"} /\ xp'.slot = None /\ xp'.old = None
      BY <2>1, <1>g, WorkType DEF XpTypeOK
    <2> QED
      BY <1>2, <2>2, <1>o, <1>w, IdleGood DEF Plan, Timeout
  <1>3. CASE StartInit
    <2>1. xp'.pc \in {"create", "note", "waitIdle"} /\ xp'.slot = xp.slot /\ xp'.old = xp.old
      BY <1>3, <1>g DEF StartInit, XpType
    <2> QED
      BY <1>3, <2>1, <1>o, <1>w, IdleGood DEF StartInit
  <1>4. CASE SkipInit \/ WaitIdle \/ Destroy \/ NoteInited \/ StartTake \/ Create \/ Describe
    <2>1. /\ xp'.pc \in {"unname", "create", "idle", "next", "poll", "describe", "note"}
          /\ xp'.slot = None /\ xp'.old = None /\ UNCHANGED <<retire, gpu, ct>>
      BY <1>4, <1>n, <1>p, <1>o
         DEF SkipInit, WaitIdle, Destroy, Destroyed, NoteInited, StartTake, Create, Describe, At
    <2> QED
      BY <2>1, <1>o, <1>w, IdleGood
  <1>5. CASE Unname
    <2> DEFINE d == Head(xp.jobs).dest
    <2>1. /\ retire' = [t \in Target |-> IF retire[t] # None /\ retire[t][1] = d
                                         THEN None ELSE retire[t]]
          /\ xp'.pc = "destroy" /\ xp'.slot = None /\ xp'.old = None /\ s[1] # d
          /\ xp.pc = "unname" /\ UNCHANGED <<gpu, ct>>
      BY <1>5, <1>p, <1>o DEF Unname
    <2> HIDE DEF d
    <2>2. \A t \in Target : retire'[t] = s <=> retire[t] = s
      BY <2>1, <1>g
    <2>3. \A t \in Target : (Waits(s, t)' <=> Waits(s, t)) /\ (Counts(s, t)' <=> Counts(s, t))
      BY <2>1, <2>2 DEF Waits, Counts, Uncounted
    <2>4. InFlight(s)' <=> InFlight(s)
      BY <2>1 DEF InFlight
    <2>5. ct.slot = s => ct.cur \in Target
      BY GoodFacts
    <2> QED
      BY <2>1, <2>2, <2>3, <2>4, <2>5, <1>o, <1>g DEF Good
  <1> QED
    BY <1>1, <1>2, <1>3, <1>4, <1>5
       DEF ExportThreadStep, AcquireSlot, QueueSubmit, LookOld, OldLoad, OldSub, OldCheck,
           OldClear, NameTarget, CountRef, MarkSubmitted, PollReady, PickOldest, Consume,
           DecideRelease, StoreInUse, Building
\* Every step of the export thread leaves every slot that can be relied on
\* good: a slot of a ring that it makes or zeroes is fresh, and every other one
\* was good before.
LEMMA ExportThreadGood ==
    ASSUME ExportIInv, ExportNext, ExportThreadStep, NEW s \in Sound'
    PROVE  Good(s)'
  <1>g. /\ SharedTypeOK /\ XpTypeOK /\ Torn /\ Steps /\ None \notin Slot /\ dests \in DestsType
        /\ SharedTypeOK' /\ NoDangling' /\ s \in Slot /\ s[1] \in Dest /\ gpu' \in Seq(Slot)
    BY NoneAssumption, ExportThreadType, ExportThreadTorn, SlotFacts
       DEF ExportIInv, ExportTypeOK, SharedTypeOK, DestsType, Sound
  <1>h. xp.pc # "idle" => Head(xp.jobs).dest \in Dest
    BY ExportThreadFacts
  <1>n. xp.pc # "idle" => NextJob.slot = None /\ NextJob.old = None
    BY <1>g, NextJobType DEF Steps
  <1>p. \A q : Then(q).slot = xp.slot /\ Then(q).old = xp.old
    BY <1>g DEF Then, XpTypeOK, XpType
  <1>o. xp.pc \in Building => xp.slot = None /\ xp.old = None
    BY <1>g DEF Steps, Building, Submitting, Claiming, ReleasingOld, Consuming
  <1>d. ~(xp'.pc = "destroy" /\ Head(xp'.jobs).dest = s[1])
    BY DEF Sound
  <1> HIDE DEF NextJob, Then
  <1> DEFINE d == Head(xp.jobs).dest
             fresh == \/ Destroy
                      \/ Create /\ slots' = FreshRing(d)
                      \/ Describe /\ Destroyed(d)
  <1>1. CASE fresh /\ s[1] = d
    <2>1. slots'[s] = FreshSlot
      BY <1>1, <1>g DEF Destroy, Destroyed, FreshRing
    <2>2. Unused(d) /\ UNCHANGED <<retire, gpu, ct>>
      <3>1. CASE Destroy
        BY <3>1, <1>g DEF Destroy, Torn
      <3>2. CASE Create
        BY <3>2, <1>g, <1>h, UnreadyUnused DEF Create, Torn
      <3>3. CASE Describe
        BY <3>3, <1>g DEF Describe, Torn
      <3> QED
        BY <1>1, <3>1, <3>2, <3>3
    <2>3. Unused(s[1])'
      BY <1>1, <2>2 DEF Unused
    <2>4. xp'.slot = None /\ xp'.old = None
      BY <1>1, <1>n, <1>p, <1>o DEF Destroy, Create, Describe, Building
    <2> QED
      BY <2>1, <2>3, <2>4, <1>g, FreshGood
  <1>2. CASE ~(fresh /\ s[1] = d)
    <2>1. /\ dests[s[1]].ready => dests'[s[1]].ready
          /\ ~(xp.pc = "destroy" /\ d = s[1])
      <3>1. CASE xp.pc = "destroy"
        <4>1. Destroy
          BY <3>1 DEF ExportThreadStep, TakeEvent, Plan, Timeout, SkipInit, StartInit, WaitIdle, Unname,
             Create, Describe, NoteInited, AcquireSlot, QueueSubmit, LookOld, OldLoad, OldSub,
             OldCheck, OldClear, NameTarget, CountRef, MarkSubmitted, StartTake, PollReady,
             PickOldest, Consume, DecideRelease, StoreInUse, At
        <4> QED
          BY <4>1, <1>2, <1>g, <1>h DEF Destroy, Destroyed, DestsType
      <3>2. CASE Create \/ Describe
        BY <3>2, <1>2, <1>g, <1>h DEF Create, Describe, Destroyed, DestsType, NewDest
      <3>3. CASE AcquireSlot
        <4>1. xp.pc = "next"
          BY <3>3 DEF AcquireSlot, At
        <4>2. \A e \in Dest : dests'[e].ready = dests[e].ready
          <5>1. dests \in DestsType /\ Head(xp.jobs).dest \in Dest
            BY <4>1, <1>g, <1>h
          <5>2. \/ dests' = dests
                \/ \E i : dests' = [dests EXCEPT ![Head(xp.jobs).dest].submit = i]
            BY <3>3 DEF AcquireSlot
          <5> QED
            BY ONLY <5>1, <5>2, ZenonT(60) DEF DestsType
        <4> QED
          BY <4>1, <4>2, <1>g
      <3>4. CASE UNCHANGED dests /\ xp.pc # "destroy"
        BY <3>4
      <3> QED
        BY <3>1, <3>2, <3>3, <3>4 DEF ExportThreadStep, TakeEvent, Plan, Timeout, SkipInit, StartInit,
           WaitIdle, Unname, Destroy, NoteInited, QueueSubmit, LookOld, OldLoad, OldSub,
           OldCheck, OldClear, NameTarget, CountRef, MarkSubmitted, StartTake, PollReady,
           PickOldest, Consume, DecideRelease, StoreInUse
    <2>2. s \in Sound /\ ~Overlap(s) /\ ~Overlap(s)'
      BY <2>1, <1>g, StaysSound
    <2>3. CASE QueueSubmit \/ LookOld \/ OldLoad \/ OldSub \/ OldCheck \/ OldClear
               \/ NameTarget \/ CountRef \/ MarkSubmitted
      BY <2>2, <2>3, SubmitGood
    <2>4. CASE PollReady \/ PickOldest \/ Consume \/ DecideRelease \/ StoreInUse
      BY <2>2, <2>4, TakeGood
    <2>5. CASE AcquireSlot
      BY <2>2, <2>5, AcquireGood
    <2>6. CASE /\ xp.pc \in {"idle", "next"} \cup Building /\ ~AcquireSlot
               /\ slots'[s] = slots[s]
      BY <2>2, <2>6, <1>d, InitGood
    <2>7. CASE fresh
      <3>1. slots'[s] = slots[s]
        BY <1>2, <2>7, <1>g DEF Destroy, Destroyed, FreshRing
      <3>2. xp.pc \in Building /\ ~AcquireSlot
        BY <2>7 DEF Destroy, Create, Describe, Building, AcquireSlot, At
      <3> QED
        BY <2>6, <3>1, <3>2
    <2>8. CASE /\ \/ \E who \in SUBSET Dest \ {{}} : TakeEvent(who)
                  \/ Plan \/ Timeout \/ SkipInit \/ StartInit \/ WaitIdle \/ Unname \/ NoteInited \/ StartTake
                  \/ Create \/ Describe
               /\ ~fresh /\ ~AcquireSlot
      <3>1. slots' = slots
        BY <2>8 DEF TakeEvent, Plan, Timeout, SkipInit, StartInit, WaitIdle, Unname, NoteInited, StartTake,
           Create, Describe
      <3>2. xp.pc \in {"idle", "next"} \cup Building
        BY <2>8 DEF TakeEvent, Plan, Timeout, SkipInit, StartInit, WaitIdle, Unname, NoteInited, StartTake,
           Create, Describe, At, Building
      <3> QED
        BY <2>6, <2>8, <3>1, <3>2
    <2> HIDE DEF fresh
    <2>9. Destroy => fresh
      BY DEF fresh
    <2> QED
      BY <2>3, <2>4, <2>5, <2>7, <2>8, <2>9 DEF ExportThreadStep
  <1> QED
    BY <1>1, <1>2

\* Every step of the compositor thread leaves every slot that can be relied on
\* good.
LEMMA CompositorThreadGood ==
    ASSUME ExportIInv, ExportNext, CompositorStep, NEW s \in Sound'
    PROVE  Good(s)'
  <1>1. UNCHANGED <<xp, dests>> /\ NoDangling'
    BY CompositorTorn DEF CompositorStep, Wait, Lock, FenceTimeout, LoadRefs, SubRefs,
       CheckPending, FreeSlot, ClearTarget, Render
  <1>2. ~(xp.pc = "destroy" /\ Head(xp.jobs).dest = s[1])
    BY <1>1 DEF Sound
  <1>3. s \in Sound /\ ~Overlap(s) /\ ~Overlap(s)'
    BY <1>1, <1>2, StaysSound
  <1> QED
    BY <1>3, CompositorGood
-----------------------------------------------------------------------------
(* The invariant.                                                          *)

\* The end of a GPU pass and a change of the colour mode touch neither thread.
LEMMA OthersKeep ==
    ASSUME ExportIInv, ExportNext, GpuFinishes \/ ChangeColorMode
    PROVE  /\ SharedTypeOK' /\ XpTypeOK' /\ Locks' /\ JobsOrdered' /\ Steps'
           /\ Torn' /\ NoDangling' /\ \A s \in Sound' : Good(s)'
  <1>g. /\ SharedTypeOK /\ XpTypeOK /\ Locks /\ JobsOrdered /\ Steps /\ Torn /\ NoDangling
        /\ gpu \in Seq(Slot)
    BY DEF ExportIInv, ExportTypeOK, SharedTypeOK
  <1>1. UNCHANGED <<slots, dests, retire, ct, xp>>
    BY DEF GpuFinishes, ChangeColorMode
  <1>2. /\ gpu' \in Seq(Slot) /\ (gpu = <<>> => gpu' = <<>>)
        /\ \A k \in DOMAIN gpu' : \E j \in DOMAIN gpu : gpu'[k] = gpu[j]
    <2>1. CASE GpuFinishes
      <3>1. gpu # <<>> /\ gpu' = Tail(gpu)
        BY <2>1 DEF GpuFinishes
      <3>2. gpu' \in Seq(Slot) /\ \A k \in DOMAIN gpu' : k + 1 \in DOMAIN gpu /\ gpu'[k] = gpu[k + 1]
        BY <3>1, <1>g
      <3> QED
        BY <3>1, <3>2
    <2>2. CASE ChangeColorMode
      BY <2>2, <1>g DEF ChangeColorMode
    <2> QED
      BY <2>1, <2>2
  <1>3. SharedTypeOK' /\ XpTypeOK'
    <2>1. /\ inited' \in [Dest -> BOOLEAN] /\ colorMode' \in Mode /\ modes' \in Nat
          /\ rendered' \in Nat
      <3>1. CASE GpuFinishes
        BY <3>1, <1>g DEF GpuFinishes, SharedTypeOK
      <3>2. CASE ChangeColorMode
        <4>1. inited' = [inited EXCEPT !["output"] = FALSE] /\ inited \in [Dest -> BOOLEAN]
          BY <3>2, <1>g DEF ChangeColorMode, SharedTypeOK
        <4>2. inited' \in [Dest -> BOOLEAN]
          BY <4>1
        <4>3. colorMode' \in Mode
          BY <3>2 DEF ChangeColorMode
        <4>4. modes' \in Nat /\ rendered' \in Nat
          BY <3>2, <1>g DEF ChangeColorMode, SharedTypeOK
        <4> QED
          BY <4>2, <4>3, <4>4
      <3> QED
        BY <3>1, <3>2
    <2> QED
      BY <2>1, <1>1, <1>2, <1>g DEF SharedTypeOK, XpTypeOK
  <1>4. Locks' /\ JobsOrdered' /\ Steps'
    BY <1>1, <1>g DEF Locks, Locked, JobsOrdered, Steps
  <1>5. Torn' /\ NoDangling'
    BY <1>1, <1>2, <1>g DEF Torn, Unused, NoDangling, Locked
  <1>6. ASSUME NEW s \in Sound' PROVE Good(s)'
    <2>1. ~(xp.pc = "destroy" /\ Head(xp.jobs).dest = s[1])
      BY <1>1 DEF Sound
    <2>2. s \in Sound
      BY <1>1, <1>5, <2>1, StaysSound
    <2>3. Good(s)
      BY <2>2, GoodFacts
    <2>4. InFlight(s)' => InFlight(s)
      BY <1>2 DEF InFlight
    <2>5. \A t \in Target : (Waits(s, t)' <=> Waits(s, t)) /\ (Counts(s, t)' <=> Counts(s, t))
      BY <1>1 DEF Waits, Counts, Uncounted
    <2> QED
      BY <1>1, <2>3, <2>4, <2>5 DEF Good
  <1> QED
    BY <1>3, <1>4, <1>5, <1>6

\* A slot is put on the queue when it is not on it: only the export thread
\* appends, and the slot it appends has been claimed FREE.
LEMMA QueuedStep ==
    ASSUME ExportIInv, ExportNext, NoDangling'
    PROVE  QueuedOnce'
  <1>g. /\ gpu \in Seq(Slot) /\ QueuedOnce /\ NoDangling
        /\ raced' = {s \in Slot : dests'[s[1]].ready /\ (s \in raced \/ Overlap(s)')}
    BY DEF ExportIInv, ExportTypeOK, ExportNext
  <1> SUFFICES ASSUME NEW j \in DOMAIN gpu', NEW k \in DOMAIN gpu', gpu'[j] = gpu'[k],
                      gpu'[j] \notin raced'
               PROVE  j = k
    BY DEF QueuedOnce
  <1>1. CASE gpu' = gpu
    <2>1. gpu[j] \in Slot /\ dests'[gpu[j][1]].ready
      BY <1>1, <1>g DEF NoDangling
    <2> QED
      BY <1>1, <1>g, <2>1 DEF QueuedOnce
  <1>2. CASE GpuFinishes
    <2>1. gpu # <<>> /\ gpu' = Tail(gpu)
      BY <1>2 DEF GpuFinishes
    <2>2. /\ j \in Nat /\ k \in Nat /\ j + 1 \in DOMAIN gpu /\ k + 1 \in DOMAIN gpu
          /\ gpu'[j] = gpu[j + 1] /\ gpu'[k] = gpu[k + 1]
      BY <2>1, <1>g
    <2>3. gpu[j + 1] \in Slot /\ dests'[gpu[j + 1][1]].ready
      BY <2>2, <1>g DEF NoDangling
    <2>4. j + 1 = k + 1
      BY <2>2, <2>3, <1>g DEF QueuedOnce
    <2> QED
      BY <2>2, <2>4
  <1>3. CASE QueueSubmit /\ gpu' = Append(gpu, xp.slot)
    <2>1. xp.pc = "queue" /\ xp.slot \in Slot /\ UNCHANGED dests
      BY <1>3, SubmitsToReady DEF QueueSubmit, Submitting, Claiming
    <2>2. /\ DOMAIN gpu' = DOMAIN gpu \cup {Len(gpu) + 1} /\ gpu'[Len(gpu) + 1] = xp.slot
          /\ \A i \in DOMAIN gpu : gpu'[i] = gpu[i]
          /\ Len(gpu) + 1 \notin DOMAIN gpu
      BY <1>3, <2>1, <1>g
    <2>3. \A i \in DOMAIN gpu : gpu[i] \in Slot /\ dests'[gpu[i][1]].ready
      BY <2>1, <1>g DEF NoDangling
    <2>4. xp.slot \notin raced' => ~InFlight(xp.slot)
      <3>1. dests[xp.slot[1]].ready
        BY <2>1, SubmitsToReady DEF Submitting, Claiming
      <3>2. xp.slot \notin raced' => xp.slot \in Sound
        BY <2>1, <3>1, <1>g DEF Sound
      <3> QED
        BY <2>1, <3>2, GoodFacts DEF Good
    <2>5. CASE j \in DOMAIN gpu /\ k \in DOMAIN gpu
      BY <2>2, <2>3, <2>5, <1>g DEF QueuedOnce
    <2>6. CASE ~(j \in DOMAIN gpu /\ k \in DOMAIN gpu)
      BY <2>2, <2>4, <2>6 DEF InFlight
    <2> QED
      BY <2>5, <2>6
  <1> QED
    BY <1>1, <1>2, <1>3 DEF ExportNext, ChangeColorMode, CompositorStep, Wait, Lock,
       FenceTimeout, LoadRefs, SubRefs, CheckPending, FreeSlot, ClearTarget, Render,
       ExportThreadStep, TakeEvent, Plan, Timeout, SkipInit, StartInit, WaitIdle, Unname, Destroy,
       Create, Describe, NoteInited, AcquireSlot, QueueSubmit, LookOld, OldLoad, OldSub,
       OldCheck, OldClear, NameTarget, CountRef, MarkSubmitted, StartTake, PollReady,
       PickOldest, Consume, DecideRelease, StoreInUse

\* The invariant holds initially: every slot is fresh and nothing refers to it.
LEMMA ExportInitIInv ==
    ASSUME ExportInit
    PROVE  ExportIInv
  <1>0. /\ 0 \in Target /\ 0 \in 0 .. Slots - 1 /\ 0 \in 0 .. RefModulus - 1 /\ None \notin Slot
    BY SlotFacts
  <1>1. ExportTypeOK
    BY <1>0 DEF ExportInit, ExportTypeOK, FreshSlot, NoDest, Mode
  <1>2. XpTypeOK
    BY <1>0 DEF ExportInit, XpTypeOK, XpType, Mode, Dest
  <1>3. Locks /\ JobsOrdered /\ Steps /\ Torn
    BY <1>0 DEF ExportInit, Locks, Locked, JobsOrdered, Steps, Torn, Building, Submitting,
       Claiming, ReleasingOld, Consuming
  <1>4. Apart /\ QueuedOnce /\ NoDangling
    BY DEF ExportInit, Apart, Overlap, Retiring, QueuedOnce, NoDangling, Locked
  <1>5. \A s \in Slot : Good(s)
    BY <1>0 DEF ExportInit, Good, FreshSlot, Waits, Counts, InFlight
  <1> QED
    BY <1>1, <1>2, <1>3, <1>4, <1>5 DEF ExportIInv, Sound

\* Every step keeps the invariant.
LEMMA ExportNextIInv ==
    ASSUME ExportIInv, [ExportNext]_exportVars
    PROVE  ExportIInv'
  <1>1. CASE ExportNext
    <2>1. /\ SharedTypeOK' /\ XpTypeOK' /\ Locks' /\ JobsOrdered' /\ Steps'
          /\ Torn' /\ NoDangling'
      BY <1>1, OthersKeep, CompositorType, CompositorOrder, CompositorTorn, ExportThreadType,
         ExportThreadOrder, ExportThreadTorn DEF ExportNext
    <2>2. \A s \in Sound' : Good(s)'
      BY <1>1, OthersKeep, CompositorThreadGood, ExportThreadGood DEF ExportNext
    <2>3. Apart' /\ QueuedOnce'
      BY <1>1, <2>1, ApartStep, QueuedStep
    <2>4. ExportTypeOK'
      <3>1. raced' \subseteq Slot
        BY <1>1 DEF ExportNext
      <3>2. xp'.pc \in {"idle", "next", "poll", "pick"} \cup Building \cup Submitting
                       \cup Consuming
        BY <2>1 DEF XpTypeOK, XpType
      <3> QED
        BY <2>1, <3>1, <3>2 DEF SharedTypeOK, ExportTypeOK, Building, Submitting, Claiming,
           ReleasingOld, Consuming
    <2> QED
      BY <2>1, <2>2, <2>3, <2>4 DEF ExportIInv
  <1>2. CASE UNCHANGED exportVars
    BY <1>2, SMTT(60) DEF exportVars, ExportIInv, ExportTypeOK, XpTypeOK, Locks, Locked, JobsOrdered,
       Steps, Torn, Unused, Apart, Overlap, Retiring, Touching, QueuedOnce, NoDangling, Sound,
       Good, Waits, Counts, Uncounted, InFlight
  <1> QED
    BY <1>1, <1>2
\* The invariant holds in every state of the export path.
LEMMA ExportInvariance == ExportSpec => []ExportIInv
  BY ExportInitIInv, ExportNextIInv, PTL DEF ExportSpec

-----------------------------------------------------------------------------
(* What follows from the invariant.                                        *)

\* The consumer's slot is good, so its pass is not on the queue.
LEMMA UsedSafely == ExportIInv => SlotsUsedSafely
  <1> SUFFICES ASSUME ExportIInv PROVE SlotsUsedSafely
    OBVIOUS
  <1>1. ConsumedIsDone
    <2> SUFFICES ASSUME xp.pc = "consume", xp.slot \notin raced PROVE ~InFlight(xp.slot)
      BY DEF ConsumedIsDone
    <2>1. xp.slot \in Sound
      BY DEF ExportIInv, Steps, Consuming, Sound
    <2> QED
      BY <2>1, GoodFacts DEF Good, Consuming
  <1> QED
    BY <1>1 DEF ExportIInv, SlotsUsedSafely

\* At most one target counts on a slot, so its references are those targets;
\* and one left IN_USE by its holder has a target that waits for it.
LEMMA ComeBack == ExportIInv => SlotsComeBack
  <1> SUFFICES ASSUME ExportIInv PROVE SlotsComeBack
    OBVIOUS
  <1>1. ASSUME NEW s \in Sound
        PROVE  slots[s].refs = Cardinality(Named(s) \ Uncounted)
    <2>1. Good(s)
      BY GoodFacts
    <2>2. \A t \in Target : t \in Named(s) \ Uncounted <=> Counts(s, t)
      BY DEF Named, Counts
    <2>3. CASE \E t \in Target : Counts(s, t)
      <3>1. PICK t \in Target : Counts(s, t)
        BY <2>3
      <3>2. \A u \in Target : Counts(s, u) => u = t
        BY <2>1, <3>1 DEF Good, Counts
      <3>3. Named(s) \ Uncounted = {t}
        BY <2>2, <3>1, <3>2 DEF Named
      <3>4. slots[s].refs = 1
        BY <2>1, <2>3 DEF Good
      <3> QED
        BY <3>3, <3>4, FS_Singleton
    <2>4. CASE ~ \E t \in Target : Counts(s, t)
      <3>1. Named(s) \ Uncounted = {}
        BY <2>2, <2>4 DEF Named
      <3>2. slots[s].refs = 0
        BY <2>1, <2>4 DEF Good
      <3> QED
        BY <3>1, <3>2, FS_EmptySet
    <2> QED
      BY <2>3, <2>4
  <1>2. NoneStranded
    <2> SUFFICES ASSUME NEW s \in Sound, slots[s].state = "IN_USE", xp.slot # s
                 PROVE  slots[s].pending /\ Named(s) # {}
      BY DEF NoneStranded, Held
    <2>1. slots[s].pending /\ \E t \in Target : Waits(s, t)
      BY GoodFacts DEF Good
    <2> QED
      BY <2>1 DEF Named, Waits
  <1> QED
    BY <1>1, <1>2 DEF SlotsComeBack, RefsExact

\* The variables of the export path keep their types.
THEOREM ExportTypesCorrect == ExportSpec => []ExportTypeOK
  <1>1. ExportIInv => ExportTypeOK
    BY DEF ExportIInv
  <1> QED
    BY <1>1, ExportInvariance, PTL

\* Slots are queued and consumed only after their fence, and a ring is never
\* destroyed while something still refers to it.
THEOREM UsedCorrect == ExportSpec => []SlotsUsedSafely
  BY UsedSafely, ExportInvariance, PTL

\* No slot that the two threads did not run into each other on is ever lost.
THEOREM ComesBackCorrect == ExportSpec => []SlotsComeBack
  BY ComeBack, ExportInvariance, PTL

\* A behaviour of the export thread on both of its paths is one of each path,
\* which the branch that process_frame does not take leaves where it is.
THEOREM PathsImplemented == PathSpec => Init /\ [][Next]_vars /\ ExportSpec
  <1>1. PathInit => Init /\ ExportInit
    BY DEF PathInit
  <1>2. [PathNext]_pathVars => [Next]_vars
    BY DEF PathNext, pathVars
  <1>3. [PathNext]_pathVars => [ExportNext]_exportVars
    BY DEF PathNext, pathVars
  <1> QED
    BY <1>1, <1>2, <1>3, PTL DEF PathSpec, ExportSpec

\* So the leases of one path and the slots of the other are as safe when both
\* are in the same router.
THEOREM PathCorrect ==
    PathSpec => []( /\ LeaseOwnedOnce /\ PinnedBound /\ PipelineOrdered /\ SkipsOnlyQueued
                    /\ SlotsComeBack /\ SlotsUsedSafely )
  <1> QED
    BY OwnedHolds, PinnedHolds, PipelineHolds, SkipsHolds, PathsImplemented, InitIInv, NextIInv,
       ExportInvariance, UsedSafely, ComeBack, PTL
=============================================================================
