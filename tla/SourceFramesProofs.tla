------------------------- MODULE SourceFramesProofs -------------------------
(***************************************************************************)
(* Proofs about SourceFrames, for any number of frames and canvas entries  *)
(* and any sizes of the ring, the socket and the lease table: every frame  *)
(* is released exactly once, and none that a render samples is.            *)
(*                                                                         *)
(* The invariant says of sets what ReleasedOnce says of numbers: the       *)
(* frames in the socket, in the slot ring, attached to an entry and on     *)
(* their way back are apart from each other (Apart), nothing lists one     *)
(* twice, and a leased frame is in one of these places and belongs to the  *)
(* present worker (Placed).  For what the GPU reads, the texture's frame   *)
(* is the one to watch, since later renders sample it without a new upload *)
(* (Sampled).                                                              *)
(***************************************************************************)
EXTENDS SourceFrames, FiniteSetTheorems, SequenceTheorems, TLAPS

TypeOK ==
    /\ worker \in {"down", "run", "recover"}
    /\ leases \subseteq Frame /\ conn \subseteq Frame /\ spoilt \subseteq Frame
    /\ sent \in Seq(Frame) /\ Len(sent) <= SocketRoom
    /\ ring \in Seq(Frame) /\ Len(ring) <= RingSize
    /\ acks \in [Frame -> {0, 1}]
    /\ pc \in {"top", "draw", "done"} /\ shown \in BOOLEAN
    /\ tex \in [active : Frame \cup {NoFrame}, bound : BOOLEAN]
    /\ pending \in [Entry -> SUBSET Frame]
    /\ reads \in [Entry -> Frame \cup {NoFrame}]
    /\ busy \in [Entry -> BOOLEAN]

\* A list without repetitions.
Once(s) == \A i, j \in 1 .. Len(s) : s[i] = s[j] => i = j

\* The frames whose release is under way.
Returning == {f \in Frame : acks[f] = 1}

\* No frame is in two places.
Apart ==
    /\ Once(sent) /\ Once(ring)
    /\ Elems(sent) \cap Elems(ring) = {}
    /\ Returning \cap (Elems(sent) \cup Elems(ring)) = {}
    /\ \A e \in Entry :
          /\ pending[e] \cap (Elems(sent) \cup Elems(ring) \cup Returning) = {}
          /\ \A d \in Entry \ {e} : pending[e] \cap pending[d] = {}

\* A leased frame has a place, and its release would reach its worker.
Placed ==
    /\ leases \subseteq conn
    /\ leases \subseteq Elems(sent) \cup Elems(ring) \cup Returning \cup PendingAll

\* What a render samples, or may sample next, is held or was spoilt.
Sampled ==
    Packed =>
        /\ \A e \in Entry : reads[e] # NoFrame => reads[e] \in PendingAll \cup spoilt
        /\ pc # "done" /\ tex.active # NoFrame => tex.active \in PendingAll \cup spoilt

IInv == TypeOK /\ Apart /\ Placed /\ Sampled

-----------------------------------------------------------------------------
(* Lists without repetitions.                                              *)

\* The elements of a list of frames are frames; the empty list has none.
LEMMA ElemsFrames == \A s \in Seq(Frame) : Elems(s) \subseteq Frame
  BY DEF Elems

\* The empty list has no frame.
LEMMA EmptyList == Elems(<<>>) = {} /\ Once(<<>>) /\ <<>> \in Seq(Frame) /\ Len(<<>>) = 0
  BY DEF Elems, Once

\* Taking the first frame of a list (the ring's oldest, the socket's next)
\* takes that frame out of it and no other.
LEMMA TailTakes ==
    ASSUME NEW s \in Seq(Frame), Once(s), s # <<>>
    PROVE  /\ Head(s) \in Elems(s)
           /\ Tail(s) \in Seq(Frame) /\ Len(Tail(s)) = Len(s) - 1
           /\ Once(Tail(s))
           /\ Elems(Tail(s)) = Elems(s) \ {Head(s)}
  <1>1. /\ Len(s) \in Nat \ {0} /\ Head(s) = s[1] /\ DOMAIN s = 1 .. Len(s)
        /\ Tail(s) \in Seq(Frame) /\ Len(Tail(s)) = Len(s) - 1
        /\ DOMAIN Tail(s) = 1 .. Len(s) - 1
        /\ \A i \in 1 .. Len(s) - 1 : Tail(s)[i] = s[i + 1]
    BY HeadTailProperties, EmptySeq
  <1>2. Head(s) \in Elems(s)
    BY <1>1 DEF Elems
  <1>3. Once(Tail(s))
    BY <1>1 DEF Once
  <1>4. Elems(Tail(s)) \subseteq Elems(s) \ {Head(s)}
    BY <1>1 DEF Elems, Once
  <1>5. ASSUME NEW f \in Elems(s) \ {Head(s)} PROVE f \in Elems(Tail(s))
    <2>1. PICK i \in 1 .. Len(s) : f = s[i]
      BY <1>1, <1>5 DEF Elems
    <2>2. i - 1 \in 1 .. Len(s) - 1 /\ Tail(s)[i - 1] = f
      BY <1>1, <1>5, <2>1
    <2> QED
      BY <1>1, <2>2 DEF Elems
  <1> QED
    BY <1>1, <1>2, <1>3, <1>4, <1>5

\* Appending a frame that a list does not have keeps it free of repetitions.
LEMMA AppendAdds ==
    ASSUME NEW s \in Seq(Frame), Once(s), NEW f \in Frame, f \notin Elems(s)
    PROVE  /\ Append(s, f) \in Seq(Frame) /\ Len(Append(s, f)) = Len(s) + 1
           /\ Once(Append(s, f))
           /\ Elems(Append(s, f)) = Elems(s) \cup {f}
  <1> DEFINE t == Append(s, f)
  <1>1. /\ t \in Seq(Frame) /\ Len(t) = Len(s) + 1 /\ Len(s) \in Nat
        /\ DOMAIN s = 1 .. Len(s) /\ DOMAIN t = 1 .. Len(s) + 1
        /\ \A i \in 1 .. Len(s) : t[i] = s[i]
        /\ t[Len(s) + 1] = f
    BY AppendProperties
  <1>2. \A i \in 1 .. Len(s) : s[i] # f
    BY <1>1 DEF Elems
  <1> HIDE DEF t
  <1>3. Once(t)
    BY <1>1, <1>2 DEF Once
  <1>4. Elems(t) = Elems(s) \cup {f}
    BY <1>1 DEF Elems
  <1> QED
    BY <1>1, <1>3, <1>4 DEF t

-----------------------------------------------------------------------------
(* Releases.                                                               *)

\* sbs_frame_fds_release of frames whose release is not under way yet: those of
\* the present worker are on their way afterwards, once each.
LEMMA AckedReturns ==
    ASSUME TypeOK, NEW S \in SUBSET Frame, S \cap Returning = {}, acks' = Acked(S)
    PROVE  acks' \in [Frame -> {0, 1}] /\ Returning' = Returning \cup (S \cap conn)
  BY DEF TypeOK, Acked, Returning

\* At the start no frame is anywhere.
LEMMA InitIInv == Init => IInv
  <1> SUFFICES ASSUME Init PROVE IInv
    OBVIOUS
  <1>1. TypeOK
    <2>1. /\ sent \in Seq(Frame) /\ Len(sent) <= SocketRoom
          /\ ring \in Seq(Frame) /\ Len(ring) <= RingSize
      BY EmptyList, SocketAssumption, RingAssumption DEF Init
    <2>2. /\ tex \in [active : Frame \cup {NoFrame}, bound : BOOLEAN]
          /\ reads \in [Entry -> Frame \cup {NoFrame}]
          /\ acks \in [Frame -> {0, 1}]
      BY DEF Init, NoAcks
    <2> QED
      BY <2>1, <2>2 DEF Init, TypeOK
  <1>2. Returning = {} /\ PendingAll = {}
    BY DEF Init, NoAcks, Returning, PendingAll
  <1>3. Apart /\ Placed /\ Sampled
    BY <1>2, EmptyList DEF Init, Apart, Placed, Sampled
  <1> QED
    BY <1>1, <1>3 DEF IInv

-----------------------------------------------------------------------------
(* The worker.                                                             *)

\* Each of its steps moves a frame into the socket, ends a release, or gives
\* leases back; none lets a frame be in two places or a lease in none.
LEMMA CaptureKeeps == ASSUME IInv, Capture PROVE IInv'
  <1>1. PICK f \in Frame \ Known :
           /\ Leased(f) /\ sent' = Append(sent, f) /\ conn' = conn \cup {f}
           /\ spoilt' = spoilt \ {f}
    BY DEF Capture
  <1>2. /\ f \notin leases /\ f \notin conn /\ f \notin Elems(sent) /\ f \notin Elems(ring)
        /\ f \notin PendingAll /\ f # tex.active /\ \A e \in Entry : reads[e] # f
    BY <1>1 DEF Known
  <1>3. f \notin Returning
    BY <1>1 DEF Known, Returning
  <1>4. /\ sent' \in Seq(Frame) /\ Len(sent') = Len(sent) + 1 /\ Once(sent')
        /\ Elems(sent') = Elems(sent) \cup {f}
    BY <1>1, <1>2, AppendAdds DEF IInv, TypeOK, Apart
  <1>5. TypeOK'
    BY <1>1, <1>4, SocketAssumption DEF IInv, TypeOK, Capture, Leased
  <1>6. Returning' = Returning /\ PendingAll' = PendingAll /\ ring' = ring /\ pending' = pending
    BY DEF Capture, Returning, PendingAll
  <1>7. Apart'
    BY <1>2, <1>3, <1>4, <1>6 DEF IInv, Apart, PendingAll
  <1>8. Placed'
    BY <1>1, <1>4, <1>6 DEF IInv, Placed, Leased
  <1>9. Sampled'
    BY <1>1, <1>2, <1>6 DEF IInv, Sampled, Capture
  <1> QED
    BY <1>5, <1>7, <1>8, <1>9 DEF IInv

\* The worker takes one release from the socket: its frame is given back, and
\* was in the hands of nobody on the other side.
LEMMA ReadAckKeeps == ASSUME IInv, ReadAck PROVE IInv'
  <1>1. PICK f \in Frame :
           /\ acks[f] > 0 /\ GivenBack({f}) /\ acks' = [acks EXCEPT ![f] = @ - 1]
           /\ conn' = IF acks[f] = 1 THEN conn \ {f} ELSE conn
    BY DEF ReadAck
  <1>2. acks[f] = 1 /\ acks' \in [Frame -> {0, 1}] /\ Returning' = Returning \ {f}
    BY <1>1 DEF IInv, TypeOK, Returning
  <1>3. TypeOK'
    BY <1>1, <1>2 DEF IInv, TypeOK, ReadAck, GivenBack, compVars
  <1>4. PendingAll' = PendingAll /\ ring' = ring /\ pending' = pending /\ sent' = sent
    BY DEF ReadAck, PendingAll, compVars
  <1>5. Apart' /\ Placed'
    BY <1>1, <1>2, <1>4 DEF IInv, Apart, Placed, GivenBack
  <1>6. Sampled'
    BY <1>4 DEF IInv, Sampled, ReadAck, compVars
  <1> QED
    BY <1>3, <1>5, <1>6 DEF IInv

\* Every step of the worker process keeps the invariant.
LEMMA WorkerKeeps == ASSUME IInv, Worker PROVE IInv'
  <1>1. CASE Capture
    BY <1>1, CaptureKeeps
  <1>2. CASE ReadAck
    BY <1>2, ReadAckKeeps
  <1>3. CASE BeginRecovery \/ Recovered \/ RestartNow \/ WorkerStarts
    <2>1. /\ leases' \subseteq leases /\ worker' \in {"run", "recover"}
          /\ UNCHANGED <<sent, conn, ring, acks, compVars>>
      BY <1>3 DEF BeginRecovery, Recovered, RestartNow, WorkerStarts, OpenStart,
                  Recovering, GivenBack
    <2>2. Returning' = Returning /\ PendingAll' = PendingAll
      BY <2>1 DEF Returning, PendingAll, compVars
    <2> QED
      BY <2>1, <2>2 DEF IInv, TypeOK, Apart, Placed, Sampled, compVars
  <1>4. CASE WorkerExits
    <2>1. /\ leases' = {} /\ worker' = "down" /\ sent' = <<>> /\ conn' = {}
          /\ acks' = NoAcks /\ UNCHANGED <<ring, compVars>>
      BY <1>4 DEF WorkerExits, GivenBack
    <2>2. Returning' = {} /\ PendingAll' = PendingAll /\ acks' \in [Frame -> {0, 1}]
      BY <2>1 DEF Returning, PendingAll, compVars, NoAcks
    <2>3. Elems(sent') = {} /\ Once(sent') /\ sent' \in Seq(Frame) /\ Len(sent') = 0
      BY <2>1, EmptyList
    <2> QED
      BY <2>1, <2>2, <2>3, SocketAssumption DEF IInv, TypeOK, Apart, Placed, Sampled, compVars
  <1> QED
    BY <1>1, <1>2, <1>3, <1>4 DEF Worker

-----------------------------------------------------------------------------
(* The server's main loop and the clients' threads.                        *)

\* A frame leaves the socket for the ring or for its release, and a frame that
\* the ring has no room for leaves it for its release.
LEMMA ReceiveKeeps == ASSUME IInv, Receive PROVE IInv'
  <1> DEFINE h == Head(sent)
  <1>1. /\ h \in Elems(sent) /\ sent' = Tail(sent) /\ sent' \in Seq(Frame)
        /\ Len(sent') = Len(sent) - 1 /\ Once(sent') /\ Elems(sent') = Elems(sent) \ {h}
    BY TailTakes DEF IInv, TypeOK, Apart, Receive
  <1>2. h \in Frame
    BY <1>1, ElemsFrames DEF IInv, TypeOK
  <1>3. /\ h \notin Elems(ring) /\ h \notin Returning /\ h \notin PendingAll
    BY <1>1 DEF IInv, Apart, PendingAll
  <1>4. /\ worker' = worker /\ leases' = leases /\ conn' = conn /\ pending' = pending
        /\ PendingAll' = PendingAll /\ UNCHANGED compVars
    BY DEF Receive, compVars, PendingAll
  <1>5. \E S \in SUBSET (Elems(ring) \cup {h}) :
           /\ acks' = Acked(S)
           /\ ring' \in Seq(Frame) /\ Len(ring') <= RingSize /\ Once(ring')
           /\ Elems(ring') = (Elems(ring) \cup {h}) \ S
    <2>1. CASE acks' = Acked({h}) /\ UNCHANGED ring
      <3>1. Elems(ring') = (Elems(ring) \cup {h}) \ {h}
        BY <2>1, <1>3
      <3> QED
        BY <2>1, <3>1 DEF IInv, TypeOK, Apart
    <2>2. CASE Publish(h) /\ Len(ring) = RingSize
      <3> DEFINE g == Head(ring)
                 t == Tail(ring)
      <3>1. ring # <<>>
        BY <2>2, RingAssumption, EmptyList
      <3>2. /\ g \in Elems(ring) /\ t \in Seq(Frame) /\ Len(t) = Len(ring) - 1
            /\ Once(t) /\ Elems(t) = Elems(ring) \ {g}
        BY <3>1, TailTakes DEF IInv, TypeOK, Apart
      <3> HIDE DEF g, t
      <3>3. /\ Append(t, h) \in Seq(Frame) /\ Len(Append(t, h)) = Len(t) + 1
            /\ Once(Append(t, h)) /\ Elems(Append(t, h)) = Elems(t) \cup {h}
        BY <3>2, <1>2, <1>3, AppendAdds
      <3>4. ring' = Append(t, h) /\ acks' = Acked({g})
        BY <2>2 DEF Publish, g, t
      <3>5. Elems(ring') = (Elems(ring) \cup {h}) \ {g}
        BY <3>2, <3>3, <3>4, <1>3
      <3>6. Len(ring') <= RingSize
        BY <3>2, <3>3, <3>4, <2>2, RingAssumption DEF IInv, TypeOK
      <3> QED
        BY <3>2, <3>3, <3>4, <3>5, <3>6
    <2>3. CASE Publish(h) /\ Len(ring) # RingSize
      <3>1. ring' = Append(ring, h) /\ acks' = acks
        BY <2>3 DEF Publish
      <3>2. /\ ring' \in Seq(Frame) /\ Len(ring') = Len(ring) + 1
            /\ Once(ring') /\ Elems(ring') = Elems(ring) \cup {h}
        BY <3>1, <1>2, <1>3, AppendAdds DEF IInv, TypeOK, Apart
      <3>3. Len(ring') <= RingSize
        BY <3>2, <2>3, RingAssumption DEF IInv, TypeOK
      <3>4. acks = Acked({})
        BY DEF Acked, IInv, TypeOK
      <3> QED
        BY <3>1, <3>2, <3>3, <3>4
    <2> QED
      BY <2>1, <2>2, <2>3 DEF Receive
  <1> HIDE DEF h
  <1>6. PICK S \in SUBSET (Elems(ring) \cup {h}) :
           /\ acks' = Acked(S)
           /\ ring' \in Seq(Frame) /\ Len(ring') <= RingSize /\ Once(ring')
           /\ Elems(ring') = (Elems(ring) \cup {h}) \ S
    BY <1>5
  <1>7. S \in SUBSET Frame /\ S \cap Returning = {}
    BY <1>2, <1>3, ElemsFrames DEF IInv, TypeOK, Apart
  <1>8. acks' \in [Frame -> {0, 1}] /\ Returning' = Returning \cup (S \cap conn)
    BY <1>6, <1>7, AckedReturns DEF IInv
  <1>9. TypeOK'
    <2>1. Len(sent') <= SocketRoom
      BY <1>1, SocketAssumption DEF IInv, TypeOK
    <2> QED
      BY <1>1, <1>4, <1>6, <1>8, <2>1 DEF IInv, TypeOK, compVars
  <1>10. Apart'
    <2>1. S \cap PendingAll = {}
      BY <1>3 DEF IInv, Apart, PendingAll
    <2> QED
      BY <1>1, <1>3, <1>4, <1>6, <1>8, <2>1 DEF IInv, Apart, PendingAll
  <1>11. Placed'
    BY <1>1, <1>4, <1>6, <1>8 DEF IInv, Placed
  <1>12. Sampled'
    BY <1>4 DEF IInv, Sampled, compVars
  <1> QED
    BY <1>9, <1>10, <1>11, <1>12 DEF IInv

\* A flush moves the whole ring on its way back.
LEMMA FlushKeeps == ASSUME IInv, Flush PROVE IInv'
  <1>1. /\ ring' = <<>> /\ acks' = Acked(Elems(ring)) /\ UNCHANGED <<workerVars, compVars>>
    BY DEF Flush
  <1>2. Elems(ring) \in SUBSET Frame /\ Elems(ring) \cap Returning = {}
    BY ElemsFrames DEF IInv, TypeOK, Apart
  <1>3. acks' \in [Frame -> {0, 1}] /\ Returning' = Returning \cup (Elems(ring) \cap conn)
    BY <1>1, <1>2, AckedReturns DEF IInv
  <1>4. /\ Elems(ring') = {} /\ Once(ring') /\ ring' \in Seq(Frame) /\ Len(ring') = 0
        /\ PendingAll' = PendingAll
    BY <1>1, EmptyList DEF PendingAll, compVars
  <1> QED
    BY <1>1, <1>3, <1>4, RingAssumption
       DEF IInv, TypeOK, Apart, Placed, Sampled, workerVars, compVars

-----------------------------------------------------------------------------
(* The compositor thread.                                                  *)

\* What an entry gives up it had, and the texture's packed frame stays.
LEMMA GivenKept ==
    ASSUME TypeOK, NEW t, NEW e \in Entry
    PROVE  /\ Given(t, e) \subseteq pending[e]
           /\ Packed => t.active \notin Given(t, e)
  BY DEF Given

\* What the pending sets of all entries together are.
LEMMA Attached == \A f : f \in PendingAll <=> \E e \in Entry : f \in pending[e]
  BY DEF PendingAll

\* release_ready_source_frames: each entry's finished frames leave it for their
\* release; when one does, nothing reads any import.
LEMMA LoopStartKeeps == ASSUME IInv, LoopStart PROVE IInv'
  <1> DEFINE S == [e \in Entry |-> IF Finished(e) THEN Given(tex, e) ELSE {}]
             All == UNION {S[e] : e \in Entry}
  <1>1. /\ pc = "top" /\ pc' = "draw" /\ shown' \in BOOLEAN
        /\ acks' = Acked(All) /\ Idle(All)
        /\ pending' = [e \in Entry |-> pending[e] \ S[e]]
        /\ UNCHANGED <<workerVars, ring, tex, spoilt>>
    BY DEF LoopStart
  <1>2. \A e \in Entry : S[e] \subseteq pending[e] /\ (Packed => tex.active \notin S[e])
    BY GivenKept DEF IInv
  <1>3. \A f : f \in All <=> \E e \in Entry : f \in S[e]
    OBVIOUS
  <1> HIDE DEF S, All
  <1>4. /\ All \in SUBSET Frame /\ All \cap Returning = {}
        /\ All \cap (Elems(sent) \cup Elems(ring)) = {}
    BY <1>2, <1>3 DEF IInv, TypeOK, Apart
  <1>5. acks' \in [Frame -> {0, 1}] /\ Returning' = Returning \cup (All \cap conn)
    BY <1>1, <1>4, AckedReturns DEF IInv
  <1>6. \A e \in Entry : pending'[e] = pending[e] \ S[e] /\ pending'[e] = pending[e] \ All
    BY <1>1, <1>2, <1>3 DEF IInv, TypeOK, Apart
  <1>7. PendingAll' = PendingAll \ All
    BY <1>6 DEF PendingAll
  <1>8. busy' \in [Entry -> BOOLEAN] /\ reads' \in [Entry -> Frame \cup {NoFrame}]
    BY <1>1 DEF Idle, IInv, TypeOK
  <1>9. TypeOK'
    BY <1>1, <1>5, <1>8, <1>2 DEF IInv, TypeOK, workerVars
  <1>10. Apart'
    BY <1>1, <1>4, <1>5, <1>6 DEF IInv, Apart, workerVars
  <1>11. Placed'
    BY <1>1, <1>5, <1>7 DEF IInv, Placed, workerVars
  <1>12. Sampled'
    <2>1. Packed => tex.active \notin All
      BY <1>2, <1>3
    <2>2. Packed /\ All # {} => \A e \in Entry : reads'[e] = NoFrame
      BY <1>1 DEF Idle
    <2>3. All = {} => reads' = reads
      BY <1>1 DEF Idle
    <2> QED
      BY <1>1, <1>7, <2>1, <2>2, <2>3 DEF IInv, Sampled
  <1> QED
    BY <1>9, <1>10, <1>11, <1>12 DEF IInv

\* An upload takes the ring's oldest frame, or none, and either the texture
\* becomes that frame's or the frame is to be released.
LEMMA UploadTakes ==
    ASSUME IInv, NEW u \in Uploads
    PROVE  /\ u.held \cup u.gone \in SUBSET Elems(ring) /\ u.held \cap u.gone = {}
           /\ u.ring \in Seq(Frame) /\ Len(u.ring) <= RingSize /\ Once(u.ring)
           /\ Elems(u.ring) = Elems(ring) \ (u.held \cup u.gone)
           /\ u.ring = ring => u.held \cup u.gone = {}
           /\ u.tex \in [active : Frame \cup {NoFrame}, bound : BOOLEAN]
           /\ (u.tex.active = tex.active /\ u.held = {}) \/ u.held = {u.tex.active}
  <1>1. CASE ~shown \/ ring = <<>>
    <2>1. u = [held |-> {}, gone |-> {}, tex |-> tex, ring |-> ring]
      BY <1>1 DEF Uploads
    <2> QED
      BY <2>1 DEF IInv, TypeOK, Apart
  <1>2. CASE ~(~shown \/ ring = <<>>)
    <2> DEFINE h == Head(ring)
               r == Tail(ring)
    <2>1. /\ h \in Elems(ring) /\ r \in Seq(Frame) /\ Len(r) = Len(ring) - 1
          /\ Once(r) /\ Elems(r) = Elems(ring) \ {h} /\ Len(ring) \in Nat
          /\ h \in Frame
      BY <1>2, TailTakes, ElemsFrames DEF IInv, TypeOK, Apart
    <2>2. \/ u = [held |-> {h}, gone |-> {}, ring |-> r, tex |-> Imported(h)]
          \/ \E t \in ImportFails : u = [held |-> {}, gone |-> {h}, ring |-> r, tex |-> t]
      BY <1>2 DEF Uploads
    <2>3. /\ Imported(h) \in [active : Frame \cup {NoFrame}, bound : BOOLEAN]
          /\ Imported(h).active = h
      BY <2>1 DEF Imported
    <2>4. \A t \in ImportFails : /\ t \in [active : Frame \cup {NoFrame}, bound : BOOLEAN]
                                 /\ t.active = tex.active
      BY DEF ImportFails, IInv, TypeOK
    <2> HIDE DEF h, r
    <2>5. r # ring
      BY <2>1
    <2>6. Len(r) <= RingSize
      BY <2>1, RingAssumption DEF IInv, TypeOK
    <2>7. CASE u = [held |-> {h}, gone |-> {}, ring |-> r, tex |-> Imported(h)]
      BY <2>1, <2>3, <2>5, <2>6, <2>7
    <2>8. CASE \E t \in ImportFails : u = [held |-> {}, gone |-> {h}, ring |-> r, tex |-> t]
      BY <2>1, <2>4, <2>5, <2>6, <2>8
    <2> QED
      BY <2>2, <2>7, <2>8
  <1> QED
    BY <1>1, <1>2

\* A draw hands the frame it took to the canvas entry it rendered into, or
\* releases it; and the entry gives up what it had, except the texture's frame.
LEMMA DrawKeeps == ASSUME IInv, Draw PROVE IInv'
  <1>1. PICK u \in Uploads :
           /\ ring' = u.ring /\ tex' = u.tex
           /\ (\E e \in Entry : Render(u, e)) \/ RenderFails(u) \/ Repeat(u)
    BY DEF Draw
  <1>2. /\ pc = "draw" /\ pc' = "top" /\ UNCHANGED <<workerVars, shown>>
    BY DEF Draw
  <1> DEFINE T == u.held \cup u.gone
  <1>3. /\ T \in SUBSET Elems(ring) /\ u.held \cap u.gone = {}
        /\ u.ring \in Seq(Frame) /\ Len(u.ring) <= RingSize /\ Once(u.ring)
        /\ Elems(u.ring) = Elems(ring) \ T
        /\ u.ring = ring => T = {}
        /\ u.tex \in [active : Frame \cup {NoFrame}, bound : BOOLEAN]
        /\ (u.tex.active = tex.active /\ u.held = {}) \/ u.held = {u.tex.active}
    BY UploadTakes
  <1>4. /\ u.held \in SUBSET Elems(ring) /\ u.gone \in SUBSET Elems(ring)
        /\ Elems(ring) \subseteq Frame
        /\ Elems(ring) \cap (Elems(sent) \cup Returning \cup PendingAll) = {}
    BY <1>3, ElemsFrames DEF IInv, TypeOK, Apart, PendingAll
  <1>5. CASE \E e \in Entry : Render(u, e)
    <2>1. PICK e \in Entry : Render(u, e)
      BY <1>5
    <2> DEFINE S == Given(u.tex, e)
    <2>2. /\ acks' = Acked(u.gone \cup S) /\ spoilt' = spoilt
          /\ pending' = [pending EXCEPT ![e] = (@ \ S) \cup u.held]
          /\ IF Packed /\ S # {}
             THEN Idle(S)
             ELSE /\ busy' = [busy EXCEPT ![e] = TRUE]
                  /\ reads' = [reads EXCEPT ![e] =
                         IF shown /\ u.tex.bound THEN u.tex.active ELSE NoFrame]
      BY <2>1 DEF Render
    <2>3. S \subseteq pending[e] /\ (Packed => u.tex.active \notin S)
      BY GivenKept DEF IInv
    <2> HIDE DEF S
    <2>4. /\ pending[e] \subseteq Frame /\ pending[e] \subseteq PendingAll
          /\ S \cap (Elems(sent) \cup Elems(ring) \cup Returning) = {}
      BY <2>3 DEF IInv, TypeOK, Apart, PendingAll
    <2>5. u.gone \cup S \in SUBSET Frame /\ (u.gone \cup S) \cap Returning = {}
      BY <1>4, <2>3, <2>4
    <2>6. acks' \in [Frame -> {0, 1}] /\ Returning' = Returning \cup ((u.gone \cup S) \cap conn)
      BY <2>2, <2>5, AckedReturns DEF IInv
    <2>7. /\ pending'[e] = (pending[e] \ S) \cup u.held
          /\ \A d \in Entry \ {e} : pending'[d] = pending[d]
          /\ pending' \in [Entry -> SUBSET Frame]
      BY <2>2, <2>4, <1>4 DEF IInv, TypeOK
    <2>8. PendingAll' = (PendingAll \ S) \cup u.held
      <3>1. \A d \in Entry \ {e} : pending[d] \cap S = {}
        BY <2>3 DEF IInv, Apart
      <3> QED
        BY <2>7, <3>1 DEF PendingAll
    <2>9. busy' \in [Entry -> BOOLEAN] /\ reads' \in [Entry -> Frame \cup {NoFrame}]
      BY <2>2, <1>3 DEF Idle, IInv, TypeOK
    <2>10. TypeOK'
      BY <1>1, <1>2, <1>3, <2>2, <2>6, <2>7, <2>9 DEF IInv, TypeOK, workerVars
    <2>11. Apart'
      <3>1. /\ sent' = sent /\ Elems(ring') = Elems(ring) \ T /\ Once(ring')
        BY <1>1, <1>2, <1>3 DEF workerVars
      <3>2. /\ Once(sent') /\ Elems(sent') \cap Elems(ring') = {}
            /\ Returning' \cap (Elems(sent') \cup Elems(ring')) = {}
        BY <3>1, <2>4, <2>6, <1>4 DEF IInv, Apart
      <3>3. \A d \in Entry :
               pending'[d] \cap (Elems(sent') \cup Elems(ring') \cup Returning') = {}
        <4>1. \A d \in Entry : pending[d] \cap (u.held \cup u.gone) = {}
          BY <1>4 DEF PendingAll
        <4>2. \A d \in Entry \ {e} : pending[d] \cap S = {}
          BY <2>3 DEF IInv, Apart
        <4> QED
          BY <3>1, <2>3, <2>6, <2>7, <1>3, <1>4, <4>1, <4>2 DEF IInv, Apart
      <3>4. \A d \in Entry : \A c \in Entry \ {d} : pending'[d] \cap pending'[c] = {}
        BY <2>7, <1>4 DEF IInv, Apart, PendingAll
      <3> QED
        BY <3>1, <3>2, <3>3, <3>4 DEF Apart
    <2>12. Placed'
      BY <1>1, <1>2, <1>3, <2>6, <2>8 DEF IInv, Placed, workerVars
    <2>13. Sampled'
      <3> SUFFICES ASSUME Packed PROVE Sampled'
        BY DEF Sampled
      <3>1. tex'.active # NoFrame => tex'.active \in PendingAll' \cup spoilt'
        BY <1>1, <1>2, <1>3, <2>2, <2>3, <2>8 DEF IInv, Sampled
      <3>2. ASSUME NEW d \in Entry, reads'[d] # NoFrame
            PROVE  reads'[d] \in PendingAll' \cup spoilt'
        <4>1. S = {}
          BY <2>2, <3>2 DEF Idle
        <4>2. reads'[d] = reads[d] \/ reads'[d] = tex'.active
          BY <2>2, <4>1, <3>2, <1>1 DEF IInv, TypeOK
        <4> QED
          BY <3>1, <3>2, <4>1, <4>2, <2>2, <2>8 DEF IInv, Sampled
      <3> QED
        BY <3>1, <3>2 DEF Sampled
    <2> QED
      BY <2>10, <2>11, <2>12, <2>13 DEF IInv
  <1>6. CASE RenderFails(u) \/ Repeat(u)
    <2>1. /\ UNCHANGED <<pending, busy, reads>>
          /\ spoilt' = spoilt \cup u.held
          /\ acks' = Acked(T)
      <3>1. CASE RenderFails(u)
        <4>1. T = u.gone \cup u.held
          OBVIOUS
        <4> QED
          BY <3>1, <4>1 DEF RenderFails
      <3>2. CASE Repeat(u)
        <4>1. T = {} /\ u.held = {}
          BY <3>2, <1>3 DEF Repeat
        <4>2. acks = Acked({})
          BY DEF Acked, IInv, TypeOK
        <4> QED
          BY <3>2, <4>1, <4>2 DEF Repeat
      <3> QED
        BY <1>6, <3>1, <3>2
    <2> HIDE DEF T
    <2>2. T \in SUBSET Frame /\ T \cap Returning = {}
      BY <1>3, <1>4
    <2>3. acks' \in [Frame -> {0, 1}] /\ Returning' = Returning \cup (T \cap conn)
      BY <2>1, <2>2, AckedReturns DEF IInv
    <2>4. PendingAll' = PendingAll /\ Elems(ring') = Elems(ring) \ T /\ Once(ring')
      BY <1>1, <1>3, <2>1 DEF PendingAll
    <2>5. TypeOK'
      BY <1>1, <1>2, <1>3, <1>4, <2>1, <2>3 DEF IInv, TypeOK, workerVars
    <2>6. Apart'
      <3>1. \A d \in Entry : pending[d] \cap T = {}
        BY <1>3, <1>4 DEF PendingAll
      <3> QED
        BY <1>2, <1>3, <1>4, <2>1, <2>3, <2>4, <3>1 DEF IInv, Apart, workerVars
    <2>7. Placed'
      BY <1>2, <2>3, <2>4 DEF IInv, Placed, workerVars
    <2>8. Sampled'
      BY <1>1, <1>2, <1>3, <2>1, <2>4 DEF IInv, Sampled
    <2> QED
      BY <2>5, <2>6, <2>7, <2>8 DEF IInv
  <1> QED
    BY <1>1, <1>5, <1>6

\* Another source takes the texture over, a render finishes, the thread ends:
\* no render samples an import that is dropped here.
LEMMA TextureReassignedKeeps == ASSUME IInv, TextureReassigned PROVE IInv'
  <1>1. Returning' = Returning /\ PendingAll' = PendingAll
    BY DEF TextureReassigned, Returning, PendingAll
  <1> QED
    BY <1>1 DEF IInv, TypeOK, Apart, Placed, Sampled, TextureReassigned, workerVars

\* The end of a render on the GPU only forgets what the render read.
LEMMA GpuDoneKeeps == ASSUME IInv, NEW e \in Entry, GpuDone(e) PROVE IInv'
  <1>1. Returning' = Returning /\ PendingAll' = PendingAll
    BY DEF GpuDone, Returning, PendingAll
  <1>2. reads' \in [Entry -> Frame \cup {NoFrame}] /\ busy' \in [Entry -> BOOLEAN]
    BY DEF GpuDone, IInv, TypeOK
  <1>3. \A d \in Entry : reads'[d] \in {reads[d], NoFrame}
    BY DEF GpuDone, IInv, TypeOK
  <1> QED
    BY <1>1, <1>2, <1>3 DEF IInv, TypeOK, Apart, Placed, Sampled, GpuDone, workerVars

\* The compositor thread releases every frame it still holds when it ends.
LEMMA ExitKeeps == ASSUME IInv, Exit PROVE IInv'
  <1>1. /\ acks' = Acked(PendingAll) /\ Idle(PendingAll) /\ pc' = "done"
        /\ pending' = [e \in Entry |-> {}]
        /\ UNCHANGED <<workerVars, ring, shown, tex, spoilt>>
    BY DEF Exit
  <1>2. PendingAll \in SUBSET Frame /\ PendingAll \cap Returning = {}
    BY DEF IInv, TypeOK, Apart, PendingAll
  <1>3. acks' \in [Frame -> {0, 1}] /\ Returning' = Returning \cup (PendingAll \cap conn)
    BY <1>1, <1>2, AckedReturns DEF IInv
  <1>4. PendingAll' = {} /\ \A e \in Entry : pending'[e] = {}
    BY <1>1 DEF PendingAll
  <1>5. busy' \in [Entry -> BOOLEAN] /\ reads' \in [Entry -> Frame \cup {NoFrame}]
    BY <1>1 DEF Idle, IInv, TypeOK
  <1>6. TypeOK'
    BY <1>1, <1>3, <1>5 DEF IInv, TypeOK, workerVars
  <1>7. Apart'
    BY <1>1, <1>3, <1>4 DEF IInv, Apart, PendingAll, workerVars
  <1>8. Placed'
    BY <1>1, <1>3 DEF IInv, Placed, workerVars
  <1>9. Sampled'
    <2>1. Packed /\ PendingAll # {} => \A e \in Entry : reads'[e] = NoFrame
      BY <1>1 DEF Idle
    <2>2. PendingAll = {} => reads' = reads
      BY <1>1 DEF Idle
    <2> QED
      BY <1>1, <1>4, <2>1, <2>2 DEF IInv, Sampled
  <1> QED
    BY <1>6, <1>7, <1>8, <1>9 DEF IInv

-----------------------------------------------------------------------------
(* The theorems.                                                           *)

\* Every step of the worker, the main loop, the compositor thread and the GPU
\* keeps the invariant.
LEMMA NextIInv == IInv /\ [Next]_vars => IInv'
  <1> SUFFICES ASSUME IInv, [Next]_vars PROVE IInv'
    OBVIOUS
  <1>1. CASE UNCHANGED vars
    <2>1. Returning' = Returning /\ PendingAll' = PendingAll
      BY <1>1 DEF Returning, PendingAll, vars, workerVars, compVars
    <2> QED
      BY <1>1, <2>1
         DEF IInv, TypeOK, Apart, Placed, Sampled, vars, workerVars, compVars
  <1> QED
    BY <1>1, WorkerKeeps, ReceiveKeeps, FlushKeeps, LoopStartKeeps, DrawKeeps,
       TextureReassignedKeeps, ExitKeeps, GpuDoneKeeps DEF Next

\* The invariant holds in every state.
LEMMA Invariance == Spec => []IInv
  BY InitIInv, NextIInv, PTL DEF Spec

\* The values of the variables are what their comments say; no frame has more
\* than one release under way, and neither the socket nor the slot ring holds
\* more than it has room for.
THEOREM TypesCorrect == Spec => []TypeOK
  <1>1. IInv => TypeOK
    BY DEF IInv
  <1> QED
    BY <1>1, Invariance, PTL

\* How often a list without repetitions has a frame.
LEMMA CountOnce ==
    ASSUME NEW s \in Seq(Frame), Once(s), NEW f
    PROVE  Count(f, s) = IF f \in Elems(s) THEN 1 ELSE 0
  <1>1. DOMAIN s = 1 .. Len(s)
    OBVIOUS
  <1>2. CASE f \in Elems(s)
    <2>1. PICK i \in 1 .. Len(s) : s[i] = f
      BY <1>1, <1>2 DEF Elems
    <2>2. {j \in DOMAIN s : s[j] = f} = {i}
      BY <1>1, <2>1 DEF Once
    <2> QED
      BY <1>2, <2>2, FS_Singleton DEF Count
  <1>3. CASE f \notin Elems(s)
    <2>1. {j \in DOMAIN s : s[j] = f} = {}
      BY <1>1, <1>3 DEF Elems
    <2> QED
      BY <1>3, <2>1, FS_EmptySet DEF Count
  <1> QED
    BY <1>2, <1>3

\* How many entries a frame is attached to.
LEMMA AttachedOnce ==
    ASSUME Apart, NEW f
    PROVE  Cardinality({e \in Entry : f \in pending[e]})
               = IF f \in PendingAll THEN 1 ELSE 0
  <1>1. CASE f \in PendingAll
    <2>1. PICK e \in Entry : f \in pending[e]
      BY <1>1 DEF PendingAll
    <2>2. {d \in Entry : f \in pending[d]} = {e}
      BY <2>1 DEF Apart
    <2> QED
      BY <1>1, <2>2, FS_Singleton
  <1>2. CASE f \notin PendingAll
    <2>1. {d \in Entry : f \in pending[d]} = {}
      BY <1>2 DEF PendingAll
    <2> QED
      BY <1>2, <2>1, FS_EmptySet
  <1> QED
    BY <1>1, <1>2

\* Whoever takes a frame out (a full ring, a flush, a muted source, a failed
\* upload or render, a finished render, the thread's end) releases it exactly
\* once: a leased frame has one owner or one release under way.
THEOREM ReleasedCorrect == Spec => []ReleasedOnce
  <1>1. IInv => ReleasedOnce
    <2> SUFFICES ASSUME IInv, NEW f \in Frame
                 PROVE  Places(f) <= 1 /\ (f \in leases => Places(f) = 1)
      BY DEF ReleasedOnce
    <2>1. Count(f, sent) = IF f \in Elems(sent) THEN 1 ELSE 0
      BY CountOnce DEF IInv, TypeOK, Apart
    <2>2. Count(f, ring) = IF f \in Elems(ring) THEN 1 ELSE 0
      BY CountOnce DEF IInv, TypeOK, Apart
    <2>3. acks[f] = IF f \in Returning THEN 1 ELSE 0
      BY DEF IInv, TypeOK, Returning
    <2>4. Cardinality({e \in Entry : f \in pending[e]}) = IF f \in PendingAll THEN 1 ELSE 0
      BY AttachedOnce DEF IInv
    <2>5. /\ ~(f \in Elems(sent) /\ f \in Elems(ring))
          /\ f \in Returning => f \notin Elems(sent) /\ f \notin Elems(ring)
          /\ f \in PendingAll =>
                f \notin Elems(sent) /\ f \notin Elems(ring) /\ f \notin Returning
      BY DEF IInv, Apart, PendingAll
    <2>6. f \in leases =>
             f \in Elems(sent) \/ f \in Elems(ring) \/ f \in Returning \/ f \in PendingAll
      BY DEF IInv, Placed
    <2> QED
      BY <2>1, <2>2, <2>3, <2>4, <2>5, <2>6 DEF Places
  <1> QED
    BY <1>1, Invariance, PTL

\* A packed frame that an unfinished render samples has not been released,
\* however renders and new frames overlap, unless it was released because its
\* own render failed.
THEOREM SampledCorrect == Spec => []SampledHeld
  <1>1. IInv => SampledHeld
    BY DEF IInv, Sampled, SampledHeld
  <1> QED
    BY <1>1, Invariance, PTL
=============================================================================
