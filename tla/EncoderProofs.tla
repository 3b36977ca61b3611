---------------------------- MODULE EncoderProofs ----------------------------
(***************************************************************************)
(* Proofs about Encoder, for any outputs, callers and number of API calls: *)
(* no thread goes on with a session that is gone, and every stream resumes *)
(* at a keyframe.                                                          *)
(*                                                                         *)
(* The invariant follows an API call through its steps: who holds the lock *)
(* (Locks), which output the call works on and which ones an update has    *)
(* still to take off and put on again (Calls), which of a session's threads*)
(* a step has already joined (Stages), whose memory is there (Living), and *)
(* that the gate in front of the muxer is closed after every gap, unless   *)
(* the picture that reopens it is on its way (Gated).                      *)
(***************************************************************************)
EXTENDS Encoder, FiniteSetTheorems, TLAPS

Session ==
    [live : BOOLEAN, ready : BOOLEAN, sending : BOOLEAN, feeding : BOOLEAN,
     clients : SUBSET Caller, count : Nat, drop : BOOLEAN, base : BOOLEAN,
     video : BOOLEAN, audio : BOOLEAN, cover : BOOLEAN, ts : BOOLEAN,
     gap : {"no", "passed", "flushed"}, broken : BOOLEAN]

\* A reset keeps a session's type.
LEMMA ResetType == ASSUME NEW s \in Session PROVE Reset(s) \in Session
<1>1. s.gap \in {"no", "passed", "flushed"} BY DEF Session
<1>2. (IF s.video THEN "passed" ELSE s.gap) \in {"no", "passed", "flushed"} BY <1>1
<1> DEFINE g == IF s.video THEN "passed" ELSE s.gap
<1>3. Reset(s) = [s EXCEPT !.video = FALSE, !.audio = FALSE, !.cover = FALSE, !.gap = g]
    BY DEF Reset, Session
<1> HIDE DEF g
<1> QED BY <1>2, <1>3 DEF g, Session

\* The steps in which a call has a session in hand, and those that end it.
Stopping == {"stop", "joinFeeder", "stopSender", "joinAccept", "stopPipeline", "stopped"}
Working == Stopping \cup {"session"}

TypeOK ==
    /\ active \in BOOLEAN /\ force \in BOOLEAN
    /\ branches \subseteq Output /\ audioTo \subseteq Srt
    /\ ses \in [Srt -> Session]
    /\ acceptor \in [Srt -> [pc : {"off", "accept", "count", "gate", "lock"}, n : Nat]]
    /\ feeder \in [Srt -> {"off", "run", "push"}]
    /\ streamer \in [Srt -> [pc : {"idle", "count", "flush", "reset"}, n : Nat]]
    /\ enc \in [pc : {"idle", "next", "queue"}, key : BOOLEAN,
                cur : Srt \cup {None}, todo : SUBSET Srt]
    /\ api \in [pc : {"idle", "add", "added", "next", "removed"} \cup Working,
                op : {"none", "add", "remove", "update"},
                cur : Output \cup {None}, stop : SUBSET Output, again : SUBSET Output]
    /\ lock \in {"none", "api", "enc"}

\* Who holds the lock; the encoder thread holds it for a whole packet, so that
\* no output goes away under its hands.
Locks ==
    /\ lock = "api" <=> api.pc # "idle"
    /\ lock = "enc" <=> enc.pc # "idle"
    /\ enc.pc = "idle" => enc.todo = {}
    /\ enc.todo \subseteq branches
    /\ enc.pc = "queue" => enc.cur \in branches \cap Srt

\* An update takes every output off while the encoder is closed, and puts them
\* on again once it is open.
Calls ==
    /\ api.op # "update" => api.stop = {} /\ api.again = {}
    /\ api.pc = "next" => api.op = "update"
    /\ api.pc \in {"idle", "removed"} => api.op # "update"
    /\ api.pc \in {"add", "session"} =>
           /\ api.cur \in Output \ (branches \cup api.again)
           /\ api.op = "update" => active
    /\ api.pc \in Stopping =>
           /\ api.cur \in Output
           /\ api.op = "update" /\ ~ active => api.cur \in branches \ api.stop
           /\ api.op # "update" \/ active => api.cur \notin branches \cup api.again
    /\ api.pc \in Working \ {"stop", "stopped"} => api.cur \in Srt
    /\ api.op = "update" /\ active => api.stop = {} /\ api.again \cap branches = {}
    /\ api.op = "update" /\ ~ active => api.stop \subseteq branches
    /\ api.pc = "added" /\ api.op = "update" /\ ~ active => api.again = {}

\* None of a session's threads runs, and nothing will wake the streamer.
Quiet(o) ==
    /\ acceptor[o].pc = "off" /\ feeder[o] = "off"
    /\ streamer[o].pc = "idle" /\ ~ ses[o].ts

\* The threads a call has joined so far.
Stages ==
    /\ api.cur \in Srt =>
           /\ api.pc \in Working \ {"stop", "joinFeeder"} => feeder[api.cur] = "off"
           /\ api.pc \in {"stopPipeline", "stopped"} => acceptor[api.cur].pc = "off"
           /\ api.pc = "stopped" => Quiet(api.cur)
           /\ api.pc = "session" => ~ ses[api.cur].base
           /\ api.pc = "joinFeeder" => ~ ses[api.cur].feeding
    /\ api.op = "update" /\ ~ active /\ api.pc \in Stopping \cup {"next"} =>
           \A o \in (branches \cap Srt) \ api.stop :
               Quiet(o) \/ (o = api.cur /\ api.pc \in Stopping)

Running(o) == acceptor[o].pc # "off" \/ feeder[o] # "off" \/ streamer[o].pc # "idle"

\* Whose memory is there.
Living(o) ==
    /\ ses[o].live <=> o \in branches \/ (o = api.cur /\ api.pc \in Working)
    /\ Running(o) => ses[o].live
    /\ o \in audioTo => o \in branches

\* After a gap the gate is closed, or a keyframe is about to be queued.
Gated(o) ==
    /\ ~ ses[o].broken
    /\ ses[o].base /\ ses[o].feeding /\ ses[o].gap = "passed" =>
           /\ enc.pc = "queue" /\ enc.cur = o => enc.key
           /\ (enc.pc = "queue" /\ enc.cur = o) \/ ses[o].drop

Sessions == \A o \in Srt : Living(o) /\ Gated(o)

IInv == TypeOK /\ Locks /\ Calls /\ Stages /\ Sessions

-----------------------------------------------------------------------------
(* The threads of a session.                                               *)

\* What a thread of session o may do: it works on its own session and its own
\* place, reopens no gate, and starts nothing that was joined.
ThreadOf(o) ==
    /\ UNCHANGED <<active, branches, audioTo, enc, api, lock>>
    /\ force' \in BOOLEAN
    /\ \A q \in Srt \ {o} : /\ ses'[q] = ses[q] /\ acceptor'[q] = acceptor[q]
                            /\ feeder'[q] = feeder[q] /\ streamer'[q] = streamer[q]
    /\ ses'[o].live = ses[o].live /\ ses'[o].broken = ses[o].broken
    /\ ses'[o].feeding = ses[o].feeding
    /\ ses'[o].base /\ ses'[o].gap = "passed" => ses[o].gap = "passed"
    /\ ses[o].drop => ses'[o].drop
    /\ ses'[o].base => ses[o].base
    /\ ses'[o].ts => ses[o].ts \/ feeder[o] # "off"
    /\ acceptor[o].pc = "off" => acceptor'[o].pc = "off"
    /\ feeder[o] = "off" => feeder'[o] = "off"
    /\ streamer'[o].pc = "idle" \/ streamer[o].pc # "idle" \/ (ses[o].ts /\ ses[o].live)

\* What becomes of its session, its acceptor and its streamer.
WorkedOn(o, s) ==
    /\ ses' = [ses EXCEPT ![o] = s]
    /\ s.live = ses[o].live /\ s.broken = ses[o].broken
    /\ s.feeding = ses[o].feeding
    /\ s.base /\ s.gap = "passed" => ses[o].gap = "passed"
    /\ ses[o].drop => s.drop
    /\ s.base => ses[o].base
    /\ s.ts => ses[o].ts \/ feeder[o] # "off"
AcceptorType == [pc : {"off", "accept", "count", "gate", "lock"}, n : Nat]
Accepts(o, a) ==
    acceptor' = [acceptor EXCEPT ![o] = a] /\ (acceptor[o].pc = "off" => a.pc = "off")
StreamerType == [pc : {"idle", "count", "flush", "reset"}, n : Nat]
Streams(o, t) ==
    /\ streamer' = [streamer EXCEPT ![o] = t]
    /\ t.pc = "idle" \/ streamer[o].pc # "idle" \/ (ses[o].ts /\ ses[o].live)

\* Such a step keeps the invariant.
LEMMA ThreadStep ==
    ASSUME IInv, NEW o \in Srt, ThreadOf(o), TypeOK'
    PROVE  IInv'
<1> USE DEF IInv
<1>1. Locks' /\ Calls'
    BY DEF ThreadOf, Locks, Calls
<1>2. \A q \in Srt : Quiet(q) => Quiet(q)'
    BY DEF ThreadOf, Quiet
<1>3. Stages'
    <2>1. \A q \in Srt : feeder[q] = "off" => feeder'[q] = "off"
        BY DEF ThreadOf
    <2>2. \A q \in Srt : acceptor[q].pc = "off" => acceptor'[q].pc = "off"
        BY DEF ThreadOf
    <2>3. \A q \in Srt : ~ ses[q].base => ~ ses'[q].base
        BY DEF ThreadOf
    <2>4. UNCHANGED <<api, branches, active>> BY DEF ThreadOf
    <2>5. \A q \in Srt : ses'[q].feeding = ses[q].feeding
        BY DEF ThreadOf
    <2> HIDE DEF IInv
    <2> QED BY <1>2, <2>1, <2>2, <2>3, <2>4, <2>5 DEF IInv, Stages
<1>4. \A q \in Srt : Living(q)'
    BY DEF ThreadOf, Sessions, Living, Running
<1>5. ASSUME NEW q \in Srt PROVE Gated(q)'
    <2>1. Gated(q) /\ enc' = enc BY DEF Sessions, ThreadOf
    <2>2. CASE q = o BY <2>1, <2>2 DEF ThreadOf, Gated
    <2>3. CASE q # o BY <2>1, <2>3 DEF ThreadOf, Gated
    <2> QED BY <2>2, <2>3
<1> QED BY <1>1, <1>3, <1>4, <1>5 DEF Sessions

\* The acceptor.
LEMMA AcceptorStep ==
    ASSUME IInv, NEW o \in Srt,
           (\E c \in Caller : AcceptCaller(o, c)) \/ Acceptor(o)
    PROVE  IInv'
<1> USE DEF IInv
<1>0. UNCHANGED <<active, branches, audioTo, feeder, streamer, enc, api, lock>>
    BY DEF AcceptCaller, Acceptor, CallerConnected, CloseGate, ScheduleKeyframe, AcceptorEnds
<1>1. ses[o] \in Session /\ acceptor[o].n \in Nat BY DEF TypeOK
<1>2. PICK s \in Session : WorkedOn(o, s)
    <2>1. ASSUME NEW c \in Caller, AcceptCaller(o, c) PROVE \E s \in Session : WorkedOn(o, s)
        <3> DEFINE s == [ses[o] EXCEPT !.clients = @ \cup {c}]
        <3>1. s \in Session BY <1>1 DEF Session
        <3>2. ses' = [ses EXCEPT ![o] = s] BY <2>1 DEF AcceptCaller
        <3>4. WorkedOn(o, s) BY <1>1, <3>1, <3>2 DEF WorkedOn, Session
        <3> HIDE DEF s
        <3> QED BY <3>1, <3>4
    <2>2. CASE CallerConnected(o)
        <3> DEFINE s == [ses[o] EXCEPT !.count = acceptor[o].n]
        <3>1. s \in Session BY <1>1 DEF Session
        <3>2. ses' = [ses EXCEPT ![o] = s] BY <2>2 DEF CallerConnected
        <3>4. WorkedOn(o, s) BY <1>1, <3>1, <3>2 DEF WorkedOn, Session
        <3> HIDE DEF s
        <3> QED BY <3>1, <3>4
    <2>3. CASE CloseGate(o)
        <3> DEFINE s == [ses[o] EXCEPT !.drop = TRUE]
        <3>1. s \in Session BY <1>1 DEF Session
        <3>2. ses' = [ses EXCEPT ![o] = s] BY <2>3 DEF CloseGate
        <3>4. WorkedOn(o, s) BY <1>1, <3>1, <3>2 DEF WorkedOn, Session
        <3> HIDE DEF s
        <3> QED BY <3>1, <3>4
    <2>4. CASE ScheduleKeyframe(o) \/ AcceptorEnds(o)
        <3>1. ses' = [ses EXCEPT ![o] = ses[o]]
            BY <2>4 DEF ScheduleKeyframe, AcceptorEnds, TypeOK
        <3> QED BY <1>1, <3>1 DEF WorkedOn
    <2> QED BY <2>1, <2>2, <2>3, <2>4 DEF Acceptor
<1>3. PICK a \in AcceptorType : Accepts(o, a)
    <2>1. ASSUME NEW c \in Caller, AcceptCaller(o, c) PROVE \E a \in AcceptorType : Accepts(o, a)
        <3> DEFINE n == Cardinality(ses[o].clients \cup {c})
        <3>1. n \in Nat
            <4>1. ses[o].clients \cup {c} \in SUBSET Caller BY <1>1 DEF Session
            <4>2. IsFiniteSet(ses[o].clients \cup {c}) BY <4>1, OpsAssumption, FS_Subset
            <4> QED BY <4>2, FS_CardinalityType
        <3>2. acceptor' = [acceptor EXCEPT ![o] = [pc |-> "count", n |-> n]]
                  /\ acceptor[o].pc = "accept"
            BY <2>1 DEF AcceptCaller
        <3> HIDE DEF n
        <3>3. [pc |-> "count", n |-> n] \in AcceptorType BY <3>1 DEF AcceptorType
        <3> QED BY <3>2, <3>3 DEF Accepts
    <2>2. CASE Acceptor(o)
        <3> DEFINE A(pc) == [acceptor[o] EXCEPT !.pc = pc]
        <3>1. \A pc \in {"off", "accept", "count", "gate", "lock"} :
                  /\ A(pc) \in [pc : {"off", "accept", "count", "gate", "lock"}, n : Nat]
                  /\ A(pc).pc = pc
            BY DEF TypeOK
        <3>2. \/ acceptor' = [acceptor EXCEPT ![o] = A("gate")] /\ acceptor[o].pc # "off"
              \/ acceptor' = [acceptor EXCEPT ![o] = A("lock")] /\ acceptor[o].pc # "off"
              \/ acceptor' = [acceptor EXCEPT ![o] = A("accept")] /\ acceptor[o].pc # "off"
              \/ acceptor' = [acceptor EXCEPT ![o] = [pc |-> "off", n |-> 0]]
            BY <2>2 DEF Acceptor, CallerConnected, CloseGate, ScheduleKeyframe, AcceptorEnds
        <3>3. [pc |-> "off", n |-> 0] \in [pc : {"off", "accept", "count", "gate", "lock"}, n : Nat]
            OBVIOUS
        <3> HIDE DEF A
        <3> QED BY <3>1, <3>2, <3>3 DEF Accepts, AcceptorType
    <2> QED BY <2>1, <2>2
<1>4. force' \in BOOLEAN
    BY DEF AcceptCaller, Acceptor, CallerConnected, CloseGate, ScheduleKeyframe,
           AcceptorEnds, TypeOK
<1>5. ThreadOf(o)
    <2>1. ses'[o] = s /\ acceptor'[o] = a BY <1>2, <1>3 DEF TypeOK, WorkedOn, Accepts, Streams
    <2> QED BY <1>0, <1>2, <1>3, <1>4, <2>1 DEF ThreadOf, TypeOK, WorkedOn, Accepts
<1>6. TypeOK'
    <2>1. ses' \in [Srt -> Session] BY <1>2 DEF TypeOK, WorkedOn
    <2>2. acceptor' \in [Srt -> [pc : {"off", "accept", "count", "gate", "lock"}, n : Nat]]
        BY <1>3 DEF TypeOK, Accepts, AcceptorType, Streams, StreamerType
    <2> QED BY <1>0, <1>4, <2>1, <2>2 DEF TypeOK
<1> QED BY <1>5, <1>6, ThreadStep

\* The feeder.
LEMMA FeederStep ==
    ASSUME IInv, NEW o \in Srt, Feeder(o)
    PROVE  IInv'
<1> USE DEF IInv
<1>0. UNCHANGED <<active, force, branches, audioTo, acceptor, streamer, enc, api, lock>>
    BY DEF Feeder, TakeAudio, TakeVideo, FeedMuxer, FeederEnds
<1>1. ses[o] \in Session BY DEF TypeOK
<1>2. PICK s \in Session : WorkedOn(o, s)
    <2>1. CASE TakeAudio(o)
        <3>1. PICK more \in BOOLEAN :
                  ses' = [ses EXCEPT ![o].audio = more, ![o].cover = TRUE]
            BY <2>1 DEF TakeAudio
        <3> DEFINE s == [ses[o] EXCEPT !.audio = more, !.cover = TRUE]
        <3>2. s \in Session BY <1>1 DEF Session
        <3>3. ses' = [ses EXCEPT ![o] = s] BY <3>1
        <3>4. WorkedOn(o, s) BY <1>1, <3>2, <3>3 DEF WorkedOn, Session
        <3> HIDE DEF s
        <3> QED BY <3>2, <3>4
    <2>2. CASE TakeVideo(o)
        <3>1. PICK more \in BOOLEAN, cover \in BOOLEAN :
                  ses' = [ses EXCEPT ![o].video = more, ![o].cover = cover]
            BY <2>2 DEF TakeVideo
        <3> DEFINE s == [ses[o] EXCEPT !.video = more, !.cover = cover]
        <3>2. s \in Session BY <1>1 DEF Session
        <3>3. ses' = [ses EXCEPT ![o] = s] BY <3>1
        <3>4. WorkedOn(o, s) BY <1>1, <3>2, <3>3 DEF WorkedOn, Session
        <3> HIDE DEF s
        <3> QED BY <3>2, <3>4
    <2>3. CASE FeedMuxer(o)
        <3> DEFINE s == [ses[o] EXCEPT !.ts = TRUE]
        <3>1. s \in Session BY <1>1 DEF Session
        <3>2. ses' = [ses EXCEPT ![o] = s] /\ feeder[o] = "push" BY <2>3 DEF FeedMuxer
        <3>4. WorkedOn(o, s) BY <1>1, <3>1, <3>2 DEF WorkedOn, Session
        <3> HIDE DEF s
        <3> QED BY <3>1, <3>4
    <2>4. CASE FeederEnds(o)
        <3>1. ses' = [ses EXCEPT ![o] = ses[o]] BY <2>4 DEF FeederEnds, TypeOK
        <3> QED BY <1>1, <3>1 DEF WorkedOn
    <2> QED BY <2>1, <2>2, <2>3, <2>4 DEF Feeder
<1>3. PICK f \in {"off", "run", "push"} :
          feeder' = [feeder EXCEPT ![o] = f] /\ (feeder[o] = "off" => f = "off")
    BY DEF Feeder, TakeAudio, TakeVideo, FeedMuxer, FeederEnds
<1>5. ThreadOf(o)
    <2>1. ses'[o] = s /\ feeder'[o] = f BY <1>2, <1>3 DEF TypeOK, WorkedOn, Accepts, Streams
    <2> QED BY <1>0, <1>2, <1>3, <2>1 DEF ThreadOf, TypeOK, WorkedOn, Streams
<1>6. TypeOK'
    <2>1. ses' \in [Srt -> Session] BY <1>2 DEF TypeOK, WorkedOn
    <2>2. feeder' \in [Srt -> {"off", "run", "push"}] BY <1>3 DEF TypeOK
    <2> QED BY <1>0, <2>1, <2>2 DEF TypeOK
<1> QED BY <1>5, <1>6, ThreadStep

\* The streamer.
LEMMA StreamerStep ==
    ASSUME IInv, NEW o \in Srt, Streamer(o)
    PROVE  IInv'
<1> USE DEF IInv
<1>0. UNCHANGED <<active, force, branches, audioTo, acceptor, feeder, enc, api, lock>>
    BY DEF Streamer, SendSample, CallersRemoved, FlushSession, FlushQueues
<1>1. ses[o] \in Session /\ streamer[o] \in [pc : {"idle", "count", "flush", "reset"}, n : Nat]
    BY DEF TypeOK
<1>2. PICK s \in Session : WorkedOn(o, s)
    <2>1. ASSUME NEW lost \in SUBSET Caller, SendSample(o, lost) PROVE \E s \in Session : WorkedOn(o, s)
        <3> DEFINE s == [ses[o] EXCEPT !.ts = FALSE, !.clients = @ \ lost]
        <3>1. s \in Session BY <1>1 DEF Session
        <3>2. ses' = [ses EXCEPT ![o] = s] BY <2>1 DEF SendSample
        <3>4. WorkedOn(o, s) BY <1>1, <3>1, <3>2 DEF WorkedOn, Session
        <3> HIDE DEF s
        <3> QED BY <3>1, <3>4
    <2>2. CASE CallersRemoved(o)
        <3> DEFINE s == [ses[o] EXCEPT !.count = streamer[o].n,
                                       !.drop = @ \/ streamer[o].n = 0]
        <3>1. s \in Session BY <1>1 DEF Session
        <3>2. ses' = [ses EXCEPT ![o] = s] BY <2>2 DEF CallersRemoved
        <3>4. WorkedOn(o, s) BY <1>1, <3>1, <3>2 DEF WorkedOn, Session
        <3> HIDE DEF s
        <3> QED BY <3>1, <3>4
    <2>3. CASE FlushSession(o) /\ ses[o].ready
        <3> DEFINE s == [ses[o] EXCEPT !.base = FALSE]
        <3>1. s \in Session BY <1>1 DEF Session
        <3>2. ses' = [ses EXCEPT ![o] = s] BY <2>3 DEF FlushSession
        <3>4. WorkedOn(o, s) BY <1>1, <3>1, <3>2 DEF WorkedOn, Session
        <3> HIDE DEF s
        <3> QED BY <3>1, <3>4
    <2>5. CASE FlushQueues(o)
        <3> DEFINE s == IF ses[o].base /\ ses[o].video
                        THEN [Reset(ses[o]) EXCEPT !.gap = "flushed"] ELSE Reset(ses[o])
        <3>1. s \in Session BY <1>1, ResetType DEF Session
        <3>2. ses' = [ses EXCEPT ![o] = s] BY <2>5 DEF FlushQueues
        <3>4. WorkedOn(o, s) BY <1>1, <3>1, <3>2 DEF WorkedOn, Session, Reset
        <3> HIDE DEF s
        <3> QED BY <3>1, <3>4
    <2>4. CASE FlushSession(o) /\ ~ ses[o].ready
        <3>1. ses' = [ses EXCEPT ![o] = ses[o]] BY <2>4 DEF FlushSession, TypeOK
        <3> QED BY <1>1, <3>1 DEF WorkedOn
    <2> QED BY <2>1, <2>2, <2>3, <2>4, <2>5 DEF Streamer
<1>3. PICK t \in StreamerType : Streams(o, t)
    <2>1. ASSUME NEW lost \in SUBSET Caller, SendSample(o, lost) PROVE \E t \in StreamerType : Streams(o, t)
        <3> DEFINE n == Cardinality(ses[o].clients \ lost)
        <3>1. n \in Nat
            <4>1. ses[o].clients \ lost \in SUBSET Caller BY <1>1 DEF Session
            <4>2. IsFiniteSet(ses[o].clients \ lost) BY <4>1, OpsAssumption, FS_Subset
            <4> QED BY <4>2, FS_CardinalityType
        <3>2. /\ \/ streamer' = [streamer EXCEPT ![o] = [pc |-> "count", n |-> n]]
                 \/ streamer' = [streamer EXCEPT ![o] = streamer[o]]
              /\ ses[o].ts /\ ses[o].live
            BY <2>1 DEF SendSample, TypeOK
        <3> HIDE DEF n
        <3>3. [pc |-> "count", n |-> n] \in StreamerType BY <3>1 DEF StreamerType
        <3> QED BY <1>1, <3>2, <3>3 DEF Streams, StreamerType
    <2>2. CASE CallersRemoved(o)
        <3> DEFINE t(pc) == [streamer[o] EXCEPT !.pc = pc]
        <3>1. \/ streamer' = [streamer EXCEPT ![o] = t("flush")]
              \/ streamer' = [streamer EXCEPT ![o] = t("idle")]
            BY <2>2 DEF CallersRemoved
        <3>2. streamer[o].pc # "idle" BY <2>2 DEF CallersRemoved
        <3>3. t("flush") \in [pc : {"idle", "count", "flush", "reset"}, n : Nat]
                  /\ t("idle") \in [pc : {"idle", "count", "flush", "reset"}, n : Nat]
            BY <1>1
        <3> HIDE DEF t
        <3> QED BY <3>1, <3>2, <3>3 DEF Streams, StreamerType
    <2>3. CASE FlushSession(o) \/ FlushQueues(o)
        <3> DEFINE t(pc) == [streamer[o] EXCEPT !.pc = pc]
        <3>1. \/ streamer' = [streamer EXCEPT ![o] = t("reset")]
              \/ streamer' = [streamer EXCEPT ![o] = t("idle")]
            BY <2>3 DEF FlushSession, FlushQueues
        <3>2. streamer[o].pc # "idle" BY <2>3 DEF FlushSession, FlushQueues
        <3>3. t("reset") \in StreamerType /\ t("idle") \in StreamerType
            BY <1>1 DEF StreamerType
        <3>4. t("reset").pc = "reset" /\ t("idle").pc = "idle" BY <1>1
        <3> HIDE DEF t
        <3> QED BY <3>1, <3>2, <3>3, <3>4 DEF Streams
    <2> QED BY <2>1, <2>2, <2>3 DEF Streamer
<1>5. ThreadOf(o)
    <2>1. ses'[o] = s /\ streamer'[o] = t BY <1>2, <1>3 DEF TypeOK, WorkedOn, Accepts, Streams
    <2> QED BY <1>0, <1>2, <1>3, <2>1 DEF ThreadOf, TypeOK, WorkedOn, Streams
<1>6. TypeOK'
    <2>1. ses' \in [Srt -> Session] BY <1>2 DEF TypeOK, WorkedOn
    <2>2. streamer' \in [Srt -> [pc : {"idle", "count", "flush", "reset"}, n : Nat]]
        BY <1>3 DEF TypeOK, Accepts, AcceptorType, Streams, StreamerType
    <2> QED BY <1>0, <2>1, <2>2 DEF TypeOK
<1> QED BY <1>5, <1>6, ThreadStep

-----------------------------------------------------------------------------
(* The encoder thread and the audio thread.                                *)

\* A packet's way to the sessions begins with the lock, and with the sessions
\* of the table.
LEMMA FrameStep ==
    ASSUME IInv, (\E key \in BOOLEAN : Frame(key)) \/ FrameWithoutPacket \/ FrameDone
    PROVE  IInv'
<1> USE DEF IInv
<1>1. CASE FrameWithoutPacket
    <2>1. /\ UNCHANGED <<active, branches, audioTo, ses, acceptor, feeder, streamer, enc,
                         api, lock>>
          /\ force' \in BOOLEAN
        BY <1>1 DEF FrameWithoutPacket, Kept, Refused, threads, TypeOK
    <2>2. TypeOK' BY <2>1 DEF TypeOK
    <2>3. Locks' /\ Calls' BY <2>1 DEF Locks, Calls
    <2>4. Stages' BY <2>1 DEF Stages, Quiet
    <2>5. Sessions' BY <2>1 DEF Sessions, Living, Gated, Running
    <2> QED BY <2>2, <2>3, <2>4, <2>5
<1>2. ASSUME NEW key \in BOOLEAN, Frame(key) PROVE IInv'
    <2>1. /\ UNCHANGED <<active, branches, audioTo, ses, acceptor, feeder, streamer, api>>
          /\ lock = "none" /\ lock' = "enc" /\ force' = FALSE
          /\ enc.pc = "idle"
          /\ enc' = [pc |-> "next", key |-> key, cur |-> None, todo |-> branches \cap Srt]
        BY <1>2 DEF Frame, threads
    <2>2. TypeOK' BY <2>1 DEF TypeOK
    <2>3. Locks' /\ Calls' BY <2>1 DEF Locks, Calls
    <2>4. Stages' BY <2>1 DEF Stages, Quiet
    <2>5. Sessions' BY <2>1 DEF Sessions, Living, Gated, Running
    <2> QED BY <2>2, <2>3, <2>4, <2>5
<1>3. CASE FrameDone
    <2>1. /\ UNCHANGED <<active, force, branches, audioTo, ses, acceptor, feeder, streamer,
                         api>>
          /\ lock' = "none" /\ enc.pc = "next"
          /\ enc' = [pc |-> "idle", key |-> FALSE, cur |-> None, todo |-> {}]
        BY <1>3 DEF FrameDone, NoFrame, threads
    <2>2. TypeOK' BY <2>1 DEF TypeOK
    <2>3. Locks' /\ Calls' BY <2>1 DEF Locks, Calls
    <2>4. Stages' BY <2>1 DEF Stages, Quiet
    <2>5. Sessions' BY <2>1 DEF Sessions, Living, Gated, Running
    <2> QED BY <2>2, <2>3, <2>4, <2>5
<1> QED BY <1>1, <1>2, <1>3

\* The gate of a session opens at a keyframe, and only then.
LEMMA PushGateStep ==
    ASSUME IInv, NEW o \in Srt, PushGate(o)
    PROVE  IInv'
<1> USE DEF IInv
<1> DEFINE s == ses[o]
           pass == s.count > 0 /\ (s.drop => enc.key)
           t == IF s.count = 0 THEN [s EXCEPT !.drop = TRUE, !.gap = "passed"]
                ELSE IF s.drop /\ ~ enc.key THEN [s EXCEPT !.gap = "passed"]
                ELSE IF s.drop THEN Reset([s EXCEPT !.base = TRUE, !.drop = FALSE])
                ELSE s
<1>0. /\ UNCHANGED <<active, force, branches, audioTo, acceptor, feeder, streamer, api, lock>>
      /\ enc.pc = "next" /\ o \in enc.todo
      /\ ses' = [ses EXCEPT ![o] = t]
      /\ enc' = [enc EXCEPT !.pc = IF pass THEN "queue" ELSE "next", !.cur = o,
                            !.todo = @ \ {o}]
    BY DEF PushGate, threads
<1>1. s \in Session /\ s.count \in Nat BY DEF TypeOK, Session
<1>2. t \in Session
    <2> HIDE DEF s
    <2>1. [s EXCEPT !.drop = TRUE, !.gap = "passed"] \in Session BY <1>1 DEF Session
    <2>2. [s EXCEPT !.gap = "passed"] \in Session BY <1>1 DEF Session
    <2>3. [s EXCEPT !.base = TRUE, !.drop = FALSE] \in Session BY <1>1 DEF Session
    <2>4. \A r \in Session : Reset(r) \in Session BY ResetType
    <2> QED BY <1>1, <2>1, <2>2, <2>3, <2>4
<1>3. /\ t.live = s.live /\ t.broken = s.broken /\ t.feeding = s.feeding /\ t.ts = s.ts
      /\ s.count = 0 => t.drop
      /\ s.drop /\ ~ enc.key => t.drop
      /\ ~ s.drop => s.count = 0 \/ t = s
    BY <1>1 DEF Session, Reset
<1> HIDE DEF t
<1>4. \A q \in Srt : ses'[q] = IF q = o THEN t ELSE ses[q] BY <1>0 DEF TypeOK
<1>5. /\ enc'.cur = o /\ enc'.key = enc.key /\ enc'.todo = enc.todo \ {o}
      /\ enc'.pc = IF pass THEN "queue" ELSE "next"
    BY <1>0 DEF TypeOK
<1>6. TypeOK'
    <2>1. ses' \in [Srt -> Session] BY <1>0, <1>2 DEF TypeOK
    <2>2. enc' \in [pc : {"idle", "next", "queue"}, key : BOOLEAN,
                    cur : Srt \cup {None}, todo : SUBSET Srt]
        BY <1>0 DEF TypeOK
    <2> QED BY <1>0, <2>1, <2>2 DEF TypeOK
<1>7. lock = "enc" /\ api.pc = "idle" BY <1>0 DEF Locks
<1>8. Locks' /\ Calls' BY <1>0, <1>5 DEF Locks, Calls
<1>9. Stages' BY <1>0, <1>7 DEF Stages, Working, Stopping
<1>10. ASSUME NEW q \in Srt PROVE Living(q)' /\ Gated(q)'
    <2>1. Living(q) /\ Gated(q) BY DEF Sessions
    <2>2. Living(q)' BY <1>0, <1>3, <1>4, <2>1 DEF Living, Running
    <2>3. CASE q = o
        <3>1. ses'[q] = t BY <1>4, <2>3
        <3>2. CASE pass
            <4>1. enc'.pc = "queue" /\ enc'.cur = q BY <1>5, <2>3, <3>2
            <4>2. t.broken = s.broken /\ ~ s.broken BY <1>3, <2>1, <2>3 DEF Gated
            <4>3. t.base /\ t.feeding /\ t.gap = "passed" => enc.key
                <5>1. CASE s.drop BY <3>2, <5>1
                <5>2. CASE ~ s.drop
                    <6>1. t = s BY <1>1, <1>3, <3>2, <5>2
                    <6>2. ~(s.base /\ s.feeding /\ s.gap = "passed") BY <1>0, <2>1, <2>3, <5>2 DEF Gated
                    <6> QED BY <6>1, <6>2
                <5> QED BY <5>1, <5>2
            <4> QED BY <1>5, <2>2, <3>1, <4>1, <4>2, <4>3 DEF Gated
        <3>3. CASE ~ pass
            <4>1. enc'.pc = "next" BY <1>5, <3>3
            <4>2. t.broken = s.broken /\ ~ s.broken BY <1>3, <2>1, <2>3 DEF Gated
            <4>3. t.drop
                BY <1>1, <1>3, <3>3
            <4> QED BY <2>2, <3>1, <4>1, <4>2, <4>3 DEF Gated
        <3> QED BY <3>2, <3>3
    <2>4. CASE q # o
        <3>1. ses'[q] = ses[q] BY <1>4, <2>4
        <3>2. ~(enc'.pc = "queue" /\ enc'.cur = q) /\ ~(enc.pc = "queue")
            BY <1>0, <1>5, <2>4
        <3> QED BY <2>1, <2>2, <3>1, <3>2 DEF Gated
    <2> QED BY <2>2, <2>3, <2>4
<1> QED BY <1>6, <1>8, <1>9, <1>10 DEF Sessions

\* What is queued can be decoded.
LEMMA PushQueueStep ==
    ASSUME IInv, PushQueue
    PROVE  IInv'
<1> USE DEF IInv
<1> DEFINE o == enc.cur
           s == ses[o]
           t == IF ~ s.base THEN [s EXCEPT !.gap = "passed"]
                ELSE IF s.count = 0 THEN [s EXCEPT !.drop = TRUE, !.gap = "passed"]
                ELSE Enqueued(s)
<1>0. /\ UNCHANGED <<active, force, branches, audioTo, acceptor, feeder, streamer, api, lock>>
      /\ enc.pc = "queue" /\ enc' = [enc EXCEPT !.pc = "next"]
      /\ ses' = [ses EXCEPT ![o] = t]
    BY DEF PushQueue, threads
<1>o. o \in Srt /\ enc.cur = o BY <1>0 DEF Locks
<1> HIDE DEF o
<1>1. s \in Session BY <1>o DEF TypeOK
<1>2. enc.key \in BOOLEAN BY DEF TypeOK
<1>3. Living(o) /\ Gated(o) BY <1>o DEF Sessions
<1>4. ~ s.broken /\ (s.base /\ s.feeding /\ s.gap = "passed" => enc.key)
    BY <1>0, <1>o, <1>3 DEF Gated
<1>5. t \in Session /\ t.live = s.live /\ t.ts = s.ts /\ ~ t.broken
          /\ (t.base /\ t.feeding /\ t.gap = "passed" => t.drop)
    <2>1. CASE ~ s.base
        <3>1. t = [s EXCEPT !.gap = "passed"] BY <2>1
        <3> QED BY <1>1, <1>4, <2>1, <3>1 DEF Session
    <2>2. CASE s.base /\ s.count = 0
        <3>1. t = [s EXCEPT !.drop = TRUE, !.gap = "passed"] BY <2>2
        <3> QED BY <1>1, <1>4, <3>1 DEF Session
    <2>3. CASE s.base /\ s.count # 0 /\ ~ s.feeding
        <3>1. t = [s EXCEPT !.gap = "passed"] BY <2>3 DEF Enqueued
        <3> QED BY <1>1, <1>4, <2>3, <3>1 DEF Session
    <2>4. CASE s.base /\ s.count # 0 /\ s.feeding
        <3>1. t = [s EXCEPT !.video = TRUE, !.gap = "no",
                            !.broken = s.broken \/ (s.gap = "passed" /\ ~ enc.key)]
            BY <2>4 DEF Enqueued
        <3>2. (s.broken \/ (s.gap = "passed" /\ ~ enc.key)) = FALSE BY <1>4, <2>4
        <3>3. t = [s EXCEPT !.video = TRUE, !.gap = "no", !.broken = FALSE]
            BY <3>1, <3>2
        <3> QED BY <1>1, <3>3 DEF Session
    <2> QED BY <2>1, <2>2, <2>3, <2>4
<1> HIDE DEF t
<1>6. \A q \in Srt : ses'[q] = IF q = o THEN t ELSE ses[q] BY <1>0, <1>o DEF TypeOK
<1>7. enc'.pc = "next" /\ enc'.todo = enc.todo BY <1>0 DEF TypeOK
<1>8. TypeOK'
    <2>1. ses' \in [Srt -> Session] BY <1>0, <1>5 DEF TypeOK
    <2>2. enc' \in [pc : {"idle", "next", "queue"}, key : BOOLEAN,
                    cur : Srt \cup {None}, todo : SUBSET Srt]
        BY <1>0 DEF TypeOK
    <2> QED BY <1>0, <2>1, <2>2 DEF TypeOK
<1>9. lock = "enc" /\ api.pc = "idle" BY <1>0 DEF Locks
<1>10. Locks' /\ Calls' BY <1>0, <1>7 DEF Locks, Calls
<1>11. Stages' BY <1>0, <1>9 DEF Stages, Working, Stopping
<1>12. ASSUME NEW q \in Srt PROVE Living(q)' /\ Gated(q)'
    <2>1. Living(q) /\ Gated(q) BY DEF Sessions
    <2>2. Living(q)' BY <1>0, <1>5, <1>6, <2>1 DEF Living, Running
    <2>3. CASE q = o
        <3>1. ses'[q] = t BY <1>6, <2>3
        <3> QED BY <1>5, <1>7, <2>2, <3>1 DEF Gated
    <2>4. CASE q # o
        <3>1. ses'[q] = ses[q] BY <1>6, <2>4
        <3> QED BY <1>0, <1>o, <1>7, <2>1, <2>2, <2>4, <3>1 DEF Gated
    <2> QED BY <2>3, <2>4
<1> QED BY <1>8, <1>10, <1>11, <1>12 DEF Sessions

\* Sound only fills the feeder's queue.
LEMMA ConsumeAudioStep ==
    ASSUME IInv, ConsumeAudio
    PROVE  IInv'
<1> USE DEF IInv
<1>0. UNCHANGED <<active, force, branches, audioTo, acceptor, feeder, streamer, enc, api, lock>>
    BY DEF ConsumeAudio, threads
<1>1. \A q \in Srt : ses'[q] \in {ses[q], [ses[q] EXCEPT !.audio = TRUE]}
    BY DEF ConsumeAudio
<1>2. \A q \in Srt : ses[q] \in Session BY DEF TypeOK
<1>3. ASSUME NEW q \in Srt
      PROVE  /\ ses'[q] \in Session
             /\ ses'[q].live = ses[q].live /\ ses'[q].broken = ses[q].broken
             /\ ses'[q].feeding = ses[q].feeding /\ ses'[q].gap = ses[q].gap
             /\ ses'[q].drop = ses[q].drop /\ ses'[q].base = ses[q].base
             /\ ses'[q].ts = ses[q].ts
    <2>1. ses[q] \in Session /\ ses'[q] \in {ses[q], [ses[q] EXCEPT !.audio = TRUE]}
        BY <1>1, <1>2
    <2> QED BY <2>1 DEF Session
<1>4. TypeOK'
    <2>1. ses' \in [Srt -> Session]
        <3>1. ses' = [q \in Srt |-> ses'[q]] BY DEF ConsumeAudio
        <3> QED BY <1>3, <3>1
    <2> QED BY <1>0, <2>1 DEF TypeOK
<1>5. Locks' /\ Calls' BY <1>0 DEF Locks, Calls
<1>6. Stages'
    <2>1. \A q \in Srt : Quiet(q)' <=> Quiet(q) BY <1>0, <1>3 DEF Quiet
    <2>2. api.cur \in Srt => /\ ses'[api.cur].base <=> ses[api.cur].base
                             /\ ses'[api.cur].feeding <=> ses[api.cur].feeding
        BY <1>3
    <2> QED BY <1>0, <2>1, <2>2 DEF Stages
<1>7. Sessions' BY <1>0, <1>3 DEF Sessions, Living, Gated, Running
<1> QED BY <1>4, <1>5, <1>6, <1>7

-----------------------------------------------------------------------------
(* The API calls.                                                          *)

\* Steps of a call that leave the sessions and their threads alone.
LEMMA SessionsStay ==
    ASSUME IInv, enc.pc = "idle", UNCHANGED <<ses, acceptor, feeder, streamer, enc>>,
           \A q \in Srt : /\ (q \in branches' \/ (q = api'.cur /\ api'.pc \in Working))
                                 <=> (q \in branches \/ (q = api.cur /\ api.pc \in Working))
                          /\ q \in audioTo' => q \in branches'
    PROVE  Sessions'
BY DEF IInv, Sessions, Living, Gated, Running

\* A call begins.
LEMMA CallBegins ==
    ASSUME IInv,
           \/ \E o \in Output : AddSink(o) \/ RemoveSink(o)
           \/ UpdateConfig \/ ReconfigureVideo
    PROVE  IInv'
<1> USE DEF IInv
<1>0. /\ UNCHANGED <<ses, acceptor, feeder, streamer, enc>>
      /\ api.pc = "idle" /\ lock = "none" /\ enc.pc = "idle"
    BY DEF AddSink, RemoveSink, UpdateConfig, ReconfigureVideo, Op, threads, Locks
<1>i. api.op # "update" /\ api.stop = {} /\ api.again = {} BY <1>0 DEF Calls
<1>1. ASSUME NEW o \in Output, AddSink(o) PROVE IInv'
    <2>1. /\ api' = [pc |-> "add", op |-> "add", cur |-> o, stop |-> {}, again |-> {}]
          /\ lock' = "api" /\ UNCHANGED <<branches, audioTo>> /\ o \notin branches
          /\ active' \in BOOLEAN /\ force' \in BOOLEAN
        BY <1>1 DEF AddSink, Op, NoCall, EnsurePipeline, PipelineStarted, TypeOK
    <2>2. TypeOK' BY <1>0, <2>1 DEF TypeOK
    <2>3. Locks' /\ Calls' BY <1>0, <2>1 DEF Locks, Calls, Working, Stopping
    <2>4. Stages' BY <2>1 DEF Stages, Working, Stopping
    <2>5. Sessions'
        <3>1. \A q \in audioTo : q \in branches BY DEF Sessions, Living, TypeOK
        <3> QED BY <1>0, <2>1, <3>1, SessionsStay DEF Working, Stopping
    <2> QED BY <2>2, <2>3, <2>4, <2>5
<1>2. ASSUME NEW o \in Output, RemoveSink(o) PROVE IInv'
    <2>1. /\ api' = [pc |-> "stop", op |-> "remove", cur |-> o, stop |-> {}, again |-> {}]
          /\ lock' = "api" /\ UNCHANGED <<active, force>> /\ o \in branches
          /\ branches' = branches \ {o} /\ audioTo' = audioTo \ {o}
        BY <1>2 DEF RemoveSink, Op, NoCall
    <2>2. TypeOK' BY <1>0, <2>1 DEF TypeOK, Working, Stopping
    <2>3. Locks' /\ Calls' BY <1>0, <2>1 DEF Locks, Calls, Working, Stopping
    <2>4. Stages' BY <2>1 DEF Stages, Working, Stopping
    <2>5. Sessions'
        <3>1. \A q \in audioTo : q \in branches BY DEF Sessions, Living, TypeOK
        <3> QED BY <1>0, <2>1, <3>1, SessionsStay DEF Working, Stopping
    <2> QED BY <2>2, <2>3, <2>4, <2>5
<1>3. CASE UpdateConfig
    <2>1. /\ api' = [pc |-> "next", op |-> "update", cur |-> None, stop |-> branches,
                     again |-> branches]
          /\ lock' = "api" /\ UNCHANGED <<force, branches, audioTo>> /\ active' = FALSE
        BY <1>3 DEF UpdateConfig, Op, NoCall
    <2>2. TypeOK' BY <1>0, <2>1 DEF TypeOK
    <2>3. Locks' /\ Calls' BY <1>0, <2>1 DEF Locks, Calls, Working, Stopping
    <2>4. Stages' BY <2>1, OutputAssumption DEF Stages, Working, Stopping, Output
    <2>5. Sessions'
        <3>1. \A q \in audioTo : q \in branches BY DEF Sessions, Living, TypeOK
        <3> QED BY <1>0, <2>1, <3>1, SessionsStay DEF Working, Stopping
    <2> QED BY <2>2, <2>3, <2>4, <2>5
<1>4. CASE ReconfigureVideo
    <2>1. UNCHANGED <<branches, audioTo, api, lock>> /\ active' = FALSE /\ force' = TRUE
        BY <1>4 DEF ReconfigureVideo, TeardownPipeline
    <2>2. TypeOK' BY <1>0, <2>1 DEF TypeOK
    <2>3. Locks' /\ Calls' BY <1>0, <1>i, <2>1 DEF Locks, Calls, Working, Stopping
    <2>4. Stages' BY <1>0, <1>i, <2>1 DEF Stages, Working, Stopping
    <2>5. Sessions'
        <3>1. \A q \in audioTo : q \in branches BY DEF Sessions, Living, TypeOK
        <3> QED BY <1>0, <2>1, <3>1, SessionsStay
    <2> QED BY <2>2, <2>3, <2>4, <2>5
<1> QED BY <1>1, <1>2, <1>3, <1>4

\* A call holds the lock, so that the encoder thread is not at work.
LEMMA CallLocks == IInv /\ api.pc # "idle" => lock = "api" /\ enc.pc = "idle" /\ enc.todo = {}
BY DEF IInv, Locks

\* An output that is not SRT is linked or not.
LEMMA LinkStep ==
    ASSUME IInv, LinkSinkBranch
    PROVE  IInv'
<1> USE DEF IInv
<1>0. /\ UNCHANGED <<active, audioTo, ses, acceptor, feeder, streamer, enc, lock>>
      /\ api.pc = "add" /\ api.cur \in Plain /\ api' = [api EXCEPT !.pc = "added"]
      /\ branches' \in {branches, branches \cup {api.cur}} /\ force' \in BOOLEAN
    BY DEF LinkSinkBranch, Linked, NotLinked, threads, TypeOK
<1>1. /\ api'.pc = "added" /\ api'.op = api.op /\ api'.cur = api.cur
      /\ api'.stop = api.stop /\ api'.again = api.again
    BY <1>0 DEF TypeOK
<1>2. lock = "api" /\ enc.pc = "idle" /\ enc.todo = {} BY <1>0, CallLocks
<1>3. api.cur \in Output \ (branches \cup api.again) /\ (api.op = "update" => active)
    BY <1>0 DEF Calls
<1>4. api.cur \notin Srt BY <1>0, OutputAssumption
<1>5. TypeOK'
    <2>1. api' \in [pc : {"idle", "add", "added", "next", "removed"} \cup Working,
                    op : {"none", "add", "remove", "update"},
                    cur : Output \cup {None}, stop : SUBSET Output, again : SUBSET Output]
        BY <1>0 DEF TypeOK
    <2>2. branches' \subseteq Output BY <1>0, <1>3 DEF TypeOK
    <2> QED BY <1>0, <2>1, <2>2 DEF TypeOK
<1>6. Locks' BY <1>0, <1>1, <1>2 DEF Locks
<1>7. Calls' BY <1>0, <1>1, <1>3 DEF Calls, Working, Stopping
<1>8. Stages' BY <1>0, <1>1, <1>3, <1>4 DEF Stages, Working, Stopping
<1>9. Sessions'
    <2>1. \A q \in audioTo : q \in branches BY DEF Sessions, Living, TypeOK
    <2> QED BY <1>0, <1>1, <1>2, <1>4, <2>1, SessionsStay DEF Working, Stopping
<1> QED BY <1>5, <1>6, <1>7, <1>8, <1>9

\* The call works on the session of its output, which is then t.
LEMMA SessionOfCall ==
    ASSUME IInv, enc.pc = "idle", UNCHANGED enc, NEW o \in Srt, NEW t \in Session,
           ses' = [ses EXCEPT ![o] = t], ~ t.broken,
           t.base /\ t.feeding /\ t.gap = "passed" => t.drop,
           \A q \in Srt \ {o} :
               /\ acceptor'[q] = acceptor[q] /\ feeder'[q] = feeder[q]
               /\ streamer'[q] = streamer[q]
               /\ (q \in branches' \/ (q = api'.cur /\ api'.pc \in Working))
                      <=> (q \in branches \/ (q = api.cur /\ api.pc \in Working))
               /\ q \in audioTo' => q \in branches',
           o \in audioTo' => o \in branches',
           t.live <=> o \in branches' \/ (o = api'.cur /\ api'.pc \in Working),
           Running(o)' => t.live
    PROVE  Sessions'
<1>1. \A q \in Srt : ses'[q] = IF q = o THEN t ELSE ses[q] BY DEF IInv, TypeOK
<1>2. ASSUME NEW q \in Srt PROVE Living(q)' /\ Gated(q)'
    <2>1. Living(q) /\ Gated(q) BY DEF IInv, Sessions
    <2>2. CASE q = o
        <3>1. ses'[q] = t BY <1>1, <2>2
        <3>2. Living(q)' BY <2>2, <3>1 DEF Living
        <3>3. Gated(q)' BY <2>2, <3>1 DEF Gated
        <3> QED BY <3>2, <3>3
    <2>3. CASE q # o
        <3>1. ses'[q] = ses[q] BY <1>1, <2>3
        <3>2. Living(q)' BY <2>1, <2>3, <3>1 DEF Living, Running
        <3>3. Gated(q)' BY <2>1, <2>3, <3>1 DEF Gated
        <3> QED BY <3>2, <3>3
    <2> QED BY <2>2, <2>3
<1> QED BY <1>2 DEF Sessions

\* A session of the table, or of a call, as the invariant knows it.
LEMMA CurrentSession ==
    ASSUME IInv, api.cur \in Srt
    PROVE  /\ ses[api.cur] \in Session /\ Living(api.cur) /\ Gated(api.cur)
           /\ \A q \in audioTo : q \in branches
BY DEF IInv, TypeOK, Sessions, Living

\* A session's sender is started, and then the rest of it; or it fails.
LEMMA SessionStarts ==
    ASSUME IInv, StartSrtSender \/ StartSrtSession
    PROVE  IInv'
<1> USE DEF IInv
<1> DEFINE o == api.cur
           ApiType == [pc : {"idle", "add", "added", "next", "removed"} \cup Working,
                       op : {"none", "add", "remove", "update"},
                       cur : Output \cup {None}, stop : SUBSET Output, again : SUBSET Output]
<1>0. UNCHANGED <<active, streamer, enc, lock>>
    BY DEF StartSrtSender, StartSrtSession
<1>c. api.pc \in {"add", "session"} /\ o \in Srt
    BY DEF StartSrtSender, StartSrtSession, Calls, Working, Stopping
<1>l. lock = "api" /\ enc.pc = "idle" /\ enc.todo = {} BY <1>c, CallLocks
<1>d. o \in Output \ (branches \cup api.again) /\ (api.op = "update" => active)
    BY <1>c DEF Calls
<1>s. /\ ses[o] \in Session /\ Living(o) /\ Gated(o)
      /\ \A q \in audioTo : q \in branches
    BY <1>c, CurrentSession
<1>a. ASSUME NEW p \in {"added", "session", "stopSender"}, api' = [api EXCEPT !.pc = p]
      PROVE  /\ api' \in ApiType
             /\ api'.pc = p /\ api'.op = api.op /\ api'.cur = api.cur
             /\ api'.stop = api.stop /\ api'.again = api.again
    BY <1>a DEF TypeOK, Working, Stopping
<1>1. CASE /\ api.pc = "add" /\ ses' = [ses EXCEPT ![o] = NewSender]
           /\ acceptor' = [acceptor EXCEPT ![o].pc = "accept"]
           /\ api' = [api EXCEPT !.pc = "session"]
           /\ UNCHANGED <<force, branches, audioTo, feeder>>
    <2>1. /\ api' \in ApiType
          /\ api'.pc = "session" /\ api'.op = api.op /\ api'.cur = api.cur
          /\ api'.stop = api.stop /\ api'.again = api.again
        BY <1>1, <1>a
    <2>2. /\ NewSender \in Session /\ NewSender.live /\ ~ NewSender.broken /\ ~ NewSender.base
        BY DEF NewSender, NewSession, Session
    <2>3. TypeOK'
        <3>1. ses' \in [Srt -> Session] BY <1>1, <2>2 DEF TypeOK
        <3>2. acceptor' \in [Srt -> [pc : {"off", "accept", "count", "gate", "lock"}, n : Nat]]
            BY <1>1, ZenonT(60) DEF TypeOK
        <3> QED BY <1>0, <1>1, <2>1, <3>1, <3>2 DEF TypeOK
    <2>4. Locks' BY <1>0, <1>1, <1>l, <2>1 DEF Locks
    <2>5. Calls' BY <1>0, <1>1, <1>c, <1>d, <2>1 DEF Calls, Working, Stopping
    <2>6. Stages'
        <3>1. ses'[o] = NewSender BY <1>1, <1>c DEF TypeOK
        <3>2. feeder[o] = "off"
            BY <1>1, <1>s, <1>d DEF Living, Running, Working, Stopping
        <3> QED BY <1>0, <1>1, <1>d, <2>1, <2>2, <3>1, <3>2 DEF Stages, Working, Stopping
    <2>7. Sessions'
        <3>1. \A q \in Srt \ {o} :
                 /\ acceptor'[q] = acceptor[q] /\ feeder'[q] = feeder[q]
                 /\ streamer'[q] = streamer[q]
                 /\ (q \in branches' \/ (q = api'.cur /\ api'.pc \in Working))
                        <=> (q \in branches \/ (q = api.cur /\ api.pc \in Working))
                 /\ q \in audioTo' => q \in branches'
            BY <1>0, <1>1, <1>s, <2>1 DEF TypeOK
        <3>2. o \in audioTo' => o \in branches' BY <1>1, <1>s
        <3>3. o = api'.cur /\ api'.pc \in Working BY <2>1 DEF Working
        <3> HIDE DEF o
        <3> QED BY <1>0, <1>1, <1>c, <1>l, <2>2, <3>1, <3>2, <3>3, SessionOfCall
    <2> QED BY <2>3, <2>4, <2>5, <2>6, <2>7
<1>2. CASE /\ api' = [api EXCEPT !.pc = IF api.pc = "add" THEN "added" ELSE "stopSender"]
           /\ UNCHANGED <<force, branches, audioTo, ses, acceptor, feeder>>
    <2>1. /\ api' \in ApiType
          /\ api'.pc = (IF api.pc = "add" THEN "added" ELSE "stopSender")
          /\ api'.op = api.op /\ api'.cur = api.cur
          /\ api'.stop = api.stop /\ api'.again = api.again
        <3>1. (IF api.pc = "add" THEN "added" ELSE "stopSender") \in {"added", "session", "stopSender"}
            OBVIOUS
        <3> QED BY <1>2, <1>a, <3>1
    <2>2. TypeOK' BY <1>0, <1>2, <2>1 DEF TypeOK
    <2>3. Locks' BY <1>0, <1>2, <1>l, <2>1 DEF Locks
    <2>4. Calls' BY <1>0, <1>2, <1>c, <1>d, <2>1 DEF Calls, Working, Stopping
    <2>5. Stages' BY <1>0, <1>2, <1>c, <1>d, <2>1 DEF Stages, Quiet, Working, Stopping
    <2>6. Sessions'
        BY <1>0, <1>2, <1>c, <1>l, <1>s, <2>1, SessionsStay DEF Working, Stopping
    <2> QED BY <2>2, <2>3, <2>4, <2>5, <2>6
<1>3. CASE /\ api.pc = "session"
           /\ ses' = [ses EXCEPT ![o] = Reset([@ EXCEPT !.ready = TRUE, !.feeding = TRUE])]
           /\ feeder' = [feeder EXCEPT ![o] = "run"]
           /\ branches' = branches \cup {o}
           /\ audioTo' = audioTo \cup {o}
           /\ force' = TRUE
           /\ api' = [api EXCEPT !.pc = "added"]
           /\ acceptor' = acceptor
    <2> DEFINE t == Reset([ses[o] EXCEPT !.ready = TRUE, !.feeding = TRUE])
    <2>1. /\ api' \in ApiType
          /\ api'.pc = "added" /\ api'.op = api.op /\ api'.cur = api.cur
          /\ api'.stop = api.stop /\ api'.again = api.again
        BY <1>3, <1>a
    <2>2. /\ t \in Session /\ t.live = ses[o].live /\ t.broken = ses[o].broken
          /\ t.base = ses[o].base
        BY <1>s DEF Reset, Session
    <2>3. ~ ses[o].base BY <1>3, <1>c DEF Stages
    <2>4. ses[o].live /\ ~ ses[o].broken
        BY <1>3, <1>s DEF Living, Gated, Working
    <2>5. ses' = [ses EXCEPT ![o] = t] BY <1>3
    <2> HIDE DEF t
    <2>6. TypeOK'
        <3>1. ses' \in [Srt -> Session] BY <2>2, <2>5 DEF TypeOK
        <3>2. feeder' \in [Srt -> {"off", "run", "push"}] BY <1>3 DEF TypeOK
        <3>3. branches' \subseteq Output /\ audioTo' \subseteq Srt
            BY <1>3, <1>c, <1>d DEF TypeOK
        <3> QED BY <1>0, <1>3, <2>1, <3>1, <3>2, <3>3 DEF TypeOK
    <2>7. Locks' BY <1>0, <1>3, <1>l, <2>1 DEF Locks
    <2>8. Calls' BY <1>0, <1>3, <1>c, <1>d, <2>1 DEF Calls, Working, Stopping
    <2>9. Stages' BY <1>0, <1>d, <2>1 DEF Stages, Working, Stopping
    <2>10. Sessions'
        <3>1. \A q \in Srt \ {o} :
                 /\ acceptor'[q] = acceptor[q] /\ feeder'[q] = feeder[q]
                 /\ streamer'[q] = streamer[q]
                 /\ (q \in branches' \/ (q = api'.cur /\ api'.pc \in Working))
                        <=> (q \in branches \/ (q = api.cur /\ api.pc \in Working))
                 /\ q \in audioTo' => q \in branches'
            BY <1>0, <1>3, <1>s, <2>1 DEF TypeOK
        <3>2. o \in branches' BY <1>3
        <3> HIDE DEF o
        <3> QED BY <1>0, <1>c, <1>l, <2>2, <2>3, <2>4, <2>5, <3>1, <3>2, SessionOfCall
    <2> QED BY <2>6, <2>7, <2>8, <2>9, <2>10
<1>4. CASE StartSrtSender BY <1>1, <1>2, <1>4 DEF StartSrtSender
<1>5. CASE StartSrtSession BY <1>2, <1>3, <1>5 DEF StartSrtSession
<1> QED BY <1>4, <1>5

\* The steps that end a session: each joins a thread, or tells one to end.
LEMMA SessionStops ==
    ASSUME IInv, JoinFeeder \/ StopSrtSender \/ JoinAccept \/ StopPipeline
                     \/ (UnlinkSinkBranch /\ api.cur \in Srt)
    PROVE  IInv'
<1> USE DEF IInv
<1> DEFINE o == api.cur
           ApiType == [pc : {"idle", "add", "added", "next", "removed"} \cup Working,
                       op : {"none", "add", "remove", "update"},
                       cur : Output \cup {None}, stop : SUBSET Output, again : SUBSET Output]
<1>0. UNCHANGED <<active, force, branches, audioTo, acceptor, feeder, streamer, enc, lock>>
    BY DEF JoinFeeder, StopSrtSender, JoinAccept, StopPipeline, UnlinkSinkBranch, threads
<1>c. api.pc \in Stopping \ {"stopped"} /\ o \in Srt
    BY DEF JoinFeeder, StopSrtSender, JoinAccept, StopPipeline, UnlinkSinkBranch, Calls,
           Working, Stopping
<1>l. lock = "api" /\ enc.pc = "idle" /\ enc.todo = {}
    BY <1>c, CallLocks DEF Stopping
<1>s. /\ ses[o] \in Session /\ Living(o) /\ Gated(o)
      /\ \A q \in audioTo : q \in branches
    BY <1>c, CurrentSession
<1>1. PICK p \in Stopping \ {"stop"} :
          /\ api' = [api EXCEPT !.pc = p]
          /\ p \in {"stopSender", "joinAccept", "stopPipeline", "stopped"} => feeder[o] = "off"
          /\ p \in {"stopPipeline", "stopped"} => acceptor[o].pc = "off"
          /\ p = "stopped" => streamer[o].pc = "idle"
          /\ p = "stopped" <=> StopPipeline
          /\ p = "joinFeeder" => UnlinkSinkBranch
    <2>1. CASE UnlinkSinkBranch /\ api.cur \in Srt
        BY <2>1 DEF UnlinkSinkBranch, StopPipeline, Stopping
    <2>2. CASE JoinFeeder BY <2>2 DEF JoinFeeder, StopPipeline, Stopping
    <2>3. CASE StopSrtSender
        BY <1>c, <2>3 DEF StopSrtSender, StopPipeline, Stopping, Working, Stages
    <2>4. CASE JoinAccept
        BY <1>c, <2>4 DEF JoinAccept, StopPipeline, Stopping, Working, Stages
    <2>5. CASE StopPipeline
        BY <1>c, <2>5 DEF StopPipeline, Stopping, Working, Stages
    <2> QED BY <2>1, <2>2, <2>3, <2>4, <2>5
<1>2. PICK t \in Session :
          /\ ses' = [ses EXCEPT ![o] = t]
          /\ t.live = ses[o].live /\ t.broken = ses[o].broken
          /\ t.feeding => t.gap = ses[o].gap
          /\ t.drop = ses[o].drop /\ t.base = ses[o].base
          /\ t.feeding => ses[o].feeding
          /\ p = "joinFeeder" => ~ t.feeding
          /\ StopPipeline => ~ t.ts
    <2>1. CASE UnlinkSinkBranch /\ api.cur \in Srt
        <3> DEFINE t == [ses[o] EXCEPT !.feeding = FALSE]
        <3>1. t \in Session BY <1>s DEF Session
        <3>2. ses' = [ses EXCEPT ![o] = t] BY <2>1 DEF UnlinkSinkBranch
        <3>3. ~ StopPipeline BY <2>1 DEF UnlinkSinkBranch, StopPipeline
        <3>4. /\ t.live = ses[o].live /\ t.broken = ses[o].broken /\ t.gap = ses[o].gap
              /\ t.drop = ses[o].drop /\ t.base = ses[o].base /\ ~ t.feeding
            BY <1>s DEF Session
        <3> HIDE DEF t
        <3> QED BY <3>1, <3>2, <3>3, <3>4
    <2>2. CASE JoinFeeder
        <3> DEFINE t == Reset(ses[o])
        <3>1. t \in Session BY <1>s DEF Session, Reset
        <3>2. ses' = [ses EXCEPT ![o] = t] BY <2>2 DEF JoinFeeder
        <3>3. ~ StopPipeline BY <2>2 DEF JoinFeeder, StopPipeline
        <3>4. /\ t.live = ses[o].live /\ t.broken = ses[o].broken
              /\ t.drop = ses[o].drop /\ t.base = ses[o].base /\ t.feeding = ses[o].feeding
            BY <1>s DEF Session, Reset
        <3>5. ~ ses[o].feeding BY <1>c, <2>2 DEF JoinFeeder, Stages
        <3> HIDE DEF t
        <3> QED BY <3>1, <3>2, <3>3, <3>4, <3>5
    <2>3. CASE StopSrtSender
        <3> DEFINE t == [ses[o] EXCEPT !.sending = FALSE, !.clients = {}]
        <3>1. t \in Session BY <1>s DEF Session
        <3>2. ses' = [ses EXCEPT ![o] = t] BY <2>3 DEF StopSrtSender
        <3>3. ~ StopPipeline BY <2>3 DEF StopSrtSender, StopPipeline
        <3>4. /\ t.live = ses[o].live /\ t.broken = ses[o].broken /\ t.gap = ses[o].gap
              /\ t.drop = ses[o].drop /\ t.base = ses[o].base /\ t.feeding = ses[o].feeding
            BY <1>s DEF Session
        <3>5. p # "joinFeeder" BY <1>1, <2>3 DEF StopSrtSender, UnlinkSinkBranch
        <3> HIDE DEF t
        <3> QED BY <3>1, <3>2, <3>3, <3>4, <3>5
    <2>4. CASE JoinAccept
        <3> DEFINE t == [ses[o] EXCEPT !.count = 0, !.ready = FALSE]
        <3>1. t \in Session BY <1>s DEF Session
        <3>2. ses' = [ses EXCEPT ![o] = t] BY <2>4 DEF JoinAccept
        <3>3. ~ StopPipeline BY <2>4 DEF JoinAccept, StopPipeline
        <3>4. /\ t.live = ses[o].live /\ t.broken = ses[o].broken /\ t.gap = ses[o].gap
              /\ t.drop = ses[o].drop /\ t.base = ses[o].base /\ t.feeding = ses[o].feeding
            BY <1>s DEF Session
        <3>5. p # "joinFeeder" BY <1>1, <2>4 DEF JoinAccept, UnlinkSinkBranch
        <3> HIDE DEF t
        <3> QED BY <3>1, <3>2, <3>3, <3>4, <3>5
    <2>5. CASE StopPipeline
        <3> DEFINE t == [ses[o] EXCEPT !.ts = FALSE]
        <3>1. t \in Session BY <1>s DEF Session
        <3>2. ses' = [ses EXCEPT ![o] = t] BY <2>5 DEF StopPipeline
        <3>4. /\ t.live = ses[o].live /\ t.broken = ses[o].broken /\ t.gap = ses[o].gap
              /\ t.drop = ses[o].drop /\ t.base = ses[o].base /\ t.feeding = ses[o].feeding
              /\ ~ t.ts
            BY <1>s DEF Session
        <3>5. p # "joinFeeder" BY <1>1, <2>5 DEF StopPipeline, UnlinkSinkBranch
        <3> HIDE DEF t
        <3> QED BY <3>1, <3>2, <3>4, <3>5
    <2> QED BY <2>1, <2>2, <2>3, <2>4, <2>5
<1>3. /\ api' \in ApiType
      /\ api'.pc = p /\ api'.op = api.op /\ api'.cur = api.cur
      /\ api'.stop = api.stop /\ api'.again = api.again
    BY <1>1 DEF TypeOK, Working
<1>4. \A q \in Srt : ses'[q] = IF q = o THEN t ELSE ses[q] BY <1>2 DEF TypeOK
<1>5. TypeOK'
    <2>1. ses' \in [Srt -> Session] BY <1>2 DEF TypeOK
    <2> QED BY <1>0, <1>3, <2>1 DEF TypeOK
<1>6. Locks' BY <1>0, <1>3, <1>l DEF Locks, Stopping
<1>7. Calls' BY <1>0, <1>3, <1>c DEF Calls, Working, Stopping
<1>8. Stages'
    <2>1. \A q \in Srt \ {o} : Quiet(q) => Quiet(q)' BY <1>0, <1>4 DEF Quiet
    <2>2. p = "stopped" => Quiet(o)'
        BY <1>0, <1>1, <1>2, <1>4, <1>c DEF Quiet
    <2>3. p # "session" BY DEF Stopping
    <2>4. api.pc \in Stopping /\ p \in Stopping BY <1>c
    <2>5. /\ p \in Working \ {"stop", "joinFeeder"} => feeder[o] = "off"
        BY <1>1, <2>4 DEF Working, Stopping
    <2>6. ASSUME api.op = "update", ~ active,
                 NEW q \in (branches \cap Srt) \ api.stop, q # o
          PROVE  Quiet(q)'
        BY <2>1, <2>4, <2>6 DEF Stages
    <2> HIDE DEF o
    <2>7. api'.cur = o /\ UNCHANGED <<active, branches>> /\ api'.stop = api.stop
              /\ api'.op = api.op /\ api'.pc = p
        BY <1>0, <1>3 DEF o
    <2>8. feeder' = feeder /\ acceptor' = acceptor BY <1>0
    <2>9. /\ api'.pc \in Working \ {"stop", "joinFeeder"} => feeder'[o] = "off"
          /\ api'.pc \in {"stopPipeline", "stopped"} => acceptor'[o].pc = "off"
          /\ api'.pc = "stopped" => Quiet(o)'
          /\ api'.pc # "session"
          /\ api'.pc = "joinFeeder" => ~ ses'[o].feeding
        BY <1>1, <1>2, <1>4, <2>2, <2>3, <2>5, <2>7, <2>8, <1>c
    <2>10. ASSUME api'.op = "update", ~ active',
                  NEW q \in (branches' \cap Srt) \ api'.stop
           PROVE  Quiet(q)' \/ (q = o /\ api'.pc \in Stopping)
        <3>1. CASE q = o BY <2>4, <2>7, <3>1
        <3>2. CASE q # o
            <4>1. api.op = "update" /\ ~ active /\ q \in (branches \cap Srt) \ api.stop
                BY <2>7, <2>10
            <4> QED BY <2>6, <3>2, <4>1 DEF o
        <3> QED BY <3>1, <3>2
    <2>11. Quiet(api.cur)' <=> Quiet(o)' BY DEF o
    <2>12. api'.cur = o /\ (Quiet(o)' <=> Quiet(api.cur)') BY <2>7, <2>11
    <2>13. (api.cur \in Srt =>
              /\ api.pc \in Working \ {"stop", "joinFeeder"} => feeder[api.cur] = "off"
              /\ api.pc \in {"stopPipeline", "stopped"} => acceptor[api.cur].pc = "off"
              /\ api.pc = "stopped" => Quiet(api.cur)
              /\ api.pc = "session" => ~ ses[api.cur].base
              /\ api.pc = "joinFeeder" => ~ ses[api.cur].feeding)'
        BY <2>9, <2>12
    <2>14. (api.op = "update" /\ ~ active /\ api.pc \in Stopping \cup {"next"} =>
              \A q \in (branches \cap Srt) \ api.stop :
                  Quiet(q) \/ (q = api.cur /\ api.pc \in Stopping))'
        BY <2>10, <2>12
    <2> QED BY <2>13, <2>14 DEF Stages
<1>9. Sessions'
    <2>1. \A q \in Srt \ {o} :
             /\ acceptor'[q] = acceptor[q] /\ feeder'[q] = feeder[q]
             /\ streamer'[q] = streamer[q]
             /\ (q \in branches' \/ (q = api'.cur /\ api'.pc \in Working))
                    <=> (q \in branches \/ (q = api.cur /\ api.pc \in Working))
             /\ q \in audioTo' => q \in branches'
        BY <1>0, <1>s, <1>3
    <2>2. o \in audioTo' => o \in branches' BY <1>0, <1>s
    <2>3. api.pc \in Working /\ api'.pc \in Working /\ o = api'.cur
        BY <1>3, <1>c DEF Working
    <2>4. ses[o].live BY <1>s, <2>3 DEF Living
    <2>5. ~ t.broken /\ (t.base /\ t.feeding /\ t.gap = "passed" => t.drop)
        BY <1>2, <1>s, <1>l DEF Gated
    <2> HIDE DEF o
    <2> QED BY <1>0, <1>2, <1>c, <1>l, <2>1, <2>2, <2>3, <2>4, <2>5, SessionOfCall
<1> QED BY <1>5, <1>6, <1>7, <1>8, <1>9

\* An output that is not SRT has nothing to wait for.
LEMMA UnlinkPlain ==
    ASSUME IInv, UnlinkSinkBranch, api.cur \notin Srt
    PROVE  IInv'
<1> USE DEF IInv
<1>0. /\ UNCHANGED <<active, force, branches, audioTo, ses, acceptor, feeder, streamer, enc, lock>>
      /\ api.pc = "stop" /\ api' = [api EXCEPT !.pc = "stopped"]
    BY DEF UnlinkSinkBranch, threads
<1>1. /\ api' \in [pc : {"idle", "add", "added", "next", "removed"} \cup Working,
                   op : {"none", "add", "remove", "update"},
                   cur : Output \cup {None}, stop : SUBSET Output, again : SUBSET Output]
      /\ api'.pc = "stopped" /\ api'.op = api.op /\ api'.cur = api.cur
      /\ api'.stop = api.stop /\ api'.again = api.again
    BY <1>0 DEF TypeOK, Working, Stopping
<1>2. lock = "api" /\ enc.pc = "idle" /\ enc.todo = {} BY <1>0, CallLocks
<1>3. TypeOK' BY <1>0, <1>1 DEF TypeOK
<1>4. Locks' BY <1>0, <1>1, <1>2 DEF Locks
<1>5. Calls' BY <1>0, <1>1 DEF Calls, Working, Stopping
<1>6. Stages' BY <1>0, <1>1 DEF Stages, Quiet, Working, Stopping
<1>7. Sessions'
    <2>1. \A q \in audioTo : q \in branches BY DEF Sessions, Living, TypeOK
    <2> QED BY <1>0, <1>1, <1>2, <2>1, SessionsStay DEF Working, Stopping
<1> QED BY <1>3, <1>4, <1>5, <1>6, <1>7

\* Memory is freed of a session that has no thread left.
LEMMA FreedSessions ==
    ASSUME IInv, enc.pc = "idle", NEW F \in SUBSET Output, ses' = Freed(F),
           UNCHANGED <<acceptor, feeder, streamer, enc>>,
           \A q \in F \cap Srt : Quiet(q) /\ q \notin branches' /\ q \notin audioTo',
           \A q \in Srt \ F :
               /\ (q \in branches' \/ (q = api'.cur /\ api'.pc \in Working))
                      <=> (q \in branches \/ (q = api.cur /\ api.pc \in Working))
               /\ q \in audioTo' => q \in branches',
           api'.pc \notin Working
    PROVE  /\ ses' \in [Srt -> Session]
           /\ Sessions'
<1> USE DEF IInv
<1>1. NewSession \in Session BY DEF NewSession, Session
<1>2. \A q \in Srt : ses'[q] = IF q \in F THEN NewSession ELSE ses[q] BY DEF Freed
<1>3. ses' \in [Srt -> Session] BY <1>1 DEF Freed, TypeOK
<1>4. ASSUME NEW q \in Srt PROVE Living(q)' /\ Gated(q)'
    <2>1. Living(q) /\ Gated(q) BY DEF Sessions
    <2>2. CASE q \in F
        <3>1. ses'[q] = NewSession BY <1>2, <2>2
        <3>2. ~ ses'[q].live /\ ~ ses'[q].broken /\ ~ ses'[q].base BY <3>1 DEF NewSession
        <3>3. ~ Running(q)' BY <2>2 DEF Running, Quiet
        <3> QED BY <2>2, <3>2, <3>3 DEF Living, Gated
    <2>3. CASE q \notin F
        <3>1. ses'[q] = ses[q] BY <1>2, <2>3
        <3> QED BY <2>1, <2>3, <3>1 DEF Living, Gated, Running
    <2> QED BY <2>2, <2>3
<1> QED BY <1>3, <1>4 DEF Sessions

\* A call is through with one output.
LEMMA StoppedStep ==
    ASSUME IInv, Stopped
    PROVE  IInv'
<1> USE DEF IInv
<1> DEFINE p == IF api.op = "remove" THEN "removed"
                ELSE IF api.cur \in branches THEN "next" ELSE "added"
<1>0. /\ UNCHANGED <<active, force, branches, audioTo, acceptor, feeder, streamer, enc, lock>>
      /\ api.pc = "stopped" /\ api' = [api EXCEPT !.pc = p]
    BY DEF Stopped, threads
<1>p. p \in {"removed", "next", "added"} OBVIOUS
<1>1. /\ api' \in [pc : {"idle", "add", "added", "next", "removed"} \cup Working,
                   op : {"none", "add", "remove", "update"},
                   cur : Output \cup {None}, stop : SUBSET Output, again : SUBSET Output]
      /\ api'.pc = p /\ api'.op = api.op /\ api'.cur = api.cur
      /\ api'.stop = api.stop /\ api'.again = api.again
    BY <1>0, <1>p DEF TypeOK
<1>2. lock = "api" /\ enc.pc = "idle" /\ enc.todo = {} BY <1>0, CallLocks
<1>3. Locks' BY <1>0, <1>1, <1>2, <1>p DEF Locks
<1>a. \A q \in audioTo : q \in branches BY DEF Sessions, Living, TypeOK
<1>b. api.cur \in Output /\ (api.cur \in Srt => Quiet(api.cur))
    BY <1>0 DEF Calls, Stages, Stopping
<1>w. api'.pc \notin Working /\ api.pc \in Working BY <1>0, <1>1, <1>p DEF Working, Stopping
<1>4. CASE api.cur \in branches
    <2>1. api.op = "update" /\ ~ active BY <1>0, <1>4 DEF Calls, Stopping
    <2>2. ses' = ses /\ api'.pc = "next" BY <1>1, <1>4, <2>1 DEF Stopped
    <2>3. TypeOK' BY <1>0, <1>1, <2>2 DEF TypeOK
    <2>4. Calls' BY <1>0, <1>1, <2>1, <2>2 DEF Calls, Working, Stopping
    <2>5. Stages'
        <3>1. \A q \in (branches \cap Srt) \ api.stop : Quiet(q)
            BY <1>0, <1>b, <2>1 DEF Stages, Stopping
        <3> QED BY <1>0, <1>1, <2>2, <3>1 DEF Stages, Quiet, Working, Stopping
    <2>6. Sessions' BY <1>0, <1>1, <1>2, <1>4, <1>a, <1>w, <2>2, SessionsStay
    <2> QED BY <1>3, <2>3, <2>4, <2>5, <2>6
<1>5. CASE api.cur \notin branches
    <2>1. api.op # "update" \/ active BY <1>0, <1>5 DEF Calls, Stopping
    <2>2. ses' = Freed({api.cur}) /\ api'.pc \in {"removed", "added"}
              /\ (api'.pc = "removed" => api.op # "update")
        BY <1>1, <1>5 DEF Stopped
    <2>3. ses' \in [Srt -> Session] /\ Sessions'
        <3>1. {api.cur} \in SUBSET Output BY <1>b
        <3>2. \A q \in {api.cur} \cap Srt : Quiet(q) /\ q \notin branches' /\ q \notin audioTo'
            BY <1>0, <1>5, <1>a, <1>b
        <3>3. \A q \in Srt \ {api.cur} :
               /\ (q \in branches' \/ (q = api'.cur /\ api'.pc \in Working))
                      <=> (q \in branches \/ (q = api.cur /\ api.pc \in Working))
               /\ q \in audioTo' => q \in branches'
            BY <1>0, <1>1, <1>a
        <3> QED BY <1>0, <1>2, <1>w, <2>2, <3>1, <3>2, <3>3, FreedSessions
    <2>4. TypeOK' BY <1>0, <1>1, <2>3 DEF TypeOK
    <2>5. Calls' BY <1>0, <1>1, <2>1, <2>2 DEF Calls, Working, Stopping
    <2>6. Stages' BY <1>0, <1>1, <2>2 DEF Stages, Working, Stopping
    <2> QED BY <1>3, <2>3, <2>4, <2>5, <2>6
<1> QED BY <1>4, <1>5

\* An update takes its next output, or opens the encoder again.
LEMMA UpdateNextStep ==
    ASSUME IInv, UpdateNext
    PROVE  IInv'
<1> USE DEF IInv
<1> DEFINE ApiType == [pc : {"idle", "add", "added", "next", "removed"} \cup Working,
                       op : {"none", "add", "remove", "update"},
                       cur : Output \cup {None}, stop : SUBSET Output, again : SUBSET Output]
<1>0. UNCHANGED <<acceptor, feeder, streamer, enc, lock>> /\ api.pc = "next" /\ api.op = "update"
    BY DEF UpdateNext, threads, Calls
<1>2. lock = "api" /\ enc.pc = "idle" /\ enc.todo = {} BY <1>0, CallLocks
<1>a. \A q \in audioTo : q \in branches BY DEF Sessions, Living, TypeOK
<1>w. api.pc \notin Working /\ api.pc \notin Stopping BY <1>0 DEF Working, Stopping
<1>3. ASSUME NEW o \in api.stop,
             api' = [api EXCEPT !.pc = "stop", !.cur = o, !.stop = @ \ {o}],
             UNCHANGED <<active, force, branches, audioTo, ses>>
      PROVE  IInv'
    <2>1. o \in Output /\ o \in branches /\ ~ active BY <1>0, <1>3 DEF TypeOK, Calls
    <2>2. /\ api' \in ApiType
          /\ api'.pc = "stop" /\ api'.op = "update" /\ api'.cur = o
          /\ api'.stop = api.stop \ {o} /\ api'.again = api.again
        BY <1>0, <1>3, <2>1 DEF TypeOK, Working, Stopping
    <2>3. TypeOK' BY <1>0, <1>3, <2>2 DEF TypeOK
    <2>4. Locks' BY <1>0, <1>2, <1>3, <2>2 DEF Locks
    <2>5. Calls' BY <1>0, <1>3, <2>1, <2>2 DEF Calls, Working, Stopping
    <2>6. Stages'
        <3>1. \A q \in (branches \cap Srt) \ api.stop : Quiet(q)
            BY <1>0, <1>w, <2>1 DEF Stages
        <3>2. \A q \in Srt : Quiet(q)' <=> Quiet(q) BY <1>0, <1>3 DEF Quiet
        <3>3. api'.pc \in Stopping BY <2>2 DEF Stopping
        <3>4. ASSUME NEW q \in (branches' \cap Srt) \ api'.stop
              PROVE  Quiet(q)' \/ (q = api'.cur /\ api'.pc \in Stopping)
            BY <1>3, <2>2, <3>1, <3>2, <3>3
        <3> QED BY <2>2, <3>4 DEF Stages
    <2>7. Sessions' BY <1>0, <1>2, <1>3, <1>a, <1>w, <2>1, <2>2, SessionsStay
    <2> QED BY <2>3, <2>4, <2>5, <2>6, <2>7
<1>4. ASSUME api.stop = {}, ~ active, branches' = {}, audioTo' = {}, ses' = Freed(branches),
             \/ /\ EnsurePipeline
                /\ api' = [api EXCEPT !.pc = IF api.again = {} THEN "added" ELSE "next"]
             \/ /\ EncoderFails
                /\ api' = [api EXCEPT !.again = {}, !.pc = "added"]
      PROVE  IInv'
    <2>1. /\ active' \in BOOLEAN /\ force' \in BOOLEAN
          /\ api' \in ApiType
          /\ api'.pc \in {"added", "next"} /\ api'.op = "update" /\ api'.cur = api.cur
          /\ api'.stop = {}
          /\ ~ active' => api'.again = {} /\ api'.pc = "added"
        <3>1. CASE EnsurePipeline
                   /\ api' = [api EXCEPT !.pc = IF api.again = {} THEN "added" ELSE "next"]
            <4>1. active' = TRUE /\ force' = TRUE
                BY <1>4, <3>1 DEF EnsurePipeline, PipelineStarted
            <4> QED BY <1>0, <1>4, <3>1, <4>1 DEF TypeOK
        <3>2. CASE EncoderFails /\ api' = [api EXCEPT !.again = {}, !.pc = "added"]
            <4>1. active' = active /\ force' = force BY <3>2 DEF EncoderFails
            <4> QED BY <1>0, <1>4, <3>2, <4>1 DEF TypeOK
        <3> QED BY <1>4, <3>1, <3>2
    <2> HIDE DEF ApiType
    <2>w. api'.pc \notin Working BY <2>1 DEF Working, Stopping
    <2>2. \A q \in branches \cap Srt : Quiet(q) BY <1>0, <1>4, <1>w DEF Stages
    <2>3. ses' \in [Srt -> Session] /\ Sessions'
        <3>1. branches \in SUBSET Output BY DEF TypeOK
        <3>2. \A q \in branches \cap Srt : Quiet(q) /\ q \notin branches' /\ q \notin audioTo'
            BY <1>4, <2>2
        <3>3. \A q \in Srt \ branches :
               /\ (q \in branches' \/ (q = api'.cur /\ api'.pc \in Working))
                      <=> (q \in branches \/ (q = api.cur /\ api.pc \in Working))
               /\ q \in audioTo' => q \in branches'
            BY <1>4, <1>w, <2>w
        <3> QED BY <1>0, <1>2, <1>4, <2>w, <3>1, <3>2, <3>3, FreedSessions
    <2>4. TypeOK' BY <1>0, <1>4, <2>1, <2>3 DEF TypeOK, ApiType
    <2>5. Locks' BY <1>0, <1>2, <2>1, <1>4 DEF Locks
    <2>6. Calls' BY <1>0, <1>4, <2>1 DEF Calls, Working, Stopping
    <2>7. Stages' BY <1>4, <2>1 DEF Stages, Working, Stopping
    <2> QED BY <2>3, <2>4, <2>5, <2>6, <2>7
<1>5. ASSUME active, NEW o \in api.again,
             api' = [api EXCEPT !.pc = "add", !.cur = o, !.again = @ \ {o}],
             UNCHANGED <<active, force, branches, audioTo, ses>>
      PROVE  IInv'
    <2>1. o \in Output /\ o \notin branches BY <1>0, <1>5 DEF TypeOK, Calls
    <2>2. /\ api' \in ApiType
          /\ api'.pc = "add" /\ api'.op = "update" /\ api'.cur = o
          /\ api'.stop = api.stop /\ api'.again = api.again \ {o}
        BY <1>0, <1>5, <2>1 DEF TypeOK
    <2>3. TypeOK' BY <1>0, <1>5, <2>2 DEF TypeOK
    <2>4. Locks' BY <1>0, <1>2, <1>5, <2>2 DEF Locks
    <2>5. Calls' BY <1>0, <1>5, <2>1, <2>2 DEF Calls, Working, Stopping
    <2>6. Stages' BY <1>5, <2>2 DEF Stages, Working, Stopping
    <2>w. api'.pc \notin Working BY <2>2 DEF Working, Stopping
    <2>7. Sessions' BY <1>0, <1>2, <1>5, <1>a, <1>w, <2>w, SessionsStay
    <2> QED BY <2>3, <2>4, <2>5, <2>6, <2>7
<1> QED BY <1>3, <1>4, <1>5 DEF UpdateNext

\* A call ends, or an update goes on.
LEMMA ReturnStep ==
    ASSUME IInv, Return
    PROVE  IInv'
<1> USE DEF IInv
<1>0. /\ UNCHANGED <<force, branches, audioTo, ses, acceptor, feeder, streamer, enc>>
      /\ api.pc \in {"added", "removed"}
    BY DEF Return, threads
<1>2. lock = "api" /\ enc.pc = "idle" /\ enc.todo = {} BY <1>0, CallLocks
<1>a. \A q \in audioTo : q \in branches BY DEF Sessions, Living, TypeOK
<1>w. api.pc \notin Working BY <1>0 DEF Working, Stopping
<1>3. CASE api.again # {}
    <2>1. api.op = "update" /\ api.pc = "added" /\ active BY <1>0, <1>3 DEF Calls, TypeOK
    <2>2. active' = active /\ lock' = lock /\ api' = [api EXCEPT !.pc = "next"]
        BY <1>3, <2>1 DEF Return
    <2>3. /\ api' \in [pc : {"idle", "add", "added", "next", "removed"} \cup Working,
                       op : {"none", "add", "remove", "update"},
                       cur : Output \cup {None}, stop : SUBSET Output, again : SUBSET Output]
          /\ api'.pc = "next" /\ api'.op = "update" /\ api'.cur = api.cur
          /\ api'.stop = api.stop /\ api'.again = api.again
        BY <2>1, <2>2 DEF TypeOK
    <2>4. TypeOK' BY <1>0, <2>2, <2>3 DEF TypeOK
    <2>5. Locks' BY <1>0, <1>2, <2>2, <2>3 DEF Locks
    <2>6. Calls' BY <1>0, <2>1, <2>2, <2>3 DEF Calls, Working, Stopping
    <2>7. Stages' BY <2>1, <2>2, <2>3 DEF Stages, Working, Stopping
    <2>w. api'.pc \notin Working BY <2>3 DEF Working, Stopping
    <2>8. Sessions' BY <1>0, <1>2, <1>a, <1>w, <2>w, SessionsStay
    <2> QED BY <2>4, <2>5, <2>6, <2>7, <2>8
<1>4. CASE api.again = {}
    <2>2. active' \in BOOLEAN /\ lock' = "none" /\ api' = NoCall
        BY <1>4 DEF Return, TeardownPipeline, TypeOK
    <2>3. /\ api' \in [pc : {"idle", "add", "added", "next", "removed"} \cup Working,
                       op : {"none", "add", "remove", "update"},
                       cur : Output \cup {None}, stop : SUBSET Output, again : SUBSET Output]
          /\ api'.pc = "idle" /\ api'.op = "none" /\ api'.cur = None
          /\ api'.stop = {} /\ api'.again = {}
        BY <2>2 DEF NoCall
    <2>4. TypeOK' BY <1>0, <2>2, <2>3 DEF TypeOK
    <2>5. Locks' BY <1>0, <1>2, <2>2, <2>3 DEF Locks
    <2>6. Calls' BY <2>3 DEF Calls, Working, Stopping
    <2>7. Stages' BY <2>3 DEF Stages, Working, Stopping
    <2>w. api'.pc \notin Working BY <2>3 DEF Working, Stopping
    <2>8. Sessions' BY <1>0, <1>2, <1>a, <1>w, <2>w, SessionsStay
    <2> QED BY <2>4, <2>5, <2>6, <2>7, <2>8
<1> QED BY <1>3, <1>4

-----------------------------------------------------------------------------
(* The theorems.                                                           *)

\* The program starts with no output and no thread.
LEMMA InitIInv == Init => IInv
<1> SUFFICES ASSUME Init PROVE IInv OBVIOUS
<1>1. NewSession \in Session BY DEF NewSession, Session
<1>2. TypeOK
    <2>1. ses \in [Srt -> Session] BY <1>1 DEF Init
    <2>2. acceptor \in [Srt -> [pc : {"off", "accept", "count", "gate", "lock"}, n : Nat]]
        BY DEF Init
    <2>3. streamer \in [Srt -> [pc : {"idle", "count", "flush", "reset"}, n : Nat]] BY DEF Init
    <2> QED BY <2>1, <2>2, <2>3 DEF Init, TypeOK, NoFrame, NoCall
<1>3. Locks BY DEF Init, Locks, NoFrame, NoCall
<1>4. Calls /\ Stages BY DEF Init, Calls, Stages, NoCall, Working, Stopping
<1>5. Sessions
    <2>1. ASSUME NEW o \in Srt PROVE Living(o) /\ Gated(o)
        <3>1. ~ ses[o].live /\ ~ ses[o].broken /\ ~ ses[o].base BY DEF Init, NewSession
        <3>2. o \notin branches /\ o \notin audioTo /\ api.pc \notin Working
            BY DEF Init, NoCall, Working, Stopping
        <3>3. ~ Running(o) BY DEF Running, Init
        <3> QED BY <3>1, <3>2, <3>3 DEF Living, Gated
    <2> QED BY <2>1 DEF Sessions
<1> QED BY <1>2, <1>3, <1>4, <1>5 DEF IInv

\* Every step of every thread and of every call keeps the invariant.
LEMMA NextIInv == IInv /\ [Next]_vars => IInv'
<1> SUFFICES ASSUME IInv, [Next]_vars PROVE IInv' OBVIOUS
<1>1. ASSUME NEW o \in Output, AddSink(o) \/ RemoveSink(o) PROVE IInv' BY <1>1, CallBegins
<1>2. CASE UpdateConfig \/ ReconfigureVideo BY <1>2, CallBegins
<1>3. CASE Api
    <2>1. CASE LinkSinkBranch BY <2>1, LinkStep
    <2>2. CASE StartSrtSender \/ StartSrtSession BY <2>2, SessionStarts
    <2>3. CASE UnlinkSinkBranch
        <3>1. CASE api.cur \in Srt BY <2>3, <3>1, SessionStops
        <3>2. CASE api.cur \notin Srt BY <2>3, <3>2, UnlinkPlain
        <3> QED BY <3>1, <3>2
    <2>4. CASE JoinFeeder \/ StopSrtSender \/ JoinAccept \/ StopPipeline
        BY <2>4, SessionStops
    <2>5. CASE Stopped BY <2>5, StoppedStep
    <2>6. CASE UpdateNext BY <2>6, UpdateNextStep
    <2>7. CASE Return BY <2>7, ReturnStep
    <2> QED BY <1>3, <2>1, <2>2, <2>3, <2>4, <2>5, <2>6, <2>7 DEF Api
<1>4. CASE (\E key \in BOOLEAN : Frame(key)) \/ FrameWithoutPacket BY <1>4, FrameStep
<1>5. CASE Push BY <1>5, PushGateStep, PushQueueStep, FrameStep DEF Push
<1>6. CASE ConsumeAudio BY <1>6, ConsumeAudioStep
<1>7. ASSUME NEW o \in Srt,
             (\E c \in Caller : AcceptCaller(o, c)) \/ Acceptor(o) \/ Feeder(o) \/ Streamer(o)
      PROVE  IInv'
    <2>1. CASE (\E c \in Caller : AcceptCaller(o, c)) \/ Acceptor(o) BY <2>1, AcceptorStep
    <2>2. CASE Feeder(o) BY <2>2, FeederStep
    <2>3. CASE Streamer(o) BY <2>3, StreamerStep
    <2> QED BY <1>7, <2>1, <2>2, <2>3
<1>8. CASE UNCHANGED vars
    BY <1>8 DEF vars, IInv, TypeOK, Locks, Calls, Stages, Quiet, Sessions, Living, Running, Gated
<1> QED BY <1>1, <1>2, <1>3, <1>4, <1>5, <1>6, <1>7, <1>8 DEF Next

\* The invariant holds in every behaviour.
LEMMA Invariance == Spec => []IInv
<1> QED BY InitIInv, NextIInv, PTL DEF Spec

\* Every variable but the gop_size and the counter of calls has its type, whatever
\* the outputs and callers.
THEOREM TypesCorrect == Spec => []TypeOK
<1>1. IInv => TypeOK BY DEF IInv
<1> QED BY <1>1, Invariance, PTL

\* No thread goes on with a session that is gone: stop_srt_session joins the
\* feeder, the acceptor and the streamer, and the lock keeps the encoder thread
\* out, before sink_branch_free.
THEOREM OwnedCorrect == Spec => []SessionsOwned
<1>1. IInv => SessionsOwned
    <2> SUFFICES ASSUME IInv, NEW o \in Srt
                 PROVE  /\ \/ acceptor[o].pc # "off" \/ feeder[o] # "off"
                           \/ streamer[o].pc # "idle"
                           \/ o \in audioTo \/ (enc.pc = "queue" /\ enc.cur = o)
                           \/ o \in enc.todo
                           => ses[o].live
                        /\ api.pc = "idle" => (ses[o].live <=> o \in branches)
        BY DEF SessionsOwned
    <2>1. Living(o) BY DEF IInv, Sessions
    <2>2. (enc.pc = "queue" /\ enc.cur = o) \/ o \in enc.todo => o \in branches
        BY DEF IInv, Locks
    <2>3. "idle" \notin Working BY DEF Working, Stopping
    <2> QED BY <2>1, <2>2, <2>3 DEF Living, Running
<1> QED BY <1>1, Invariance, PTL

\* A picture is only queued right after the one it refers to: after every pause
\* drop_until_keyframe keeps the stream closed until a keyframe.  Excepted is a
\* picture that a flush, overtaken by the next caller, takes out again.
THEOREM ResumesCorrect == Spec => []ResumesAtKeyframe
<1>1. IInv => ResumesAtKeyframe BY DEF IInv, Sessions, Gated, ResumesAtKeyframe
<1> QED BY <1>1, Invariance, PTL
=============================================================================
