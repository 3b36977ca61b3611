------------------------------- MODULE Encoder -------------------------------
(***************************************************************************)
(* The shared encoder (encoder_manager.c, direct_venc.c): one hardware     *)
(* encoder whose packets go to every output.  An SRT output is a session   *)
(* with threads of its own:                                                *)
(*   the acceptor, which takes callers in;                                 *)
(*   the feeder, which merges the queued video and audio into the muxer;   *)
(*   the streamer, the muxer's thread, which sends to the callers and      *)
(*     drops those it cannot send to.                                      *)
(* Other outputs are branches of one GStreamer pipeline and have no state  *)
(* here but being there.  The encoder thread pushes frames, the audio      *)
(* thread sound; an API call adds or removes an output or rebuilds the     *)
(* encoder, holding pipeline_mutex from its first to its last step and     *)
(* waiting for the session's threads on its way.                           *)
(*                                                                         *)
(* srt_sender_mutex, mux_feed_mutex and audio_mutex are held for one step  *)
(* and nothing is waited for under them.  A packet is known by its being a *)
(* keyframe, a queue by its being empty or not.  Callers come and go at    *)
(* will: one that is gone is noticed when it is sent to.                   *)
(***************************************************************************)
EXTENDS Naturals, FiniteSets, Functions

CONSTANTS
    Srt, Plain,  \* output ids: SRT sessions, and branches of the pipeline
    Caller,      \* SRT callers
    MaxOps,      \* API calls (a bound)
    None

ASSUME OutputAssumption == Srt \cap Plain = {} /\ None \notin Srt \cup Plain
ASSUME OpsAssumption == MaxOps \in Nat /\ IsFiniteSet(Caller)

Output == Srt \cup Plain

VARIABLES
    active,    \* pipeline_active: the hardware encoder is in use
    force,     \* force_next_idr
    groups,    \* gop_size > 0: every group of pictures begins with a keyframe
    branches,  \* the table of outputs
    audioTo,   \* direct_audio_branches
    ses,       \* per SRT output, its session
    acceptor,  \* per SRT output, its acceptor's place and caller_count
    feeder,    \* per SRT output, its feeder's place
    streamer,  \* per SRT output, its streamer's place and caller_count
    enc,       \* the encoder thread
    api,       \* the API call under way
    lock,      \* who holds pipeline_mutex
    ops

vars == <<active, force, groups, branches, audioTo, ses, acceptor, feeder, streamer, enc, api, lock, ops>>

-----------------------------------------------------------------------------
\* A session as start_srt_session makes it.  The last two are history: whether the
\* last packet is missing from the muxer's feed, because it was passed over or
\* because a flush took it out after the gate had been reopened; and whether a
\* packet was queued that refers to one that was passed over.
NewSession ==
    [live |-> FALSE,     \* its memory is allocated
     ready |-> FALSE,    \* srt_pipeline is set
     sending |-> FALSE,  \* srt_sender_running
     feeding |-> FALSE,  \* mux_feed_running
     clients |-> {},     \* srt_clients
     count |-> 0,        \* srt_caller_count
     drop |-> TRUE,      \* drop_until_keyframe
     base |-> FALSE,     \* srt_video_base_valid
     video |-> FALSE, audio |-> FALSE,  \* the feeder's queues hold something
     cover |-> FALSE,    \* the sound fed reaches the next picture
     ts |-> FALSE,       \* the muxer has data for the streamer
     gap |-> "passed", broken |-> FALSE]

\* mux_feed_reset_locked.
Reset(s) ==
    [s EXCEPT !.video = FALSE, !.audio = FALSE, !.cover = FALSE,
              !.gap = IF s.video THEN "passed" ELSE @]

NoCall == [pc |-> "idle", op |-> "none", cur |-> None, stop |-> {}, again |-> {}]
NoFrame == [pc |-> "idle", key |-> FALSE, cur |-> None, todo |-> {}]

Init ==
    /\ active = FALSE /\ force = FALSE /\ groups = TRUE
    /\ branches = {} /\ audioTo = {}
    /\ ses = [o \in Srt |-> NewSession]
    /\ acceptor = [o \in Srt |-> [pc |-> "off", n |-> 0]]
    /\ feeder = [o \in Srt |-> "off"]
    /\ streamer = [o \in Srt |-> [pc |-> "idle", n |-> 0]]
    /\ enc = NoFrame /\ api = NoCall /\ lock = "none" /\ ops = 0

threads == <<acceptor, feeder, streamer>>

-----------------------------------------------------------------------------
(* API calls.  Every one takes the lock at its start.                      *)

Op == api.pc = "idle" /\ lock = "none" /\ ops < MaxOps /\ ops' = ops + 1 /\ lock' = "api"

\* ensure_pipeline: a new encoder is opened and the pipeline made around it,
\* unless there is one; the new one is to begin with a keyframe.
PipelineStarted == active' = TRUE /\ force' = TRUE
EnsurePipeline == IF active THEN UNCHANGED <<active, force>> ELSE PipelineStarted
\* The encoder cannot be opened.
EncoderFails == ~ active /\ UNCHANGED <<active, force>>
TeardownPipeline == active' = FALSE

\* sbs_encoder_manager_add_sink: refused if it is there; ensure_pipeline may
\* fail, and then nothing has happened.
AddSink(o) ==
    /\ Op
    /\ o \notin branches
    /\ EnsurePipeline
    /\ api' = [NoCall EXCEPT !.pc = "add", !.op = "add", !.cur = o]
    /\ UNCHANGED <<branches, audioTo, ses, threads, enc, groups>>

\* link_sink_branch, for an output that is not SRT: it is linked into the running
\* pipeline, or there is no muxer or sink for it (RTMP takes H.264 only).
Linked(o) == branches' = branches \cup {o} /\ force' = TRUE
NotLinked == UNCHANGED <<branches, force>>

LinkSinkBranch ==
    /\ api.pc = "add" /\ api.cur \in Plain
    /\ Linked(api.cur) \/ NotLinked
    /\ api' = [api EXCEPT !.pc = "added"]
    /\ UNCHANGED <<active, audioTo, ses, threads, enc, lock, ops, groups>>

\* start_custom_srt_sender: a listener and an acceptor, no callers yet.
NewSender == [NewSession EXCEPT !.live = TRUE, !.sending = TRUE]

\* start_srt_session up to start_custom_srt_sender: callers may come from here on.
StartSrtSender ==
    /\ api.pc = "add" /\ api.cur \in Srt
    /\ \/ /\ ses' = [ses EXCEPT ![api.cur] = NewSender]
          /\ acceptor' = [acceptor EXCEPT ![api.cur].pc = "accept"]
          /\ api' = [api EXCEPT !.pc = "session"]
       \/ /\ api' = [api EXCEPT !.pc = "added"]               \* no port, no elements
          /\ UNCHANGED <<ses, acceptor>>
    /\ UNCHANGED <<active, force, branches, audioTo, feeder, streamer, enc, lock, ops, groups>>

\* The rest of start_srt_session and of add_sink.  If the session does not come
\* up its sender is stopped again.
StartSrtSession ==
    /\ api.pc = "session"
    /\ \/ /\ ses' = [ses EXCEPT ![api.cur] = Reset([@ EXCEPT !.ready = TRUE, !.feeding = TRUE])]
          /\ feeder' = [feeder EXCEPT ![api.cur] = "run"]
          /\ branches' = branches \cup {api.cur}
          /\ audioTo' = audioTo \cup {api.cur}
          /\ force' = TRUE
          /\ api' = [api EXCEPT !.pc = "added"]
       \/ /\ api' = [api EXCEPT !.pc = "stopSender"]
          /\ UNCHANGED <<ses, feeder, branches, audioTo, force>>
    /\ UNCHANGED <<active, acceptor, streamer, enc, lock, ops, groups>>

\* sbs_encoder_manager_remove_sink.
RemoveSink(o) ==
    /\ Op
    /\ o \in branches
    /\ branches' = branches \ {o}
    /\ audioTo' = audioTo \ {o}
    /\ api' = [NoCall EXCEPT !.pc = "stop", !.op = "remove", !.cur = o]
    /\ UNCHANGED <<active, force, ses, threads, enc, groups>>

\* sbs_encoder_manager_update_config with a change: every output is taken off,
\* the encoder is closed and opened again, every output is put on again.  A
\* gop_size of 0 is taken as well.
UpdateConfig ==
    /\ Op
    /\ active' = FALSE
    /\ groups' \in BOOLEAN
    /\ api' = [NoCall EXCEPT !.pc = "next", !.op = "update", !.stop = branches, !.again = branches]
    /\ UNCHANGED <<force, branches, audioTo, ses, threads, enc>>

\* sbs_encoder_manager_reconfigure_video with a change; its caller has taken
\* every output off.
ReconfigureVideo ==
    /\ api.pc = "idle" /\ lock = "none" /\ ops < MaxOps /\ ops' = ops + 1
    /\ branches = {}
    /\ TeardownPipeline
    /\ force' = TRUE
    /\ UNCHANGED <<branches, audioTo, ses, threads, enc, api, lock, groups>>

\* unlink_sink_branch; stop_srt_session tells the feeder to stop.
UnlinkSinkBranch ==
    /\ api.pc = "stop"
    /\ IF api.cur \in Srt
       THEN /\ ses' = [ses EXCEPT ![api.cur].feeding = FALSE]
            /\ api' = [api EXCEPT !.pc = "joinFeeder"]
       ELSE api' = [api EXCEPT !.pc = "stopped"] /\ UNCHANGED ses
    /\ UNCHANGED <<active, force, branches, audioTo, threads, enc, lock, ops, groups>>

\* Mutant: the thread is not waited for.
JoinFeederNot ==
    /\ api.pc = "joinFeeder"
    /\ ses' = [ses EXCEPT ![api.cur] = Reset(@)]
    /\ api' = [api EXCEPT !.pc = "stopSender"]
    /\ UNCHANGED <<active, force, branches, audioTo, threads, enc, lock, ops, groups>>

JoinFeeder ==
    /\ api.pc = "joinFeeder" /\ feeder[api.cur] = "off"
    /\ ses' = [ses EXCEPT ![api.cur] = Reset(@)]
    /\ api' = [api EXCEPT !.pc = "stopSender"]
    /\ UNCHANGED <<active, force, branches, audioTo, threads, enc, lock, ops, groups>>

\* Mutant: srt_sender_running stays set.
StopSrtSenderQuiet ==
    /\ api.pc = "stopSender"
    /\ ses' = [ses EXCEPT ![api.cur].clients = {}]
    /\ api' = [api EXCEPT !.pc = "joinAccept"]
    /\ UNCHANGED <<active, force, branches, audioTo, threads, enc, lock, ops, groups>>

\* stop_custom_srt_sender: the listener and the callers are closed.
StopSrtSender ==
    /\ api.pc = "stopSender"
    /\ ses' = [ses EXCEPT ![api.cur].sending = FALSE, ![api.cur].clients = {}]
    /\ api' = [api EXCEPT !.pc = "joinAccept"]
    /\ UNCHANGED <<active, force, branches, audioTo, threads, enc, lock, ops, groups>>

JoinAccept ==
    /\ api.pc = "joinAccept" /\ acceptor[api.cur].pc = "off"
    /\ ses' = [ses EXCEPT ![api.cur].count = 0, ![api.cur].ready = FALSE]
    /\ api' = [api EXCEPT !.pc = "stopPipeline"]
    /\ UNCHANGED <<active, force, branches, audioTo, threads, enc, lock, ops, groups>>

\* gst_element_set_state(NULL) waits for the streamer.
StopPipeline ==
    /\ api.pc = "stopPipeline" /\ streamer[api.cur].pc = "idle"
    /\ ses' = [ses EXCEPT ![api.cur].ts = FALSE]
    /\ api' = [api EXCEPT !.pc = "stopped"]
    /\ UNCHANGED <<active, force, branches, audioTo, threads, enc, lock, ops, groups>>

Freed(outputs) == [o \in Srt |-> IF o \in outputs THEN NewSession ELSE ses[o]]

\* sink_branch_free after a remove or an add that failed, or on to the next
\* output of an update.
Stopped ==
    /\ api.pc = "stopped"
    /\ ses' = IF api.cur \in branches THEN ses ELSE Freed({api.cur})
    /\ api' = [api EXCEPT !.pc = IF api.op = "remove" THEN "removed"
                                 ELSE IF api.cur \in branches THEN "next" ELSE "added"]
    /\ UNCHANGED <<active, force, branches, audioTo, threads, enc, lock, ops, groups>>

\* Update: the next output to take off, or all are off: the audio thread forgets
\* them, they are freed, and the encoder is opened again, or fails to.
UpdateNext ==
    /\ api.pc = "next"
    /\ \/ \E o \in api.stop :
             /\ api' = [api EXCEPT !.pc = "stop", !.cur = o, !.stop = @ \ {o}]
             /\ UNCHANGED <<active, force, branches, audioTo, ses>>
       \/ /\ api.stop = {} /\ ~ active
          /\ branches' = {} /\ audioTo' = {} /\ ses' = Freed(branches)
          /\ \/ /\ EnsurePipeline
                /\ api' = [api EXCEPT !.pc = IF api.again = {} THEN "added" ELSE "next"]
             \/ /\ EncoderFails
                /\ api' = [api EXCEPT !.again = {}, !.pc = "added"]
       \/ /\ active
          /\ \E o \in api.again :
                api' = [api EXCEPT !.pc = "add", !.cur = o, !.again = @ \ {o}]
          /\ UNCHANGED <<active, force, branches, audioTo, ses>>
    /\ UNCHANGED <<threads, enc, lock, ops, groups>>

\* The call returns; the last remove closes the encoder.
Return ==
    /\ api.pc \in {"added", "removed"}
    /\ IF api.again # {} THEN api' = [api EXCEPT !.pc = "next"] /\ UNCHANGED lock
       ELSE api' = NoCall /\ lock' = "none"
    /\ IF api.pc = "removed" /\ branches = {} THEN TeardownPipeline ELSE UNCHANGED active
    /\ UNCHANGED <<force, branches, audioTo, ses, threads, enc, ops, groups>>

-----------------------------------------------------------------------------
(* The acceptor: custom_srt_accept_thread_main.                            *)

AcceptCaller(o, c) ==
    LET in == ses[o].clients \cup {c}
    IN  /\ acceptor[o].pc = "accept" /\ ses[o].sending /\ c \notin ses[o].clients
        /\ ses' = [ses EXCEPT ![o].clients = in]
        /\ acceptor' = [acceptor EXCEPT ![o] = [pc |-> "count", n |-> Cardinality(in)]]
        /\ UNCHANGED <<active, force, branches, audioTo, feeder, streamer, enc, api, lock, ops, groups>>

\* custom_srt_client_connected.
CallerConnected(o) ==
    /\ acceptor[o].pc = "count"
    /\ ses' = [ses EXCEPT ![o].count = acceptor[o].n]
    /\ acceptor' = [acceptor EXCEPT ![o].pc = "gate"]
    /\ UNCHANGED <<active, force, branches, audioTo, feeder, streamer, enc, api, lock, ops, groups>>

\* schedule_srt_late_join_keyframe, before it takes the lock and with it.  With
\* B-frames the keyframe is forced only before the first packet.
CloseGate(o) ==
    /\ acceptor[o].pc = "gate"
    /\ ses' = [ses EXCEPT ![o].drop = TRUE]
    /\ acceptor' = [acceptor EXCEPT ![o].pc = "lock"]
    /\ UNCHANGED <<active, force, branches, audioTo, feeder, streamer, enc, api, lock, ops, groups>>

ScheduleKeyframe(o) ==
    /\ acceptor[o].pc = "lock" /\ lock = "none"
    /\ force' \in {TRUE, force}
    /\ acceptor' = [acceptor EXCEPT ![o].pc = "accept"]
    /\ UNCHANGED <<active, branches, audioTo, ses, feeder, streamer, enc, api, lock, ops, groups>>

AcceptorEnds(o) ==
    /\ acceptor[o].pc = "accept" /\ ~ ses[o].sending
    /\ acceptor' = [acceptor EXCEPT ![o] = [pc |-> "off", n |-> 0]]
    /\ UNCHANGED <<active, force, branches, audioTo, ses, feeder, streamer, enc, api, lock, ops, groups>>

-----------------------------------------------------------------------------
(* The encoder thread: sbs_encoder_manager_consume_frame_dmabuf.           *)

\* The encoder keeps the frame for later, or is busy: the order to make a keyframe
\* counts as carried out, though the frame may be gone.  It refuses the frame:
\* the order is kept.
Kept == force' = FALSE
Refused == UNCHANGED force

\* The frame gives no packet.
FrameWithoutPacket ==
    /\ lock = "none" /\ active
    /\ Kept \/ Refused
    /\ UNCHANGED <<active, branches, audioTo, ses, threads, enc, api, lock, ops, groups>>

\* submit_common: a keyframe when it is ordered, at the start of every group, or
\* when the encoder chooses to make one.
Frame(key) ==
    /\ lock = "none" /\ active /\ enc.pc = "idle"
    /\ force => key
    /\ force' = FALSE
    /\ enc' = [pc |-> "next", key |-> key, cur |-> None, todo |-> branches \cap Srt]
    /\ lock' = "enc"
    /\ UNCHANGED <<active, branches, audioTo, ses, threads, api, ops, groups>>

\* Mutant: a closed gate opens at any packet.
PushGateAny(o) ==
    LET s == ses[o]
    IN  /\ enc.pc = "next" /\ o \in enc.todo
        /\ ses' = [ses EXCEPT ![o] =
              IF s.count = 0 THEN [s EXCEPT !.drop = TRUE, !.gap = "passed"]
              ELSE IF s.drop THEN Reset([s EXCEPT !.base = TRUE, !.drop = FALSE])
              ELSE s]
        /\ enc' = [enc EXCEPT !.pc = IF s.count > 0 THEN "queue" ELSE "next", !.cur = o,
                              !.todo = @ \ {o}]
        /\ UNCHANGED <<active, force, branches, audioTo, threads, api, lock, ops, groups>>

\* Mutant: a closed gate opens for no packet.
PushGateShut(o) ==
    LET s == ses[o]
    IN  /\ enc.pc = "next" /\ o \in enc.todo
        /\ ses' = [ses EXCEPT ![o] =
              IF s.count = 0 THEN [s EXCEPT !.drop = TRUE, !.gap = "passed"]
              ELSE IF s.drop THEN [s EXCEPT !.gap = "passed"]
              ELSE s]
        /\ enc' = [enc EXCEPT !.pc = IF s.count > 0 /\ ~ s.drop THEN "queue" ELSE "next",
                              !.cur = o, !.todo = @ \ {o}]
        /\ UNCHANGED <<active, force, branches, audioTo, threads, api, lock, ops, groups>>

\* push_srt_session_packet: without callers the gate is closed; a closed gate
\* opens at a keyframe, with empty queues and a new time base.
PushGate(o) ==
    LET s == ses[o]
        pass == s.count > 0 /\ (s.drop => enc.key)
    IN  /\ enc.pc = "next" /\ o \in enc.todo
        /\ ses' = [ses EXCEPT ![o] =
              IF s.count = 0 THEN [s EXCEPT !.drop = TRUE, !.gap = "passed"]
              ELSE IF s.drop /\ ~ enc.key THEN [s EXCEPT !.gap = "passed"]
              ELSE IF s.drop THEN Reset([s EXCEPT !.base = TRUE, !.drop = FALSE])
              ELSE s]
        /\ enc' = [enc EXCEPT !.pc = IF pass THEN "queue" ELSE "next", !.cur = o,
                              !.todo = @ \ {o}]
        /\ UNCHANGED <<active, force, branches, audioTo, threads, api, lock, ops, groups>>

\* mux_feed_enqueue_buffer: a feeder that was told to stop takes nothing more.
Enqueued(s) ==
    IF ~ s.feeding THEN [s EXCEPT !.gap = "passed"]
    ELSE [s EXCEPT !.video = TRUE, !.gap = "no",
                       !.broken = @ \/ (s.gap = "passed" /\ ~ enc.key)]

\* The second half of push_srt_session_packet; the last caller may be gone.
PushQueue ==
    LET o == enc.cur
        s == ses[o]
    IN  /\ enc.pc = "queue"
        /\ ses' = [ses EXCEPT ![o] =
              IF ~ s.base THEN [s EXCEPT !.gap = "passed"]
              ELSE IF s.count = 0 THEN [s EXCEPT !.drop = TRUE, !.gap = "passed"]
              ELSE Enqueued(s)]
        /\ enc' = [enc EXCEPT !.pc = "next"]
        /\ UNCHANGED <<active, force, branches, audioTo, threads, api, lock, ops, groups>>

FrameDone ==
    /\ enc.pc = "next" /\ enc.todo = {}
    /\ enc' = NoFrame
    /\ lock' = "none"
    /\ UNCHANGED <<active, force, branches, audioTo, ses, threads, api, ops, groups>>

\* sbs_encoder_manager_consume_audio, under audio_mutex alone.
ConsumeAudio ==
    /\ active
    /\ ses' = [o \in Srt |->
          IF o \in audioTo /\ ses[o].ready /\ ses[o].feeding /\ ses[o].count > 0 /\ ~ ses[o].drop
          THEN [ses[o] EXCEPT !.audio = TRUE] ELSE ses[o]]
    /\ UNCHANGED <<active, force, branches, audioTo, threads, enc, api, lock, ops, groups>>

-----------------------------------------------------------------------------
(* The feeder: mux_feed_thread_main.  A picture waits until the sound that *)
(* belongs to it has been fed, or later sound is there.                    *)

\* The sound fed so far reaches the picture, or there is a gap in it.
Covered(s) == s.cover \/ s.audio

TakeAudio(o) ==
    /\ feeder[o] = "run" /\ ses[o].feeding /\ ses[o].audio
    /\ \E more \in BOOLEAN : ses' = [ses EXCEPT ![o].audio = more, ![o].cover = TRUE]
    /\ feeder' = [feeder EXCEPT ![o] = "push"]
    /\ UNCHANGED <<active, force, branches, audioTo, acceptor, streamer, enc, api, lock, ops, groups>>

TakeVideo(o) ==
    /\ feeder[o] = "run" /\ ses[o].feeding /\ ses[o].video
    /\ Covered(ses[o])
    /\ \E more, cover \in BOOLEAN : ses' = [ses EXCEPT ![o].video = more, ![o].cover = cover]
    /\ feeder' = [feeder EXCEPT ![o] = "push"]
    /\ UNCHANGED <<active, force, branches, audioTo, acceptor, streamer, enc, api, lock, ops, groups>>

\* gst_app_src_push_buffer, outside the lock.
FeedMuxer(o) ==
    /\ feeder[o] = "push"
    /\ ses' = [ses EXCEPT ![o].ts = TRUE]
    /\ feeder' = [feeder EXCEPT ![o] = "run"]
    /\ UNCHANGED <<active, force, branches, audioTo, acceptor, streamer, enc, api, lock, ops, groups>>

FeederEnds(o) ==
    /\ feeder[o] = "run" /\ ~ ses[o].feeding
    /\ feeder' = [feeder EXCEPT ![o] = "off"]
    /\ UNCHANGED <<active, force, branches, audioTo, ses, acceptor, streamer, enc, api, lock, ops, groups>>

-----------------------------------------------------------------------------
(* The streamer: on_srt_ts_sample.                                         *)

\* custom_srt_send_interleaved_locked: to which callers sending may fail.
Unsendable(s) == SUBSET s.clients

\* Callers that cannot be sent to are closed and taken out.
SendSample(o, lost) ==
    LET s == ses[o]
        left == s.clients \ lost
    IN  /\ streamer[o].pc = "idle" /\ s.ts /\ s.live
        /\ lost \in Unsendable(s)
        /\ ses' = [ses EXCEPT ![o].ts = FALSE, ![o].clients = left]
        /\ streamer' = IF lost = {} THEN streamer
                       ELSE [streamer EXCEPT ![o] = [pc |-> "count", n |-> Cardinality(left)]]
        /\ UNCHANGED <<active, force, branches, audioTo, acceptor, feeder, enc, api, lock, ops, groups>>

\* custom_srt_clients_removed, with the number of callers it was told.
CallersRemoved(o) ==
    LET n == streamer[o].n
    IN  /\ streamer[o].pc = "count"
        /\ ses' = [ses EXCEPT ![o].count = n, ![o].drop = @ \/ n = 0]
        /\ streamer' = [streamer EXCEPT ![o].pc = IF n = 0 THEN "flush" ELSE "idle"]
        /\ UNCHANGED <<active, force, branches, audioTo, acceptor, feeder, enc, api, lock, ops, groups>>

\* flush_srt_session: the time base goes first, without a lock.
FlushSession(o) ==
    /\ streamer[o].pc = "flush"
    /\ ses' = IF ses[o].ready THEN [ses EXCEPT ![o].base = FALSE] ELSE ses
    /\ streamer' = [streamer EXCEPT ![o].pc = IF ses[o].ready THEN "reset" ELSE "idle"]
    /\ UNCHANGED <<active, force, branches, audioTo, acceptor, feeder, enc, api, lock, ops, groups>>

\* The queues go next, under mux_feed_mutex.  If the time base is back, the gate
\* has been reopened in between.
FlushQueues(o) ==
    LET s == ses[o]
    IN  /\ streamer[o].pc = "reset"
        /\ ses' = [ses EXCEPT ![o] =
              IF s.base /\ s.video THEN [Reset(s) EXCEPT !.gap = "flushed"] ELSE Reset(s)]
        /\ streamer' = [streamer EXCEPT ![o].pc = "idle"]
        /\ UNCHANGED <<active, force, branches, audioTo, acceptor, feeder, enc, api, lock, ops, groups>>

-----------------------------------------------------------------------------
Api ==
    \/ LinkSinkBranch \/ StartSrtSender \/ StartSrtSession
    \/ UnlinkSinkBranch \/ JoinFeeder \/ StopSrtSender \/ JoinAccept \/ StopPipeline
    \/ Stopped \/ UpdateNext \/ Return
Acceptor(o) == CallerConnected(o) \/ CloseGate(o) \/ ScheduleKeyframe(o) \/ AcceptorEnds(o)
Push == (\E o \in Srt : PushGate(o)) \/ PushQueue \/ FrameDone
Feeder(o) == TakeAudio(o) \/ TakeVideo(o) \/ FeedMuxer(o) \/ FeederEnds(o)
Streamer(o) ==
    \/ \E lost \in SUBSET Caller : SendSample(o, lost)
    \/ CallersRemoved(o) \/ FlushSession(o) \/ FlushQueues(o)

Next ==
    \/ \E o \in Output : AddSink(o) \/ RemoveSink(o)
    \/ UpdateConfig \/ ReconfigureVideo
    \/ Api
    \/ \E key \in BOOLEAN : Frame(key)
    \/ FrameWithoutPacket
    \/ Push
    \/ ConsumeAudio
    \/ \E o \in Srt :
          \/ \E c \in Caller : AcceptCaller(o, c)
          \/ Acceptor(o) \/ Feeder(o) \/ Streamer(o)

Spec == Init /\ [][Next]_vars

\* Threads that can go on do; frames and sound keep coming, as the router paces
\* them; and while gop_size is not 0 every group of pictures begins with a keyframe.
Fairness ==
    /\ WF_vars(Api) /\ WF_vars(Push) /\ WF_vars(ConsumeAudio)
    /\ SF_vars(groups /\ Frame(TRUE))
    /\ \A o \in Srt :
          /\ WF_vars(CallerConnected(o)) /\ WF_vars(CloseGate(o)) /\ WF_vars(AcceptorEnds(o))
          /\ SF_vars(ScheduleKeyframe(o))
          /\ WF_vars(Feeder(o)) /\ WF_vars(Streamer(o))

FairSpec == Spec /\ Fairness

-----------------------------------------------------------------------------
(* No thread goes on with a session that is gone: while its acceptor,      *)
(* feeder or streamer runs, or the audio or the encoder thread may still   *)
(* come to it, a session's memory is there; between calls exactly the      *)
(* table's SRT outputs have one.                                           *)
SessionsOwned ==
    \A o \in Srt :
        /\ \/ acceptor[o].pc # "off" \/ feeder[o] # "off" \/ streamer[o].pc # "idle"
           \/ o \in audioTo \/ (enc.pc = "queue" /\ enc.cur = o) \/ o \in enc.todo
           => ses[o].live
        /\ api.pc = "idle" => (ses[o].live <=> o \in branches)

(* Whatever callers come and go, a picture that refers to an earlier one   *)
(* is only queued for the muxer right after that one: after a pause the    *)
(* stream resumes at a keyframe.  The one exception: that picture had been *)
(* queued, and was taken out by the second half of a flush in whose first  *)
(* half the gate was still closed.                                         *)
ResumesAtKeyframe == \A o \in Srt : ~ ses[o].broken

\* A call that holds the lock waits for an acceptor that waits for the lock.
Deadlocked == api.pc = "joinAccept" /\ acceptor[api.cur].pc = "lock"

\* The streamer has written 0 over the count of callers when one was there again.
CountLost(o) == ses[o].clients # {} /\ ses[o].count = 0 /\ acceptor[o].pc # "count"

\* A flush has cleared the time base of a gate that had been reopened: packets pass
\* the gate and are thrown away behind it.
BaseLost(o) == ~ ses[o].drop /\ ~ ses[o].base

(* Whoever is connected gets pictures: the gate that was closed for a      *)
(* caller opens, and what passes it is queued, even if the order to make a *)
(* keyframe is lost on the way to the encoder.  Excepted are the two races *)
(* of a removal with the caller that comes next, a gop_size of 0 and the   *)
(* deadlock of CallsReturn.                                                *)
CallersServed ==
    \A o \in Srt :
        (ses[o].sending /\ ses[o].clients # {})
            ~> \/ ses[o].gap = "no"
               \/ ~ ses[o].sending \/ ses[o].clients = {}
               \/ CountLost(o) \/ BaseLost(o)
               \/ ~ groups \/ Deadlocked

(* A call on an output returns, however it finds the session's threads.    *)
(* The one exception: it holds the lock and waits for the acceptor to end, *)
(* while the acceptor waits for the lock to order a keyframe for a caller. *)
CallsReturn ==
    api.pc # "idle" ~> api.pc = "idle" \/ Deadlocked
=============================================================================
