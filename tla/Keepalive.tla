------------------------------ MODULE Keepalive ------------------------------
(***************************************************************************)
(* The kernel's watch over the link (kernel_loop.py): _keepalive_loop       *)
(* probes a silent panel with system.r_u_alive, a silent reply timeout or   *)
(* the application forces a probe (request_link_check), and a probe that    *)
(* nothing answers tears the session down.                                  *)
(*                                                                         *)
(* The probe goes through the same scheduler as every command; here the     *)
(* commands are anonymous ("cmd"), their own retries are new commands, and  *)
(* RequestPipeline says the rest.  Time is the order of events;             *)
(* keepalive_timeout_s is shorter than _keepalive_send_wait_s (5 s and      *)
(* 30 s), so a probe whose wait to be sent is over is past its deadline too.*)
(***************************************************************************)
EXTENDS Integers, Sequences, Queues

CONSTANTS
    MaxMissed,   \* keepalive_max_missed
    MaxQueue,    \* bound: commands queued at one priority
    MaxCancels   \* bound: commands cancelled by their callers

ASSUME KeepaliveBounds ==
    MaxMissed \in Nat \ {0} /\ MaxQueue \in Nat /\ MaxCancels \in Nat

VARIABLES
    task,        \* where _keepalive_loop is; "off": none, or done
    own,         \* its local session is E27Kernel._session
    forced,      \* _keepalive_probe_requested
    wake,        \* _keepalive_wake is set
    missed,      \* _keepalive_missed
    link,        \* the session: "up" (ACTIVE), "lost" or "closed"
    notice,      \* on_disconnected is posted
    highQ,       \* _request_queue_high
    normalQ,     \* the length of _request_queue_normal
    active,      \* what holds the gate
    stage,       \* its frame: in the OutboundQueue, written, reported sent
    unreported,  \* the written frame whose on_sent has not run yet
    late,        \* the probe's deadline_at has passed
    sentEvent,   \* the probe's sent_event is set
    answer,      \* what the probe's future holds
    quiet,       \* nothing received for keepalive_interval_s
    silent,      \* nothing received since the active command was sent
    heard,       \* _last_rx_at is later than the check's sent_at
    since,       \* history: something was received since the probe was queued
    spoke,       \* history: was something received since the probe was sent?
    dead,        \* the panel has gone silent for good
    cancels      \* commands cancelled so far

watch == <<task, own, forced, wake, missed>>
session == <<link, notice>>
gate  == <<highQ, normalQ, active, stage, unreported>>
probe == <<late, sentEvent, answer>>
rx    == <<quiet, silent, heard, since, spoke>>
linkVars  == <<watch, session, gate, probe, rx, dead, cancels>>

\* An orphan is a probe whose check gave up waiting for it to be sent.
Item == {"cmd", "probe"}
Frame == Item \cup {"none", "orphan"}

WatchTyped ==
    /\ task \in {"off", "check", "sleeping", "polling", "sending", "waiting"}
    /\ own \in BOOLEAN /\ forced \in BOOLEAN /\ wake \in BOOLEAN

LinkTyped ==
    link \in {"up", "lost", "closed"} /\ notice \in BOOLEAN /\ dead \in BOOLEAN

CountsTyped ==
    missed \in 0..MaxMissed /\ normalQ \in 0..MaxQueue /\ cancels \in 0..MaxCancels

GateTyped ==
    /\ highQ \in Seq(Item) /\ active \in Frame /\ unreported \in Frame
    /\ stage \in {"out", "written", "sent"}

ProbeTyped ==
    /\ late \in BOOLEAN /\ sentEvent \in BOOLEAN
    /\ answer \in {"none", "reply", "timeout", "error"}

RxTyped ==
    /\ quiet \in BOOLEAN /\ silent \in BOOLEAN
    /\ heard \in BOOLEAN /\ since \in BOOLEAN /\ spoke \in {"unsent", "no", "yes"}

KeepaliveTypeOK ==
    WatchTyped /\ LinkTyped /\ CountsTyped /\ GateTyped /\ ProbeTyped /\ RxTyped

KeepaliveInit ==
    /\ task = "off" /\ own = FALSE /\ forced = FALSE /\ wake = FALSE /\ missed = 0
    /\ link = "closed" /\ notice = FALSE
    /\ highQ = <<>> /\ normalQ = 0 /\ active = "none" /\ stage = "out"
    /\ unreported = "none"
    /\ late = FALSE /\ sentEvent = FALSE /\ answer = "none"
    /\ quiet = FALSE /\ silent = FALSE /\ heard = FALSE /\ since = FALSE
    /\ spoke = "unsent" /\ dead = FALSE /\ cancels = 0

-----------------------------------------------------------------------------
(* Helpers.                                                                *)

\* The scheduler or the OutboundQueue has something to do.
Busy == active # "none" \/ highQ # <<>> \/ normalQ > 0 \/ unreported # "none"

\* _try_send_next with the queues hq and nq while act holds the gate: queued
\* probes past their deadline are failed unsent (future and event), then the
\* first request of the HIGH queue, else of the NORMAL one, takes a free gate.
TrySendNext(act, hq, nq, ans) ==
    LET ready == {i \in 1..Len(hq) : hq[i] = "cmd" \/ (hq[i] = "probe" /\ ~late)}
        first == CHOOSE i \in ready : \A j \in ready : i <= j
        drop  == IF ready = {} THEN Len(hq) ELSE first - 1
        failed == \E i \in 1..drop : hq[i] = "probe"
    IN IF act # "none" \/ link # "up"
       THEN /\ active' = act /\ highQ' = hq /\ normalQ' = nq /\ answer' = ans
            /\ stage' = IF act = "none" THEN "out" ELSE stage
            /\ UNCHANGED sentEvent
       ELSE /\ stage' = "out"
            /\ IF failed THEN answer' = "timeout" /\ sentEvent' = TRUE
                         ELSE answer' = ans /\ UNCHANGED sentEvent
            /\ IF ready # {}
               THEN /\ active' = hq[first] /\ normalQ' = nq
                    /\ highQ' = SubSeq(hq, first + 1, Len(hq))
               ELSE /\ active' = IF nq > 0 THEN "cmd" ELSE "none"
                    /\ normalQ' = IF nq > 0 THEN nq - 1 ELSE 0
                    /\ highQ' = <<>>

\* _complete_active: release the gate and send the next request.
Release(ans) == TrySendNext("none", highQ, normalQ, ans)

\* The task is in _send_keepalive_request.
Checking == task \in {"sending", "waiting"}

\* _abort_requests, _fail_all_pending_commands: a probe still queued or active
\* has its event set and its future failed.
AbortAll ==
    /\ highQ' = <<>> /\ normalQ' = 0 /\ active' = "none" /\ stage' = "out"
    /\ sentEvent' = (sentEvent \/ active = "probe" \/ "probe" \in Elems(highQ))
    /\ answer' = IF Checking /\ answer = "none" THEN "error" ELSE answer

\* A check is over: its local variables are gone.
Forget ==
    /\ own' = FALSE /\ late' = FALSE /\ sentEvent' = FALSE /\ answer' = "none"
    /\ heard' = FALSE /\ since' = FALSE /\ spoke' = "unsent"

\* A check ended: the panel is alive, or it is one more miss, and the last one
\* allowed tears the session down (for a session that is no longer the
\* kernel's, or is down already, that does nothing) and ends the loop.
Verdict(ok) ==
    /\ missed' = IF ok THEN 0 ELSE missed + 1
    /\ IF ok \/ missed + 1 < MaxMissed
       THEN task' = "check" /\ UNCHANGED session
       ELSE /\ task' = "off"
            /\ IF own /\ link = "up" THEN link' = "lost" /\ notice' = TRUE
                                    ELSE UNCHANGED session
    /\ Forget

-----------------------------------------------------------------------------
(* The session.                                                            *)

\* Wrong: the task object of the lost session keeps a new one from starting.
ConnectKeepsTask ==
    /\ link # "up" /\ ~notice
    /\ ~(task = "waiting" /\ answer # "none") /\ ~(task = "sending" /\ sentEvent)
    /\ link' = "up" /\ missed' = 0 /\ quiet' = FALSE /\ dead' = FALSE
    /\ unreported' = "none"
    /\ own' = FALSE
    /\ IF link = "closed" THEN task' = "check" /\ wake' = FALSE
                          ELSE UNCHANGED <<task, wake>>
    /\ UNCHANGED <<forced, notice, highQ, normalQ, active, stage, probe,
                   silent, heard, since, spoke, cancels>>

\* connect(), after the loop has run every callback and task step that was
\* ready.  A keepalive task still running goes on watching.
ConnectLink ==
    /\ link # "up" /\ ~notice
    /\ ~(task = "waiting" /\ answer # "none") /\ ~(task = "sending" /\ sentEvent)
    /\ link' = "up" /\ missed' = 0 /\ quiet' = FALSE /\ dead' = FALSE
    /\ unreported' = "none"
    /\ own' = FALSE
    /\ IF task = "off" THEN task' = "check" /\ wake' = FALSE
                       ELSE UNCHANGED <<task, wake>>
    /\ UNCHANGED <<forced, notice, highQ, normalQ, active, stage, probe,
                   silent, heard, since, spoke, cancels>>

\* close(): stop the task, fail everything.
CloseLink ==
    /\ link # "closed"
    /\ link' = "closed" /\ notice' = FALSE
    /\ task' = "off" /\ missed' = 0 /\ forced' = FALSE /\ wake' = FALSE
    /\ highQ' = <<>> /\ normalQ' = 0 /\ active' = "none" /\ stage' = "out"
    /\ unreported' = "none"
    /\ Forget
    /\ UNCHANGED <<quiet, silent, dead, cancels>>

\* The receive thread finds the link broken.
LinkLost ==
    /\ link = "up"
    /\ link' = "lost" /\ notice' = TRUE
    /\ UNCHANGED <<watch, gate, probe, rx, dead, cancels>>

\* _on_session_disconnected.  The worker is stopped: on_sent will not run.
OnDisconnected ==
    /\ notice
    /\ notice' = FALSE
    /\ AbortAll
    /\ unreported' = "none"
    /\ UNCHANGED <<watch, link, late, rx, dead, cancels>>

\* The panel says nothing more on this session.
PanelDies ==
    /\ link = "up" /\ ~dead
    /\ dead' = TRUE
    /\ UNCHANGED <<watch, session, gate, probe, rx, cancels>>

\* Anything received: _last_rx_at.
Received ==
    /\ quiet' = FALSE /\ silent' = FALSE
    /\ heard' = Checking /\ since' = Checking
    /\ spoke' = IF spoke = "no" THEN "yes" ELSE spoke

\* A broadcast, or a reply nobody waits for any more.
Broadcast ==
    /\ link = "up" /\ ~dead
    /\ Received
    /\ UNCHANGED <<watch, session, gate, probe, dead, cancels>>

\* The reply of the active request; it may overtake on_sent.
Reply ==
    /\ link = "up" /\ ~dead
    /\ active # "none" /\ stage \in {"written", "sent"}
    /\ Received
    /\ Release(IF active = "probe" THEN "reply" ELSE answer)
    /\ UNCHANGED <<watch, session, unreported, late, dead, cancels>>

QuietPasses ==
    /\ ~quiet /\ link = "up"
    /\ quiet' = TRUE
    /\ UNCHANGED <<watch, session, gate, probe, silent, heard, since, spoke, dead, cancels>>

-----------------------------------------------------------------------------
(* The scheduler, as far as a probe meets it.                               *)

Command ==
    /\ link = "up"
    /\ \/ normalQ < MaxQueue /\ TrySendNext(active, highQ, normalQ + 1, answer)
       \/ Len(highQ) < MaxQueue
          /\ TrySendNext(active, Append(highQ, "cmd"), normalQ, answer)
    /\ UNCHANGED <<watch, session, unreported, late, rx, dead, cancels>>

\* The frame is written by the worker's thread, one at a time ...
FrameWritten ==
    /\ active # "none" /\ stage = "out" /\ unreported = "none" /\ link = "up"
    /\ stage' = "written" /\ unreported' = active
    /\ UNCHANGED <<watch, session, highQ, normalQ, active, probe, rx, dead, cancels>>

\* ... and reported: _on_request_sent.
OnSent ==
    /\ unreported # "none" /\ link = "up"
    /\ unreported' = "none"
    /\ sentEvent' = (sentEvent \/ unreported = "probe")
    /\ IF active # "none" /\ stage = "written"
       THEN /\ stage' = "sent"
            /\ silent' = TRUE
            /\ heard' = IF active = "probe" THEN FALSE ELSE heard
       ELSE UNCHANGED <<stage, silent, heard>>
    /\ spoke' = IF unreported = "probe" THEN "no" ELSE spoke
    /\ UNCHANGED <<watch, session, highQ, normalQ, active, late, answer, quiet,
                   since, dead, cancels>>


\* _on_reply_timeout: nothing at all was received since a command was sent, so
\* probe now (request_link_check).  A timeout is seconds away when the task
\* wakes for the sent event.
ReplyTimeout ==
    /\ active # "none" /\ stage = "sent"
    /\ ~(active = "probe" /\ task = "sending")
    /\ Release(IF active = "probe" THEN "timeout" ELSE answer)
    /\ IF active = "cmd" /\ silent /\ link # "closed"
       THEN forced' = TRUE /\ wake' = (task # "off" \/ wake)
       ELSE UNCHANGED <<forced, wake>>
    /\ UNCHANGED <<task, own, missed, session, unreported, late, rx, dead, cancels>>

\* The caller of the active command gives up.
CommandCancelled ==
    /\ active = "cmd" /\ cancels < MaxCancels
    /\ cancels' = cancels + 1
    /\ Release(answer)
    /\ UNCHANGED <<watch, session, unreported, late, rx, dead>>

\* request_link_check, called by the application.
LinkCheck ==
    /\ link # "closed" /\ ~forced
    /\ forced' = TRUE /\ wake' = (task # "off" \/ wake)
    /\ UNCHANGED <<task, own, missed, session, gate, probe, rx, dead, cancels>>

-----------------------------------------------------------------------------
(* The keepalive task.                                                     *)

Idle == ~forced /\ ~quiet

\* Traffic is recent: sleep until the interval ends or a check is asked for.
\* An event set meanwhile is consumed without sleeping.
Sleep ==
    /\ task = "check" /\ Idle
    /\ IF wake THEN wake' = FALSE /\ UNCHANGED task
               ELSE task' = "sleeping" /\ UNCHANGED wake
    /\ UNCHANGED <<own, forced, missed, session, gate, probe, rx, dead, cancels>>

SleepEnds ==
    /\ task = "sleeping"
    /\ task' = "check" /\ wake' = FALSE
    /\ UNCHANGED <<own, forced, missed, session, gate, probe, rx, dead, cancels>>

\* No session, or commands are under way and nobody forces a probe.
Poll ==
    /\ task = "check" /\ ~Idle
    /\ link # "up" \/ (~forced /\ Busy)
    /\ task' = "polling"
    /\ UNCHANGED <<own, forced, wake, missed, session, gate, probe, rx, dead, cancels>>

PollEnds ==
    /\ task = "polling"
    /\ task' = "check"
    /\ UNCHANGED <<own, forced, wake, missed, session, gate, probe, rx, dead, cancels>>

\* _send_keepalive_request up to its first await: a HIGH priority probe, sent
\* at once if the gate is free (nothing is queued then).
SendProbe ==
    /\ task = "check" /\ ~Idle /\ link = "up" /\ (forced \/ ~Busy)
    /\ task' = "sending" /\ own' = TRUE /\ forced' = FALSE
    /\ late' = FALSE /\ sentEvent' = FALSE /\ answer' = "none" /\ since' = FALSE
    /\ spoke' = "unsent"
    /\ IF active = "none"
       THEN active' = "probe" /\ stage' = "out" /\ UNCHANGED highQ
       ELSE highQ' = Append(highQ, "probe") /\ UNCHANGED <<active, stage>>
    /\ UNCHANGED <<wake, missed, session, normalQ, unreported, quiet, silent, heard,
                   dead, cancels>>

DeadlinePasses ==
    /\ task = "sending" /\ ~late
    /\ late' = TRUE
    /\ UNCHANGED <<watch, session, gate, sentEvent, answer, rx, dead, cancels>>

\* Wrong: the wake-up of the task is taken for the sending of the probe.
SentSeenAsNow ==
    /\ task = "sending" /\ sentEvent
    /\ IF answer = "none"
       THEN /\ task' = "waiting" /\ heard' = FALSE
            /\ UNCHANGED <<own, missed, session, probe, since, spoke>>
       ELSE Verdict(answer = "reply")
    /\ UNCHANGED <<forced, wake, gate, quiet, silent, dead, cancels>>

\* The task wakes for the sent event, whoever set it.  Unless the probe is the
\* active request, sent_at is now.
SentSeen ==
    /\ task = "sending" /\ sentEvent
    /\ LET h == active = "probe" /\ stage = "sent" /\ heard
       IN IF answer = "none"
          THEN /\ task' = "waiting" /\ heard' = h
               /\ UNCHANGED <<own, missed, session, probe, since, spoke>>
          ELSE Verdict(answer = "reply" \/ h)
    /\ UNCHANGED <<forced, wake, gate, quiet, silent, dead, cancels>>

\* It was not sent within _keepalive_send_wait_s.  If it is still queued it will
\* be dropped when its turn comes, unseen: here it goes at once.
SendWaitEnds ==
    /\ task = "sending" /\ ~sentEvent /\ late
    /\ highQ' = Without(highQ, "probe")
    /\ active' = IF active = "probe" THEN "orphan" ELSE active
    /\ unreported' = IF unreported = "probe" THEN "orphan" ELSE unreported
    /\ Verdict(since)
    /\ UNCHANGED <<forced, wake, normalQ, stage, quiet, silent, dead, cancels>>

\* The future is resolved, or failed: traffic since sent_at rescues.
AnswerSeen ==
    /\ task = "waiting" /\ answer # "none"
    /\ Verdict(answer = "reply" \/ heard)
    /\ UNCHANGED <<forced, wake, gate, quiet, silent, dead, cancels>>

-----------------------------------------------------------------------------
SessionSteps == ConnectLink \/ CloseLink \/ LinkLost \/ OnDisconnected \/ PanelDies
           \/ Broadcast \/ Reply \/ QuietPasses

Scheduler == Command \/ FrameWritten \/ OnSent \/ ReplyTimeout \/ CommandCancelled \/ LinkCheck

Watch == Sleep \/ SleepEnds \/ Poll \/ PollEnds \/ SendProbe \/ DeadlinePasses
         \/ SentSeen \/ SendWaitEnds \/ AnswerSeen

KeepaliveNext == SessionSteps \/ Scheduler \/ Watch

KeepaliveSpec == KeepaliveInit /\ [][KeepaliveNext]_linkVars

\* The loop runs what is ready, timers fire, frames are written.  Nothing is
\* assumed of the panel, the application or the receive thread.
KeepaliveFairness ==
    /\ WF_linkVars(FrameWritten) /\ WF_linkVars(OnSent) /\ WF_linkVars(ReplyTimeout)
    /\ WF_linkVars(OnDisconnected) /\ WF_linkVars(dead /\ QuietPasses)
    /\ WF_linkVars(Sleep \/ SleepEnds \/ Poll \/ PollEnds \/ SendProbe \/ SentSeen
               \/ AnswerSeen)
    /\ WF_linkVars(DeadlinePasses) /\ WF_linkVars(SendWaitEnds)

LiveSpec == KeepaliveSpec /\ KeepaliveFairness

-----------------------------------------------------------------------------
(* Properties.                                                             *)

\* A session that is up is watched: the loop that ended with the last session,
\* or outlived it, never leaves the new one without a keepalive task.
Watched == link = "up" => task # "off"

\* The keepalive tears the session down.
Dropped == link = "up" /\ link' = "lost" /\ task # "off" /\ task' = "off"

\* CHANGES #88: an unanswered probe is rescued by traffic received after it was
\* sent: the keepalive never drops the link at the end of a check during which
\* the panel said anything after the probe was reported sent, however long the
\* task took to see the report.
TrafficRescues == [][Dropped => spoke # "yes"]_linkVars


-----------------------------------------------------------------------------
(* The inductive invariant behind Watched and TrafficRescues.              *)

ProbeQueued == "probe" \in Elems(highQ)
ProbeAround == active = "probe" \/ ProbeQueued \/ unreported = "probe"

\* There is one probe at most, in one place, and only while a check runs.
OneProbe ==
    /\ Once(highQ, "probe")
    /\ ProbeAround => Checking
    /\ ProbeQueued => active # "probe" /\ unreported # "probe"

\* The frame that is written and not reported is that of the active command,
\* unless its reply came first.
WriteIsReported ==
    /\ stage = "written" /\ active # "none" => unreported = active
    /\ unreported = "probe" => \/ active = "probe" /\ stage = "written"
                               \/ answer = "reply"

\* The sent event is set once the probe is out of the queues and reported, and
\* an answered probe is nowhere any more.
EventMeansSent ==
    /\ sentEvent => /\ ~ProbeQueued /\ unreported # "probe"
                    /\ active = "probe" => stage = "sent"
    /\ answer # "none" => active # "probe" /\ ~ProbeQueued
    /\ task = "waiting" => sentEvent
    /\ task = "sending" /\ ~sentEvent => active = "probe" \/ ProbeQueued \/ since

\* A loss is reported before anything else happens to the session: afterwards
\* nothing is left of it but a check that is about to end.
LossIsReported ==
    /\ notice => link = "lost"
    /\ link # "up" /\ ~notice =>
          /\ active = "none" /\ highQ = <<>> /\ unreported = "none"
          /\ Checking => answer # "none"
          /\ task = "sending" => sentEvent \/ since

\* A check that outlived its session does not end the watch over the next one:
\* its probe was answered before it was reported sent.
OwnCheck ==
    link = "up" /\ Checking /\ ~own =>
          task = "sending" /\ since /\ ~sentEvent /\ answer # "none" /\ ~ProbeAround

\* The panel has spoken since the probe was sent: the check knows.
SpokeIsHeard ==
    /\ spoke # "unsent" => sentEvent
    /\ task = "sending" /\ link = "up" /\ answer # "none" =>
          answer = "reply" \/ spoke = "unsent"
    /\ task = "sending" /\ answer = "none" /\ spoke # "unsent" =>
          active = "probe" /\ stage = "sent" /\ (heard \/ spoke = "no")
    /\ task = "waiting" /\ spoke = "yes" => heard \/ answer = "reply"

CountIsOpen == task # "off" => missed < MaxMissed

Inv == /\ Watched /\ CountIsOpen /\ OneProbe /\ WriteIsReported /\ EventMeansSent
       /\ LossIsReported /\ OwnCheck /\ SpokeIsHeard

=============================================================================
