--------------------------- MODULE RequestPipeline ---------------------------
(***************************************************************************)
(* The path of a command through the client: async_execute (client.py)    *)
(* queues it in the kernel's request scheduler (kernel_loop.py), which     *)
(* keeps one request in flight and hands its frame to the session's        *)
(* OutboundQueue (outbound_loop.py); the reply, a timeout, a failed write, *)
(* a lost link or close() ends it.                                         *)
(*                                                                         *)
(* Threads.  The asyncio loop runs the kernel, the queue's worker task and *)
(* the callers: each of its actions is one callback or one task step, and  *)
(* needs ~kick because _kick_scheduler runs _try_send_next before the      *)
(* callback returns.  The receive thread, the thread of to_thread(send)    *)
(* and the thread that closes the session interleave with it freely.       *)
(*                                                                         *)
(* Abstractions.  Time is the order of events: a deadline, a reply timer   *)
(* or a backoff may end at any moment after it starts.  OutboundQueue       *)
(* keeps the order of frames of one priority; which priority its worker    *)
(* serves next is left open (it may already be waiting for a normal one).  *)
(***************************************************************************)
EXTENDS Integers, Sequences, FiniteSets, Queues

CONSTANTS
    Cmd,         \* the commands of the run, one JSON seq each
    NoCmd,       \* no command (None)
    Waited,      \* issued by async_execute: a caller awaits the outcome;
                 \* the others are bootstrap requests nobody awaits
    ReadOnly,    \* read-only routes: no unknown outcome is reported
    Urgent,      \* queued with OutboundPriority.HIGH
    Disarm,      \* area.set_arm_state with arm_state=DISARMED
    Resend,      \* may be resent after a confirmed send (disarm, get_*)
    NoRetry,     \* never retried: disabled routes, raw frames, keepalive
    MaxRetries,  \* request_max_retries
    MaxSessions  \* bound: sessions established in one behaviour

ASSUME CommandKinds ==
    /\ NoCmd \notin Cmd
    /\ {Waited, ReadOnly, Urgent, Disarm, Resend, NoRetry} \subseteq SUBSET Cmd
    /\ Disarm \subseteq Urgent \cap Resend

ASSUME Bounds == MaxRetries \in Nat /\ MaxSessions \in Nat

VARIABLES
    highQ, normalQ,  \* _request_queue_high, _request_queue_normal
    backoff,         \* _transport_retry_item_by_seq: waiting for a retry timer
    attempt,         \* _QueuedRequest.attempt
    expired,         \* commands whose deadline_at has passed
    active,          \* _active_seq, NoCmd when _request_state is IDLE
    activeSent,      \* _active_sent_at is not None
    timer,           \* the seq _active_timeout_handle was armed for
    kick,            \* _kick_scheduler called, _try_send_next about to run
    pending,         \* _pending_responses
    result,          \* what the future of a waiting caller holds
    sentEvents,      \* _sent_events: registered, not yet set
    confirmed,       \* _confirmed_sent_seqs
    correlated,      \* the dispatcher's pending requests
    caller,          \* where the caller of the command is
    outcome,         \* what the caller was told
    frame,           \* where the command's frame is in the OutboundQueue
    outQ,            \* the frames posted or queued there, in order
    worker,          \* the OutboundQueue worker task
    session,         \* E27Kernel._session is not None
    connected,       \* state.panel.connected
    link,            \* Session.state and how far its teardown is
    posts,           \* callbacks posted to the loop by the session's threads
    sessions,        \* sessions established so far
    wire,            \* frames of the command written to the socket
    unanswered       \* of those, the ones the panel may still answer

queues  == <<highQ, normalQ, backoff, attempt>>
gate    == <<active, activeSent, timer, kick>>
replies == <<pending, result, sentEvents, confirmed, correlated>>
callers == <<caller, outcome>>
conn    == <<session, connected, link, posts, sessions>>
outbound == <<frame, outQ, worker>>
panel   == <<wire, unanswered>>
vars    == <<queues, expired, gate, replies, callers, outbound, conn, panel>>

Result  == {"none", "reply", "timeout", "lost", "io", "failed", "closed"}
Outcome == {"none", "ok", "timeout", "unknown", "error", "cancelled",
            "cancelled_unknown", "refused"}
Stage   == {"none", "posted", "queued", "taken", "skipped", "sending",
            "written", "io", "unready"}

\* What a session thread posts: a message of the panel (its seq), the
\* OutboundQueue's _stop, the kernel's on_disconnected.
Stop == <<"stop", NoCmd>>
Gone == <<"disconnected", NoCmd>>
Message(c) == <<"message", c>>
Post == {Message(c) : c \in Cmd} \cup {Stop, Gone}

TypeOK ==
    /\ highQ \in Seq(Cmd) /\ normalQ \in Seq(Cmd)
    /\ backoff \subseteq Cmd
    /\ attempt \in [Cmd -> 0..MaxRetries]
    /\ expired \subseteq Cmd
    /\ active \in Cmd \cup {NoCmd} /\ timer \in Cmd \cup {NoCmd}
    /\ activeSent \in BOOLEAN /\ kick \in BOOLEAN
    /\ pending \subseteq Cmd /\ sentEvents \subseteq Cmd
    /\ confirmed \subseteq Cmd /\ correlated \subseteq Cmd
    /\ result \in [Cmd -> Result]
    /\ caller \in [Cmd -> {"idle", "waiting", "detached", "done"}]
    /\ outcome \in [Cmd -> Outcome]
    /\ frame \in [Cmd -> Stage] /\ outQ \in Seq(Cmd)
    /\ worker \in {"running", "stopped"}
    /\ session \in BOOLEAN /\ connected \in BOOLEAN
    /\ link \in {"active", "closing", "down", "lost"}
    /\ posts \in Seq(Post)
    /\ sessions \in 0..MaxSessions
    /\ wire \in [Cmd -> Nat] /\ unanswered \in [Cmd -> Nat]

Init ==
    /\ highQ = <<>> /\ normalQ = <<>> /\ backoff = {}
    /\ attempt = [c \in Cmd |-> 0]
    /\ expired = {}
    /\ active = NoCmd /\ activeSent = FALSE /\ timer = NoCmd /\ kick = FALSE
    /\ pending = {} /\ sentEvents = {} /\ confirmed = {} /\ correlated = {}
    /\ result = [c \in Cmd |-> "none"]
    /\ caller = [c \in Cmd |-> "idle"] /\ outcome = [c \in Cmd |-> "none"]
    /\ frame = [c \in Cmd |-> "none"] /\ outQ = <<>> /\ worker = "stopped"
    /\ session = FALSE /\ connected = FALSE /\ link = "lost"
    /\ posts = <<>> /\ sessions = 0
    /\ wire = [c \in Cmd |-> 0] /\ unanswered = [c \in Cmd |-> 0]

-----------------------------------------------------------------------------
(* Helpers.                                                                *)

Queued == Elems(highQ) \cup Elems(normalQ)

\* The session still says ACTIVE: until close() sets its state.
StateActive == session /\ link \in {"active", "closing"}

\* The frame the worker task is busy with.
Current == {c \in Cmd : frame[c] \in
              {"taken", "skipped", "sending", "written", "io", "unready"}}

\* Fail or resolve the futures of S that are still pending, with r.
Settle(S, r) ==
    /\ result' = [c \in Cmd |-> IF c \in S \cap pending THEN r ELSE result[c]]
    /\ pending' = pending \ S

\* _complete_active: release the gate, cancel its timer and kick.
CompleteActive ==
    /\ active' = NoCmd /\ activeSent' = FALSE /\ timer' = NoCmd
    /\ kick' = TRUE

\* Wrong: a confirmed send is forgotten; one attempt too many.
RetryAllowedAfterSend(c, sent) ==
    c \notin NoRetry /\ c \notin expired /\ attempt[c] < MaxRetries

\* _transport_retry_allowed.
RetryAllowed(c, sent) ==
    /\ c \notin NoRetry
    /\ c \notin expired
    /\ attempt[c] < MaxRetries
    /\ sent => c \in Resend

\* Wrong: retries are not counted.
TransportFailureUncounted(c, sent, hq, r) ==
    /\ CompleteActive
    /\ correlated' = correlated \ {c}
    /\ IF RetryAllowed(c, sent)
       THEN /\ IF c \in Disarm
               THEN highQ' = <<c>> \o hq /\ UNCHANGED backoff
               ELSE highQ' = hq /\ backoff' = backoff \cup {c}
            /\ UNCHANGED <<attempt, pending, result, sentEvents>>
       ELSE /\ Settle({c}, r)
            /\ sentEvents' = sentEvents \ {c}
            /\ highQ' = hq
            /\ UNCHANGED <<backoff, attempt>>

\* _handle_transport_failure for the active request c: a disarm goes back to
\* the front of the HIGH queue hq, another command waits for its backoff, and
\* one that may not be retried fails with r.
TransportFailure(c, sent, hq, r) ==
    /\ CompleteActive
    /\ correlated' = correlated \ {c}
    /\ IF RetryAllowed(c, sent)
       THEN /\ attempt' = [attempt EXCEPT ![c] = @ + 1]
            /\ IF c \in Disarm
               THEN highQ' = <<c>> \o hq /\ backoff' = backoff \ {c}
               ELSE highQ' = hq /\ backoff' = backoff \cup {c}
            /\ UNCHANGED <<pending, result, sentEvents>>
       ELSE /\ Settle({c}, r)
            /\ sentEvents' = sentEvents \ {c}
            /\ highQ' = hq
            /\ UNCHANGED <<backoff, attempt>>

\* A session teardown begun on the loop thread runs close() to its end there.
\* Only the first teardown of a session does anything.
TearDownOnLoop ==
    IF session /\ link = "active"
    THEN /\ link' = "lost" /\ posts' = posts \o <<Stop, Gone>>
         /\ unanswered' = [c \in Cmd |-> 0]
    ELSE UNCHANGED <<link, posts, unanswered>>

-----------------------------------------------------------------------------
(* The connection.                                                         *)

\* connect(): a session becomes ACTIVE with a fresh OutboundQueue.  It takes
\* many turns of the loop, so every callback of the old session has run.
Connect ==
    /\ ~kick /\ link = "lost" /\ sessions < MaxSessions
    /\ posts = <<>> /\ \A c \in Cmd : frame[c] = "none"
    /\ session' = TRUE /\ connected' = TRUE /\ link' = "active"
    /\ sessions' = sessions + 1
    /\ worker' = "running"
    /\ UNCHANGED <<queues, expired, gate, replies, callers, frame, outQ, posts, panel>>

\* close() in another thread: the receive thread after a failed read, or the
\* to_thread of E27Kernel.close().  It posts _stop and drops the queue, and
\* nothing the panel still sends is read ...
TeardownBegins ==
    /\ link = "active"
    /\ link' = "closing"
    /\ posts' = Append(posts, Stop)
    /\ unanswered' = [c \in Cmd |-> 0]
    /\ UNCHANGED <<queues, expired, gate, replies, callers, outbound,
                   session, connected, sessions, wire>>

\* ... closes the socket and leaves ACTIVE ...
TeardownCloses ==
    /\ link = "closing"
    /\ link' = "down"
    /\ UNCHANGED <<queues, expired, gate, replies, callers, outbound,
                   session, connected, posts, sessions, panel>>

\* ... and on a lost link tells the kernel.  After E27Kernel.close() the
\* callback is not posted, or is ignored (_closing).
TeardownNotifies ==
    /\ link = "down"
    /\ link' = "lost"
    /\ posts' = IF session THEN Append(posts, Gone) ELSE posts
    /\ UNCHANGED <<queues, expired, gate, replies, callers, outbound,
                   session, connected, sessions, panel>>

\* The panel answers a frame; the receive thread posts the message.
PanelAnswers(c) ==
    /\ unanswered[c] > 0 /\ link = "active"
    /\ unanswered' = [unanswered EXCEPT ![c] = @ - 1]
    /\ posts' = Append(posts, Message(c))
    /\ UNCHANGED <<queues, expired, gate, replies, callers, outbound,
                   session, connected, link, sessions, wire>>

-----------------------------------------------------------------------------
(* Callers.                                                                *)

\* send_request_with_seq: register the future and the sent event, queue the
\* command and kick.
Issue(c) ==
    /\ ~kick /\ caller[c] = "idle" /\ StateActive
    /\ caller' = [caller EXCEPT ![c] =
                    IF c \in Waited THEN "waiting" ELSE "detached"]
    /\ pending' = IF c \in Waited THEN pending \cup {c} ELSE pending
    /\ sentEvents' = IF c \in Waited THEN sentEvents \cup {c} ELSE sentEvents
    /\ IF c \in Urgent
       THEN highQ' = Append(highQ, c) /\ UNCHANGED normalQ
       ELSE normalQ' = Append(normalQ, c) /\ UNCHANGED highQ
    /\ kick' = TRUE
    /\ UNCHANGED <<backoff, attempt, expired, active, activeSent, timer, result,
                   confirmed, correlated, outcome, outbound, conn, panel>>

\* The session is gone: KernelError.  The future is dropped; the sent event
\* registered before the call stays behind.
IssueRefused(c) ==
    /\ ~kick /\ caller[c] = "idle" /\ ~StateActive
    /\ caller' = [caller EXCEPT ![c] = "done"]
    /\ outcome' = [outcome EXCEPT ![c] = "refused"]
    /\ sentEvents' = IF c \in Waited THEN sentEvents \cup {c} ELSE sentEvents
    /\ UNCHANGED <<queues, expired, gate, pending, result, confirmed, correlated,
                   outbound, conn, panel>>

\* deadline_at passes (the caller's own budget starts with it).
DeadlinePasses(c) ==
    /\ caller[c] \in {"waiting", "detached"} /\ c \notin expired
    /\ expired' = expired \cup {c}
    /\ UNCHANGED <<queues, gate, replies, callers, outbound, conn, panel>>

Finish(c, o) ==
    /\ caller' = [caller EXCEPT ![c] = "done"]
    /\ outcome' = [outcome EXCEPT ![c] = o]

\* was_request_sent: on_sent ran while the sent event was registered.
OutcomeUnknown(c) == c \notin ReadOnly /\ c \in confirmed

\* The caller wakes: the sent event is set and the future is done.
CallerResumes(c) ==
    /\ ~kick /\ caller[c] = "waiting"
    /\ c \notin sentEvents /\ result[c] # "none"
    /\ Finish(c, CASE result[c] = "reply" -> "ok"
                   [] result[c] = "timeout" ->
                        IF OutcomeUnknown(c) THEN "unknown" ELSE "timeout"
                   [] OTHER -> "error")
    /\ result' = [result EXCEPT ![c] = "none"]
    /\ confirmed' = confirmed \ {c}
    /\ UNCHANGED <<queues, expired, gate, pending, sentEvents, correlated,
                   outbound, conn, panel>>

\* Wrong: a command that waits in a queue is not taken out of it.
CancelTransportKeepsPlace(c) ==
    /\ backoff' = backoff \ {c}
    /\ frame' = IF ~session \/ link # "active" THEN frame
                ELSE [frame EXCEPT ![c] = CASE @ = "queued" -> "none"
                                            [] @ = "taken" -> "skipped"
                                            [] OTHER -> @]
    /\ outQ' = IF session /\ link = "active" /\ frame[c] = "queued"
               THEN Without(outQ, c) ELSE outQ
    /\ correlated' = correlated \ {c}
    /\ pending' = pending \ {c} /\ result' = [result EXCEPT ![c] = "none"]
    /\ sentEvents' = sentEvents \ {c}
    /\ IF active = c THEN CompleteActive ELSE UNCHANGED gate
    /\ confirmed' = confirmed \ {c}
    /\ UNCHANGED <<attempt, highQ, normalQ>>

\* cancel_command_transport: forget every resend of c, take its frame back if
\* it still can be, drop its future and, if c is active, release the gate.
CancelTransport(c) ==
    /\ backoff' = backoff \ {c}
    /\ highQ' = Without(highQ, c) /\ normalQ' = Without(normalQ, c)
    /\ frame' = IF ~session \/ link # "active" THEN frame
                ELSE [frame EXCEPT ![c] = CASE @ = "queued" -> "none"
                                            [] @ = "taken" -> "skipped"
                                            [] OTHER -> @]
    /\ outQ' = IF session /\ link = "active" /\ frame[c] = "queued"
               THEN Without(outQ, c) ELSE outQ
    /\ correlated' = correlated \ {c}
    /\ pending' = pending \ {c} /\ result' = [result EXCEPT ![c] = "none"]
    /\ sentEvents' = sentEvents \ {c}
    /\ IF active = c THEN CompleteActive ELSE UNCHANGED gate
    /\ confirmed' = confirmed \ {c}
    /\ UNCHANGED attempt

\* The caller's budget runs out, possibly as the answer comes in.
CallerTimesOut(c) ==
    /\ ~kick /\ caller[c] = "waiting" /\ c \in expired
    /\ Finish(c, IF OutcomeUnknown(c) THEN "unknown" ELSE "timeout")
    /\ CancelTransport(c)
    /\ UNCHANGED <<expired, worker, conn, panel>>

\* The task of the caller is cancelled.
CallerCancelled(c) ==
    /\ ~kick /\ caller[c] = "waiting"
    /\ Finish(c, IF OutcomeUnknown(c) THEN "cancelled_unknown" ELSE "cancelled")
    /\ CancelTransport(c)
    /\ UNCHANGED <<expired, worker, conn, panel>>

-----------------------------------------------------------------------------
(* _try_send_next, which runs as the last thing of the callback that kicked. *)

Next1 == IF highQ # <<>> THEN Head(highQ) ELSE Head(normalQ)
HighRest == IF highQ # <<>> THEN Tail(highQ) ELSE highQ
NormalRest == IF highQ # <<>> THEN normalQ ELSE Tail(normalQ)

Sendable == active = NoCmd /\ (highQ # <<>> \/ normalQ # <<>>) /\ StateActive

NothingToSend ==
    /\ kick /\ ~Sendable
    /\ kick' = FALSE
    /\ UNCHANGED <<queues, expired, active, activeSent, timer, replies, callers,
                   outbound, conn, panel>>

\* The next command is past its deadline: fail it and kick again.
DropExpired ==
    /\ kick /\ Sendable /\ Next1 \in expired
    /\ highQ' = HighRest /\ normalQ' = NormalRest
    /\ backoff' = backoff \ {Next1}
    /\ correlated' = correlated \ {Next1}
    /\ Settle({Next1}, "timeout")
    /\ sentEvents' = sentEvents \ {Next1}
    /\ UNCHANGED <<attempt, expired, gate, confirmed, callers, outbound,
                   conn, panel>>

\* Wrong: the send is not remembered for the caller.
RequestSentUnconfirmed(c, isActive) ==
    /\ activeSent' = (isActive \/ activeSent)
    /\ sentEvents' = sentEvents \ {c}
    /\ timer' = c
    /\ UNCHANGED confirmed

\* _on_request_sent: note the send, wake the caller, arm the reply timer (for
\* this seq, whichever request is active now).
RequestSent(c, isActive) ==
    /\ activeSent' = (isActive \/ activeSent)
    /\ confirmed' = IF c \in sentEvents THEN confirmed \cup {c} ELSE confirmed
    /\ sentEvents' = sentEvents \ {c}
    /\ timer' = c

\* Wrong: the reply timer starts before the frame is sent.
SendNextArmsTimer ==
    /\ kick /\ Sendable /\ Next1 \notin expired
    /\ highQ' = HighRest /\ normalQ' = NormalRest
    /\ active' = Next1 /\ kick' = FALSE /\ activeSent' = FALSE /\ timer' = Next1
    /\ frame' = [frame EXCEPT ![Next1] = "posted"]
    /\ outQ' = Append(outQ, Next1)
    /\ UNCHANGED <<backoff, attempt, expired, pending, result, sentEvents, confirmed,
                   correlated, callers, worker, conn, panel>>

\* The next command takes the gate and its frame goes to the OutboundQueue
\* (call_soon(_put)); only bootstrap requests register a correlation.
SendNext ==
    /\ kick /\ Sendable /\ Next1 \notin expired
    /\ highQ' = HighRest /\ normalQ' = NormalRest
    /\ active' = Next1 /\ kick' = FALSE
    /\ correlated' = IF Next1 \in Waited THEN correlated ELSE correlated \cup {Next1}
    /\ \/ /\ frame' = [frame EXCEPT ![Next1] = "posted"]
          /\ outQ' = Append(outQ, Next1)
          /\ activeSent' = FALSE
          /\ UNCHANGED <<timer, confirmed, sentEvents, panel>>
       \* the queue is gone but the socket still open: written on the loop thread
       \/ /\ link = "closing"
          /\ RequestSent(Next1, TRUE)
          /\ wire' = [wire EXCEPT ![Next1] = @ + 1]
          /\ UNCHANGED <<frame, outQ, unanswered>>
    /\ UNCHANGED <<backoff, attempt, expired, pending, result, callers, worker, conn>>

\* The session is torn down under the call: send_json raises.  A write error
\* (SessionIOError) fails the command; any other error is a failed transport.
SendNextRaises ==
    /\ kick /\ Sendable /\ Next1 \notin expired /\ link = "closing"
    /\ normalQ' = NormalRest
    /\ \/ /\ highQ' = HighRest
          /\ CompleteActive
          /\ correlated' = correlated \ {Next1}
          /\ Settle({Next1}, "io")
          /\ sentEvents' = sentEvents \ {Next1}
          /\ UNCHANGED <<backoff, attempt>>
       \/ TransportFailure(Next1, FALSE, HighRest, "failed")
    /\ UNCHANGED <<expired, confirmed, callers, outbound, conn, panel>>

-----------------------------------------------------------------------------
(* OutboundQueue.                                                          *)

\* No frame of S was posted before that of c.
FirstOf(c, S) ==
    \A i, j \in 1..Len(outQ) : i < j /\ outQ[j] = c => outQ[i] \notin S

\* _put: the frame joins the queue; a stopped queue keeps it for ever.
PutFrame(c) ==
    /\ ~kick /\ frame[c] = "posted"
    /\ FirstOf(c, {b \in Cmd : frame[b] = "posted"})
    /\ IF worker = "running"
       THEN frame' = [frame EXCEPT ![c] = "queued"] /\ UNCHANGED outQ
       ELSE frame' = [frame EXCEPT ![c] = "none"] /\ outQ' = Without(outQ, c)
    /\ UNCHANGED <<queues, expired, gate, replies, callers, worker, conn, panel>>

\* _next_item: the worker takes a frame and waits for a token.  A worker that
\* waits on the normal queue is woken by the next normal frame, also past an
\* urgent one, so either queue may be served first.
TakeFrame(c) ==
    /\ ~kick /\ worker = "running" /\ Current = {} /\ frame[c] = "queued"
    /\ FirstOf(c, {b \in Cmd : b \in Urgent <=> c \in Urgent})
    /\ outQ' = Without(outQ, c)
    /\ frame' = [frame EXCEPT ![c] = "taken"]
    /\ UNCHANGED <<queues, expired, gate, replies, callers, worker, conn, panel>>

\* _throttle returns: send in a thread, unless cancelled meanwhile.
Throttled(c) ==
    /\ ~kick /\ worker = "running" /\ frame[c] \in {"taken", "skipped"}
    /\ frame' = [frame EXCEPT ![c] = IF @ = "taken" THEN "sending" ELSE "none"]
    /\ UNCHANGED <<queues, expired, gate, replies, callers, outQ, worker, conn, panel>>

\* What the write leaves for the worker; a stopped one has left.
Reported(end) == IF worker = "running" THEN end ELSE "none"

\* _send_all in its thread: the frame is written whole ...
FrameWritten(c) ==
    /\ frame[c] = "sending" /\ link \in {"active", "closing"}
    /\ frame' = [frame EXCEPT ![c] = Reported("written")]
    /\ wire' = [wire EXCEPT ![c] = @ + 1]
    /\ unanswered' = [unanswered EXCEPT ![c] = IF link = "active" THEN @ + 1 ELSE @]
    /\ UNCHANGED <<queues, expired, gate, replies, callers, outQ, worker, conn>>

\* ... or the socket fails, or the session is no longer ready.
FrameNotWritten(c) ==
    /\ frame[c] = "sending"
    /\ \/ frame' = [frame EXCEPT ![c] = Reported("io")]
       \/ link # "active" /\ frame' = [frame EXCEPT ![c] = Reported("unready")]
    /\ UNCHANGED <<queues, expired, gate, replies, callers, outQ, worker, conn, panel>>

\* The worker wakes after the write: on_sent.
OnSent(c) ==
    /\ ~kick /\ worker = "running" /\ frame[c] = "written"
    /\ frame' = [frame EXCEPT ![c] = "none"]
    /\ RequestSent(c, active = c)
    /\ UNCHANGED <<queues, expired, active, kick, pending, result, correlated,
                   callers, outQ, worker, conn, panel>>

\* The worker wakes with the socket's error: on_fail, _handle_send_failure.
OnSendIoError(c) ==
    /\ ~kick /\ worker = "running" /\ frame[c] = "io"
    /\ frame' = [frame EXCEPT ![c] = "none"]
    /\ correlated' = correlated \ {c}
    /\ Settle({c}, "io")
    /\ sentEvents' = sentEvents \ {c}
    /\ TearDownOnLoop
    /\ IF active = c THEN CompleteActive ELSE UNCHANGED gate
    /\ UNCHANGED <<queues, expired, confirmed, callers, outQ, worker, session,
                   connected, sessions, wire>>

\* The worker wakes with another error: on_fail, _handle_send_failure.
OnSendFailed(c) ==
    /\ ~kick /\ worker = "running" /\ frame[c] = "unready"
    /\ frame' = [frame EXCEPT ![c] = "none"]
    /\ IF active = c
       THEN TransportFailure(c, FALSE, highQ, "failed")
       ELSE /\ correlated' = correlated \ {c}
            /\ Settle({c}, "failed")
            /\ sentEvents' = sentEvents \ {c}
            /\ UNCHANGED <<highQ, backoff, attempt, gate>>
    /\ UNCHANGED <<normalQ, expired, confirmed, callers, outQ, worker, conn, panel>>

\* _stop: fail what is queued and cancel the worker.  The frame the worker is
\* busy with gets neither on_sent nor on_fail, nor does one put later; a write
\* under way in its thread goes on.
StopQueue ==
    /\ ~kick /\ posts # <<>> /\ Head(posts) = Stop
    /\ posts' = Tail(posts)
    /\ worker' = "stopped"
    /\ LET drained == {c \in Cmd : frame[c] = "queued"}
           left == {c \in Current : frame[c] # "sending"}
       IN /\ frame' = [c \in Cmd |-> IF c \in drained \cup left THEN "none"
                                      ELSE frame[c]]
          /\ outQ' = <<>>
          /\ correlated' = correlated \ drained
          /\ Settle(drained, "io")
          /\ sentEvents' = sentEvents \ drained
          /\ IF active \in drained THEN CompleteActive ELSE UNCHANGED gate
    /\ UNCHANGED <<queues, expired, confirmed, callers, session, connected, link,
                   sessions, panel>>

-----------------------------------------------------------------------------
(* The kernel's callbacks.                                                 *)

\* Wrong: a late reply leaves the retry timer of its command running.
OnMessageKeepsRetry(c) ==
    /\ ~kick /\ posts # <<>> /\ Head(posts) = Message(c)
    /\ posts' = Tail(posts)
    /\ Settle({c}, "reply")
    /\ IF active = c THEN CompleteActive ELSE UNCHANGED gate
    /\ UNCHANGED <<queues, expired, sentEvents, confirmed, correlated, callers,
                   outbound, session, connected, link, sessions, panel>>

\* _on_message: a reply resolves its future, drops every resend of its command
\* and, if its command is active, releases the gate.
OnMessage(c) ==
    /\ ~kick /\ posts # <<>> /\ Head(posts) = Message(c)
    /\ posts' = Tail(posts)
    /\ Settle({c}, "reply")
    /\ backoff' = backoff \ {c}
    /\ highQ' = Without(highQ, c) /\ normalQ' = Without(normalQ, c)
    /\ correlated' = correlated \ {c}
    /\ IF active = c THEN CompleteActive ELSE UNCHANGED gate
    /\ UNCHANGED <<attempt, expired, sentEvents, confirmed, callers, outbound,
                   session, connected, link, sessions, panel>>

\* _on_reply_timeout: only the active request times out.
ReplyTimeout(c) ==
    /\ ~kick /\ timer = c
    /\ IF active = c
       THEN TransportFailure(c, activeSent, highQ, "timeout")
       ELSE /\ timer' = NoCmd
            /\ UNCHANGED <<highQ, backoff, attempt, active, activeSent, kick,
                           pending, result, sentEvents, correlated>>
    /\ UNCHANGED <<normalQ, expired, confirmed, callers, outbound, conn, panel>>

\* Wrong: the retry item stays registered; nobody is kicked.
BackoffEndsTwice(c) ==
    /\ ~kick /\ c \in backoff \ expired
    /\ normalQ' = Append(normalQ, c) /\ kick' = TRUE
    /\ UNCHANGED <<highQ, backoff, attempt, expired, active, activeSent, timer,
                   replies, callers, outbound, conn, panel>>

BackoffEndsUnkicked(c) ==
    /\ ~kick /\ c \in backoff
    /\ backoff' = backoff \ {c}
    /\ normalQ' = Append(normalQ, c)
    /\ UNCHANGED <<highQ, attempt, expired, gate, replies, callers, outbound,
                   conn, panel>>

\* A retry's backoff ends: queue it again, or fail it past its deadline.
BackoffEnds(c) ==
    /\ ~kick /\ c \in backoff
    /\ backoff' = backoff \ {c}
    /\ IF c \in expired
       THEN /\ correlated' = correlated \ {c}
            /\ Settle({c}, "timeout")
            /\ sentEvents' = sentEvents \ {c}
            /\ UNCHANGED <<highQ, normalQ, kick>>
       ELSE /\ IF c \in Urgent
               THEN highQ' = Append(highQ, c) /\ UNCHANGED normalQ
               ELSE normalQ' = Append(normalQ, c) /\ UNCHANGED highQ
            /\ kick' = TRUE
            /\ UNCHANGED <<correlated, pending, result, sentEvents>>
    /\ UNCHANGED <<attempt, expired, active, activeSent, timer, confirmed, callers,
                   outbound, conn, panel>>

\* What _abort_requests and _fail_all_pending_commands share: empty every
\* queue, release the gate without a kick, fail every pending future.
FailEverything(r) ==
    /\ highQ' = <<>> /\ normalQ' = <<>> /\ backoff' = {}
    /\ active' = NoCmd /\ activeSent' = FALSE
    /\ timer' = IF active = NoCmd THEN timer ELSE NoCmd
    /\ correlated' = correlated \ (Queued \cup backoff \cup {active})
    /\ Settle(Cmd, r)
    /\ UNCHANGED <<attempt, kick>>

\* _on_session_disconnected: abort everything on a link that was up.  Only
\* the commands still queued or active have their sent events set.
OnDisconnected ==
    /\ ~kick /\ posts # <<>> /\ Head(posts) = Gone
    /\ posts' = Tail(posts)
    /\ connected' = FALSE
    /\ IF connected
       THEN /\ FailEverything("lost")
            /\ sentEvents' = sentEvents \ (Queued \cup backoff \cup {active})
       ELSE UNCHANGED <<queues, gate, pending, result, sentEvents, correlated>>
    /\ UNCHANGED <<expired, confirmed, callers, outbound, session, link,
                   sessions, panel>>

\* Wrong: the sent events of requests no longer queued or active are left out.
CloseForgetsEvents ==
    /\ ~kick /\ session
    /\ FailEverything("closed")
    /\ sentEvents' = sentEvents \ (Queued \cup backoff \cup {active})
    /\ session' = FALSE /\ connected' = FALSE
    /\ UNCHANGED <<expired, confirmed, callers, outbound, link, posts,
                   sessions, panel>>

\* close(): fail everything, set every sent event, forget the session.
Close ==
    /\ ~kick /\ session
    /\ FailEverything("closed")
    /\ sentEvents' = {}
    /\ session' = FALSE /\ connected' = FALSE
    /\ UNCHANGED <<expired, confirmed, callers, outbound, link, posts,
                   sessions, panel>>

-----------------------------------------------------------------------------
Session == \/ Connect \/ TeardownBegins \/ TeardownCloses \/ TeardownNotifies
           \/ \E c \in Cmd : PanelAnswers(c)

Callers == \E c \in Cmd :
    Issue(c) \/ IssueRefused(c) \/ DeadlinePasses(c) \/ CallerResumes(c)
    \/ CallerTimesOut(c) \/ CallerCancelled(c)

TrySendNext == NothingToSend \/ DropExpired \/ SendNext \/ SendNextRaises

Outbound == \/ StopQueue
            \/ \E c \in Cmd : PutFrame(c) \/ TakeFrame(c) \/ Throttled(c)
                  \/ FrameWritten(c) \/ FrameNotWritten(c) \/ OnSent(c)
                  \/ OnSendIoError(c) \/ OnSendFailed(c)

Kernel == \/ OnDisconnected \/ Close
          \/ \E c \in Cmd : OnMessage(c) \/ ReplyTimeout(c) \/ BackoffEnds(c)

Next == Session \/ Callers \/ TrySendNext \/ Outbound \/ Kernel

Spec == Init /\ [][Next]_vars

\* What the code's scheduling guarantees: the loop runs every callback and
\* task step that is ready, armed timers fire, a write returns within
\* io_write_timeout_s, a teardown runs to its end.  Nothing is assumed of the
\* panel, of callers or of deadlines.
Fairness ==
    /\ WF_vars(TrySendNext) /\ WF_vars(StopQueue) /\ WF_vars(OnDisconnected)
    /\ WF_vars(TeardownCloses) /\ WF_vars(TeardownNotifies)
    /\ WF_vars(TeardownBegins /\ ~session)
    /\ \A c \in Cmd :
         /\ WF_vars(PutFrame(c)) /\ WF_vars(TakeFrame(c)) /\ WF_vars(Throttled(c))
         /\ WF_vars(FrameWritten(c) \/ FrameNotWritten(c))
         /\ WF_vars(OnSent(c) \/ OnSendIoError(c) \/ OnSendFailed(c))
         /\ WF_vars(OnMessage(c)) /\ WF_vars(ReplyTimeout(c)) /\ WF_vars(BackoffEnds(c))

LiveSpec == Spec /\ Fairness

-----------------------------------------------------------------------------
(* Properties.                                                             *)

\* Where the scheduler keeps a command.
Held == Queued \cup backoff \cup ({active} \ {NoCmd})

\* No command is forgotten and none outlives its answer: the futures still
\* pending are exactly those of the commands the scheduler holds (queued,
\* waiting for a retry, or active), whatever order replies, timers, failures
\* and cancellations come in.
PendingIsHeld == pending = Held \cap Waited

\* A command is held in one place: twice queued, or queued while active, it
\* would be sent again after its answer.
QueuedOnce ==
    /\ Distinct(highQ) /\ Distinct(normalQ)
    /\ Elems(highQ) \cap Elems(normalQ) = {}
    /\ Queued \cap backoff = {}
    /\ active \notin Queued \cup backoff

\* Single in-flight request (ADR-0111): among the frames in the OutboundQueue
\* only that of the active request belongs to a command still held; the others
\* were abandoned.  A retry thus never overtakes the frame it repeats.
OneLiveFrame == \A c \in Held : frame[c] # "none" => c = active

\* ADR-0106, CLIENT_CONTRACT "Command transport retries": a frame is written
\* again only for the allowlisted commands, and only within the retry budget.
AtMostOnce ==
    \A c \in Cmd : wire[c] <= IF c \in Resend \ NoRetry THEN MaxRetries + 1 ELSE 1

\* A caller that was told anything is never followed by a new attempt: once it
\* is done and its frame has left the OutboundQueue, no frame of it enters.
NeverRevived ==
    [][\A c \in Cmd : caller[c] = "done" /\ frame[c] = "none" => frame'[c] = "none"]_vars

\* A write is reported as a plain timeout although it reached the socket only
\* in these windows: the worker has not run on_sent yet, or was stopped before
\* it could, or the future was settled before on_sent and the budget ran out
\* before the caller woke.
PlainTimeoutWindow ==
    [][\A c \in Cmd \ ReadOnly :
         /\ outcome[c] = "none" /\ outcome'[c] = "timeout" /\ wire[c] > 0
         => frame[c] = "written" \/ worker = "stopped" \/ result[c] # "none"]_vars

\* ADR-0111: "forward progress even in the presence of lost or delayed
\* responses": whatever the scheduler holds it eventually lets go, with no help
\* from the panel, from deadlines or from callers.
PipelineDrains == \A c \in Cmd : c \in Held ~> c \notin Held

\* Close releases every caller: its future is done and its sent event set.
Released(c) == c \notin sentEvents /\ result[c] # "none"
CloseReleasesAll == ~session => \A c \in Cmd : caller[c] = "waiting" => Released(c)

-----------------------------------------------------------------------------
(* The inductive invariant behind PendingIsHeld, QueuedOnce, OneLiveFrame,  *)
(* AtMostOnce, NeverRevived and CloseReleasesAll.                           *)

\* Writes of c allowed so far, and the stages from which one more may come.
Budget(c) == IF c \in Resend \ NoRetry THEN attempt[c] + 1 ELSE 1
Unwritten == {"posted", "queued", "taken", "skipped", "sending", "io", "unready"}

\* What is held was issued and its caller not answered; what was not issued
\* has left no trace.
HeldIsIssued ==
    \A c \in Cmd :
        /\ c \in Held => caller[c] = IF c \in Waited THEN "waiting" ELSE "detached"
        /\ caller[c] = "idle" => /\ frame[c] = "none" /\ wire[c] = 0
                               /\ timer # c /\ result[c] = "none"

\* A caller waits for a pending future or for one that is already done.
WaitingIsOpen ==
    \A c \in Cmd :
        /\ c \in pending => result[c] = "none"
        /\ caller[c] = "waiting" => c \in pending \/ result[c] # "none"

\* A timer of a command still held is that of the active request, after its
\* frame was sent.
TimerAfterSend == timer \in Held => timer = active /\ activeSent /\ frame[timer] = "none"

\* A command that may still be written has writes left.
WithinBudget ==
    \A c \in Cmd :
        /\ wire[c] <= Budget(c)
        /\ c \in Queued \cup backoff \/ frame[c] \in Unwritten => wire[c] < Budget(c)

\* Once closed, nothing is left to wait for.
ClosedIsReleased ==
    ~session => /\ pending = {} /\ Held = {}
                /\ \A c \in sentEvents : caller[c] # "waiting"

Inv ==
    /\ PendingIsHeld /\ QueuedOnce /\ OneLiveFrame /\ HeldIsIssued
    /\ WaitingIsOpen /\ TimerAfterSend /\ WithinBudget /\ ClosedIsReleased

-----------------------------------------------------------------------------
\* The pipeline implements the command contract: live is what the scheduler
\* holds, in transit what OutboundQueue may still write.
InTransit == {c \in Cmd : frame[c] \in {"posted", "queued", "taken", "sending"}}

Contract == INSTANCE CommandContract WITH
    Limit <- [c \in Cmd |-> IF c \in Resend \ NoRetry THEN MaxRetries + 1 ELSE 1],
    fresh <- {c \in Cmd : caller[c] = "idle"},
    live <- Held,
    transit <- InTransit,
    writes <- wire,
    told <- outcome

ContractSpec == Contract!Spec
=============================================================================
