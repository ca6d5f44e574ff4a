-------------------------- MODULE SessionLifecycle --------------------------
(***************************************************************************)
(* The life of the Session objects that one kernel owns one after another:  *)
(* E27Kernel.connect and close on the loop, Session.connect in a thread of  *)
(* _CONNECT_EXECUTOR, _recv_loop in a thread of its own, Session.close in    *)
(* whichever thread calls it, and the connection events on their way to the  *)
(* application.  What a teardown does to the commands is RequestPipeline's. *)
(*                                                                         *)
(* The application makes one call at a time, connects only when it is not   *)
(* connected, and may cancel connect() (asyncio.wait_for does).  A Session   *)
(* is never used again, so a session is the number of its connect().         *)
(***************************************************************************)
EXTENDS Integers, Sequences

CONSTANT MaxSessions  \* bound: calls of connect()

ASSUME LifecycleBounds == MaxSessions \in Nat \ {0}

Session == 1 .. MaxSessions
None == 0

VARIABLES
    current,    \* E27Kernel._session
    connected,  \* state.panel.connected
    closing,    \* E27Kernel._closing
    explicit,   \* E27Kernel._closed_explicitly
    call,       \* the session whose connect() is awaited
    announcing, \* that connect() is past its check of session.state
    closer,     \* the session whose close() is awaited
    phase,      \* Session.state, and "stuck": a HELLO that died with its socket open
    worker,     \* the thread in Session.connect
    recv,       \* the receive thread
    handled,    \* Session._disconnect_handled
    stopped,    \* the receive thread's stop_event
    broken,     \* the link of the session is gone
    cancelled,  \* sessions whose connect() was cancelled
    posts,      \* callbacks posted to the loop
    told,       \* the last connection event the application was given
    disowned    \* history: sessions the kernel let go before it heard from them

kernel  == <<current, connected, closing, explicit>>
calls   == <<call, announcing, closer>>
threads == <<worker, recv>>
sess    == <<phase, handled, stopped>>
app     == <<cancelled, told, disowned>>
vars    == <<kernel, calls, threads, sess, broken, posts, app>>

Event  == {"up", "lost", "refused", "closed"}
Error  == {"io", "protocol", "refused"}
Post   == [kind : {"disconnected"}, session : Session, why : Error]
    \cup [kind : {"connectDone", "connectWakes"}, session : Session, why : {"ok", "failed"}]
    \cup [kind : {"closeDone", "closeWakes", "closeLate"}, session : Session, why : {"ok"}]
    \cup [kind : {"event"}, session : {None}, why : Event]

TypeOK ==
    /\ current \in Session \cup {None}
    /\ connected \in BOOLEAN /\ closing \in BOOLEAN /\ explicit \in BOOLEAN
    /\ call \in Session \cup {None} /\ closer \in Session \cup {None}
    /\ announcing \in BOOLEAN
    /\ phase \in [Session -> {"new", "hello", "active", "stuck", "closed"}]
    /\ worker \in [Session -> {"none", "running", "failed", "ok", "done"}]
    /\ recv \in [Session -> {"none", "running", "failed", "convinced", "closing", "notifying",
                             "done"}]
    /\ handled \in [Session -> BOOLEAN] /\ stopped \in [Session -> BOOLEAN]
    /\ broken \in [Session -> BOOLEAN]
    /\ cancelled \subseteq Session /\ disowned \subseteq Session
    /\ posts \in Seq(Post)
    /\ told \in Event \cup {"none"}

Init ==
    /\ current = None /\ connected = FALSE /\ closing = FALSE /\ explicit = FALSE
    /\ call = None /\ announcing = FALSE /\ closer = None
    /\ phase = [s \in Session |-> "new"]
    /\ worker = [s \in Session |-> "none"] /\ recv = [s \in Session |-> "none"]
    /\ handled = [s \in Session |-> FALSE] /\ stopped = [s \in Session |-> FALSE]
    /\ broken = [s \in Session |-> FALSE]
    /\ cancelled = {} /\ disowned = {}
    /\ posts = <<>> /\ told = "none"

-----------------------------------------------------------------------------
(* Helpers *)

Posted(kind, s, why) == [kind |-> kind, session |-> s, why |-> why]

\* connect() is between its check of the state and its connected event: no await, so
\* nothing else of the loop runs, but the threads do.
LoopIsFree == ~announcing

\* What Session.close() leaves behind, whoever calls it.
CloseSession(s) ==
    /\ phase' = [phase EXCEPT ![s] = "closed"]
    /\ stopped' = [stopped EXCEPT ![s] = TRUE]

\* The event that E27Kernel._on_session_disconnected emits for err, if it emits one.
EventFor(err) == IF err = "refused" THEN "refused" ELSE "lost"

\* Emission calls _on_kernel_event, which posts the event to the same loop.
Emitted(event) == Posted("event", None, event)

-----------------------------------------------------------------------------
(* The application's calls *)

\* Wrong: the flag of the last close() is not reset.
ConnectKeepsExplicit(s) ==
    /\ LoopIsFree /\ call = None /\ closer = None /\ ~connected
    /\ phase[s] = "new" /\ \A t \in Session : t < s => phase[t] # "new"
    /\ call' = s
    /\ phase' = [phase EXCEPT ![s] = "hello"]
    /\ worker' = [worker EXCEPT ![s] = "running"]
    /\ UNCHANGED <<kernel, announcing, closer, recv, handled, stopped, broken, posts, app>>

Connect(s) ==
    /\ LoopIsFree /\ call = None /\ closer = None /\ ~connected
    /\ phase[s] = "new" /\ \A t \in Session : t < s => phase[t] # "new"
    /\ explicit' = FALSE
    /\ call' = s
    /\ phase' = [phase EXCEPT ![s] = "hello"]
    /\ worker' = [worker EXCEPT ![s] = "running"]
    /\ UNCHANGED <<current, connected, closing, announcing, closer, recv, handled, stopped, broken,
                   posts, app>>

\* CancelledError in connect(): the executor's thread cannot be stopped.  Its done callback
\* closes the session, at once when the thread is done.
Cancel ==
    /\ LoopIsFree /\ call # None
    /\ call' = None
    /\ cancelled' = cancelled \cup {call}
    /\ disowned' = disowned \cup {call}
    /\ posts' = IF worker[call] = "done" THEN Append(posts, Posted("closeLate", call, "ok"))
                ELSE posts
    /\ UNCHANGED <<kernel, announcing, closer, threads, sess, broken, told>>

\* close() without a session returns at once and changes nothing here.
Close ==
    /\ LoopIsFree /\ call = None /\ closer = None /\ current # None
    /\ closer' = current
    /\ current' = None /\ connected' = FALSE
    /\ closing' = TRUE /\ explicit' = TRUE
    /\ UNCHANGED <<call, announcing, threads, sess, broken, posts, app>>

-----------------------------------------------------------------------------
(* Session.connect, in the executor's thread *)

ConnectRefusedByTcp(s) ==
    /\ worker[s] = "running" /\ phase[s] = "hello"
    /\ phase' = [phase EXCEPT ![s] = "closed"]
    /\ worker' = [worker EXCEPT ![s] = "failed"]
    /\ UNCHANGED <<kernel, calls, recv, handled, stopped, broken, posts, app>>

\* The HELLO fails with an E27Error: a refusal by the panel, or anything else.
HelloFails(s, err) ==
    /\ worker[s] = "running" /\ phase[s] = "hello"
    /\ handled' = [handled EXCEPT ![s] = TRUE]
    /\ phase' = [phase EXCEPT ![s] = "closed"]
    /\ posts' = Append(posts, Posted("disconnected", s, err))
    /\ worker' = [worker EXCEPT ![s] = "failed"]
    /\ UNCHANGED <<kernel, calls, recv, stopped, broken, app>>

\* An OSError of the read before the HELLO is no E27Error: the exception leaves the
\* session as it is.
HelloDies(s) ==
    /\ worker[s] = "running" /\ phase[s] = "hello"
    /\ phase' = [phase EXCEPT ![s] = "stuck"]
    /\ worker' = [worker EXCEPT ![s] = "failed"]
    /\ UNCHANGED <<kernel, calls, recv, handled, stopped, broken, posts, app>>

HelloSucceeds(s) ==
    /\ worker[s] = "running" /\ phase[s] = "hello"
    /\ phase' = [phase EXCEPT ![s] = "active"]
    /\ recv' = [recv EXCEPT ![s] = "running"]
    /\ worker' = [worker EXCEPT ![s] = "ok"]
    /\ UNCHANGED <<kernel, calls, handled, stopped, broken, posts, app>>

\* The thread's result, and its done callbacks: the await of connect(), or the close of a
\* session whose connect() was cancelled.
WorkerReturns(s) ==
    /\ worker[s] \in {"ok", "failed"}
    /\ worker' = [worker EXCEPT ![s] = "done"]
    /\ posts' = Append(posts, IF s \in cancelled THEN Posted("closeLate", s, "ok")
                              ELSE Posted("connectDone", s, worker[s]))
    /\ UNCHANGED <<kernel, calls, recv, sess, broken, app>>

-----------------------------------------------------------------------------
(* The receive thread *)

LinkBreaks(s) ==
    /\ phase[s] = "active" /\ ~broken[s]
    /\ broken' = [broken EXCEPT ![s] = TRUE]
    /\ UNCHANGED <<kernel, calls, threads, sess, posts, app>>

\* recv_json raises: the link is gone, or a close() took the socket away in mid-read.
RecvFails(s) ==
    /\ recv[s] = "running"
    /\ broken[s] \/ phase[s] = "closed"
    /\ recv' = [recv EXCEPT ![s] = "failed"]
    /\ UNCHANGED <<kernel, calls, worker, sess, broken, posts, app>>

\* The loop condition, and the checks before _handle_disconnect.
MayReport(s) == ~stopped[s] /\ ~handled[s]

RecvStops(s) ==
    /\ recv[s] \in {"running", "failed"} /\ ~MayReport(s)
    /\ recv' = [recv EXCEPT ![s] = "done"]
    /\ UNCHANGED <<kernel, calls, worker, sess, broken, posts, app>>

RecvDecides(s) ==
    /\ recv[s] = "failed" /\ MayReport(s)
    /\ recv' = [recv EXCEPT ![s] = "convinced"]
    /\ UNCHANGED <<kernel, calls, worker, sess, broken, posts, app>>

\* _try_begin_disconnect_teardown, under the lock.
RecvBeginsTeardown(s) ==
    /\ recv[s] = "convinced"
    /\ recv' = [recv EXCEPT ![s] = IF handled[s] THEN "done" ELSE "closing"]
    /\ handled' = [handled EXCEPT ![s] = TRUE]
    /\ UNCHANGED <<kernel, calls, worker, phase, stopped, broken, posts, app>>

RecvCloses(s) ==
    /\ recv[s] = "closing"
    /\ CloseSession(s)
    /\ recv' = [recv EXCEPT ![s] = "notifying"]
    /\ UNCHANGED <<kernel, calls, worker, handled, broken, posts, app>>

RecvNotifies(s, err) ==
    /\ recv[s] = "notifying"
    /\ posts' = Append(posts, Posted("disconnected", s, err))
    /\ recv' = [recv EXCEPT ![s] = "done"]
    /\ UNCHANGED <<kernel, calls, worker, sess, broken, app>>

-----------------------------------------------------------------------------
(* The thread of kernel.close() *)

CloserCloses ==
    /\ closer # None /\ ~stopped[closer]
    /\ CloseSession(closer)
    /\ UNCHANGED <<kernel, calls, threads, handled, broken, posts, app>>

\* Wrong: close() does not wait for the receive thread.
JoinedNever(s) == TRUE

\* close() joins the receive thread: that one reads for io_timeout_s (0.5 s) at most and the
\* join waits for a second.
Joined(s) == recv[s] \in {"none", "done"}

CloserReturns ==
    /\ closer # None /\ stopped[closer] /\ phase[closer] = "closed"
    /\ Joined(closer)
    /\ \A i \in 1 .. Len(posts) : posts[i].kind \notin {"closeDone", "closeWakes"}
    /\ posts' = Append(posts, Posted("closeDone", closer, "ok"))
    /\ UNCHANGED <<kernel, calls, threads, sess, broken, app>>

-----------------------------------------------------------------------------
(* The loop: callbacks in the order in which they were posted *)

Runs(kind) == LoopIsFree /\ posts # <<>> /\ Head(posts).kind = kind

\* The future of a thread is set in one callback, its awaiting task goes on in a later one.
FutureIsSet ==
    /\ Runs("connectDone") \/ Runs("closeDone")
    /\ LET p == Head(posts) IN
       posts' = Append(Tail(posts),
                       [p EXCEPT !.kind = IF p.kind = "connectDone" THEN "connectWakes"
                                          ELSE "closeWakes"])
    /\ UNCHANGED <<kernel, calls, threads, sess, broken, app>>

\* Wrong: the state is not checked again.
ConnectGoesOnUnchecked ==
    /\ Runs("connectWakes") /\ Head(posts).why = "ok" /\ call = Head(posts).session
    /\ posts' = Tail(posts)
    /\ current' = call
    /\ announcing' = TRUE
    /\ UNCHANGED <<connected, closing, explicit, call, closer, threads, sess, broken, app>>

\* The session has a disconnect to report, or will have one when its link breaks.
Alive(s) ==
    \/ worker[s] = "running" \/ recv[s] \in {"convinced", "closing", "notifying"}
    \/ recv[s] \in {"running", "failed"} /\ ~stopped[s]
Reported(i, s) == posts[i].kind = "disconnected" /\ posts[i].session = s
MayStillReport(s) == Alive(s) \/ \E i \in 1 .. Len(posts) : Reported(i, s)

\* connect() goes on with the session, ACTIVE or not; the previous one is replaced unclosed.
ConnectGoesOn ==
    /\ Runs("connectWakes") /\ Head(posts).why = "ok" /\ call = Head(posts).session
    /\ posts' = Tail(posts)
    /\ current' = call
    /\ announcing' = (phase[call] = "active")
    /\ call' = IF phase[call] = "active" THEN call ELSE None
    /\ disowned' = disowned \cup {s \in Session : s = current /\ MayStillReport(s)}
    /\ UNCHANGED <<connected, closing, explicit, closer, threads, sess, broken, cancelled, told>>

ConnectAnnounces ==
    /\ announcing
    /\ announcing' = FALSE /\ call' = None
    /\ connected' = TRUE
    /\ posts' = Append(posts, Emitted("up"))
    /\ UNCHANGED <<current, closing, explicit, closer, threads, sess, broken, app>>

\* KernelError: the connect failed.  Or its caller has gone.
ConnectRaises ==
    /\ Runs("connectWakes")
    /\ Head(posts).why = "failed" \/ call # Head(posts).session
    /\ posts' = Tail(posts)
    /\ call' = IF call = Head(posts).session THEN None ELSE call
    /\ UNCHANGED <<kernel, announcing, closer, threads, sess, broken, app>>

\* _close_after_connect, on the loop: nothing is joined.
CloseLate ==
    /\ Runs("closeLate")
    /\ posts' = Tail(posts)
    /\ CloseSession(Head(posts).session)
    /\ UNCHANGED <<kernel, calls, threads, handled, broken, app>>

CloseEnds ==
    /\ Runs("closeWakes")
    /\ closing' = FALSE /\ closer' = None
    /\ posts' = Append(Tail(posts), Emitted("closed"))
    /\ UNCHANGED <<current, connected, explicit, call, announcing, threads, sess, broken, app>>

\* The disconnects that _on_session_disconnected returns from at once.
Ignored(err) == closing \/ (explicit /\ err = "io")

\* Wrong: a session that never came up is reported as a lost link (#80).
SessionDisconnectedUnpaired ==
    /\ Runs("disconnected")
    /\ LET err == Head(posts).why
       IN /\ connected' = (connected /\ Ignored(err))
          /\ posts' = Tail(posts) \o (IF Ignored(err) THEN <<>> ELSE <<Emitted(EventFor(err))>>)
    /\ UNCHANGED <<current, closing, explicit, calls, threads, sess, broken, app>>

\* _on_session_disconnected does not know which session reports.
SessionDisconnected ==
    /\ Runs("disconnected")
    /\ LET err == Head(posts).why
           emits == ~Ignored(err) /\ (connected \/ err = "refused")
       IN /\ connected' = (connected /\ Ignored(err))
          /\ posts' = Tail(posts) \o (IF emits THEN <<Emitted(EventFor(err))>> ELSE <<>>)
    /\ UNCHANGED <<current, closing, explicit, calls, threads, sess, broken, app>>

\* Elke27Client._handle_kernel_event gives the application its event.
EventDelivered ==
    /\ Runs("event")
    /\ posts' = Tail(posts)
    /\ told' = Head(posts).why
    /\ UNCHANGED <<kernel, calls, threads, sess, broken, cancelled, disowned>>

\* The keepalive's verdict, or a failed write: handle_disconnect on the loop.
LoopTearsDown(err) ==
    /\ LoopIsFree /\ current # None /\ phase[current] = "active" /\ ~handled[current]
    /\ handled' = [handled EXCEPT ![current] = TRUE]
    /\ CloseSession(current)
    /\ broken' = [broken EXCEPT ![current] = TRUE]
    /\ posts' = Append(posts, Posted("disconnected", current, err))
    /\ UNCHANGED <<kernel, calls, threads, app>>

-----------------------------------------------------------------------------
(* Specification *)

HelloEnds(s) ==
    \/ ConnectRefusedByTcp(s) \/ HelloDies(s) \/ HelloSucceeds(s)
    \/ \E err \in {"refused", "protocol"} : HelloFails(s, err)

RecvGoesOn(s) ==
    \/ RecvFails(s) \/ RecvStops(s) \/ RecvDecides(s) \/ RecvBeginsTeardown(s) \/ RecvCloses(s)
    \/ \E err \in {"io", "protocol"} : RecvNotifies(s, err)

LoopGoesOn ==
    \/ FutureIsSet \/ ConnectGoesOn \/ ConnectAnnounces \/ ConnectRaises \/ CloseLate
    \/ CloseEnds \/ SessionDisconnected \/ EventDelivered

Next ==
    \/ \E s \in Session :
           Connect(s) \/ HelloEnds(s) \/ WorkerReturns(s) \/ LinkBreaks(s) \/ RecvGoesOn(s)
    \/ Cancel \/ Close \/ CloserCloses \/ CloserReturns
    \/ LoopGoesOn
    \/ \E err \in {"io", "protocol"} : LoopTearsDown(err)

\* Threads run, a connect and a HELLO end within their timeouts, the loop runs its callbacks.
\* Nobody has to call, cancel, or break a link.
Fairness ==
    /\ \A s \in Session : WF_vars(HelloEnds(s)) /\ WF_vars(WorkerReturns(s)) /\ WF_vars(RecvGoesOn(s))
    /\ WF_vars(CloserCloses) /\ WF_vars(CloserReturns) /\ WF_vars(LoopGoesOn)

Spec == Init /\ [][Next]_vars /\ Fairness

-----------------------------------------------------------------------------
(* Properties *)

\* Nothing is under way: no callback, no call, no thread between two steps.
Quiet ==
    /\ posts = <<>> /\ call = None /\ closer = None
    /\ \A s \in Session :
           /\ worker[s] \in {"none", "done"}
           /\ recv[s] \in {"none", "done"} \/ (recv[s] = "running" /\ ~broken[s] /\ ~stopped[s])

\* When nothing is under way, the kernel, its session and the application agree: panel.connected
\* says that the current session is ACTIVE, the application was last told "up" exactly then, and no
\* other session is alive.  Claimed as long as no connect() was given up.
Agreement ==
    Quiet /\ disowned = {} =>
        /\ connected <=> (current # None /\ phase[current] = "active")
        /\ connected <=> (told = "up")
        /\ \A s \in Session : phase[s] = "active" => s = current

\* Connection events come in pairs (CLIENT_CONTRACT.md, ConnectionStateChanged): the application is
\* told of a lost link only after it was told that the link is up, and twice of neither.
EventsPair ==
    [][Runs("event") /\ posts' = Tail(posts) =>
          /\ Head(posts).why = "lost" => told = "up"
          /\ Head(posts).why = "up" => told # "up"]_vars

\* _on_session_disconnected does not ask who reports, so it rests on the threads: what a session
\* reports changes the state of the kernel only if it is the current one, or one that the kernel let
\* go without closing it.  In particular close() is through with the receive thread.
StrangersAreDisowned ==
    [][SessionDisconnected /\ connected' # connected =>
          Head(posts).session \in {current} \cup disowned]_vars

\* A broken link of the connected session is noticed: no flag of an earlier close or teardown
\* swallows the report of the receive thread.
LossIsNoticed ==
    \A s \in Session : (connected /\ current = s /\ broken[s]) ~> (~connected \/ current # s)

-----------------------------------------------------------------------------
(* The inductive invariant behind StrangersAreDisowned *)

\* One call at a time, and none while the kernel is connected.
OneCall ==
    /\ closing <=> closer # None
    /\ connected => call = None /\ closer = None
    /\ closer # None => call = None /\ current = None
    /\ announcing => call # None /\ current = call /\ worker[call] = "done"

\* A session that may report is one somebody still cares for, or was let go.
Owned(s) == s \in {current, call, closer} \cup disowned
ReportersAreOwned == \A s \in Session : MayStillReport(s) => Owned(s)

\* Who has closed, or failed to connect, says so last.
LastWord(i) ==
    LET s == posts[i].session IN
    /\ ~Alive(s) /\ ~(phase[s] = "active" /\ ~handled[s])
    /\ \A j \in 1 .. Len(posts) : Reported(j, s) => j < i
ReportsComeFirst ==
    \A i \in 1 .. Len(posts) :
        posts[i].kind \in {"closeDone", "closeWakes"}
        \/ (posts[i].kind \in {"connectDone", "connectWakes"} /\ posts[i].why = "failed")
        => LastWord(i)

\* A thread's result is posted after its last step.
ResultsAreFinal ==
    /\ \A i \in 1 .. Len(posts) :
          /\ posts[i].kind \in {"connectDone", "connectWakes"} => worker[posts[i].session] = "done"
          /\ posts[i].kind \in {"closeDone", "closeWakes"} => posts[i].session = closer
          /\ posts[i].kind = "closeLate" => posts[i].session \in disowned
    /\ \A i, j \in 1 .. Len(posts) :
          {posts[i].kind, posts[j].kind} \subseteq {"closeDone", "closeWakes"} => i = j
    /\ cancelled \subseteq disowned
    /\ current # None => worker[current] = "done"
    /\ closer # None => worker[closer] = "done"
    /\ \A s \in Session :
          /\ phase[s] = "new" => worker[s] = "none"
          /\ worker[s] \in {"none", "running", "failed"} => recv[s] = "none" /\ phase[s] # "active"
          /\ worker[s] \in {"running", "ok", "failed"} => s = call \/ s \in cancelled

LifecycleInv == OneCall /\ ReportersAreOwned /\ ReportsComeFirst /\ ResultsAreFinal

=============================================================================
