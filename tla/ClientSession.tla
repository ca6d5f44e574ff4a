---------------------------- MODULE ClientSession ----------------------------
(***************************************************************************)
(* Whether the client is authenticated, and with which PIN.  Elke27Client   *)
(* keeps the last PIN that the panel accepted, the session that accepted it *)
(* and a flag; three actors ask for an authenticate: a caller of            *)
(* async_execute, a thread in the synchronous request(), and the client     *)
(* itself, which with reauth_on_reconnect sends the PIN once more after a   *)
(* reconnect.  Answers, losses of the link, the connection events and the   *)
(* tasks that wait are callbacks of one loop, in order; the thread runs     *)
(* beside it.                                                               *)
(*                                                                         *)
(* The three statements of _remember_auth_pin are one step, also in the     *)
(* thread.  A HELLO takes longer than the callbacks that are posted when    *)
(* the link is lost; panels choose a new session id at each.                *)
(***************************************************************************)
EXTENDS Integers, Sequences, Queues

CONSTANTS
    Pins,         \* the PINs the application uses
    NoPin,        \* None
    MaxSessions,  \* bound: connects
    MaxAsks,      \* bound: authenticates of the application
    MaxRefreshes  \* bound: async_refresh_csm

ASSUME ClientSessionBounds ==
    /\ NoPin \notin Pins
    /\ MaxSessions \in Nat /\ MaxAsks \in Nat /\ MaxRefreshes \in Nat

VARIABLES
    reauthOn,      \* ClientConfig.reauth_on_reconnect
    link,          \* "none", "up", "dead" until the loop knows, "lost", "closing"
    session,       \* state.panel.session_id, as the number of the connect
    pin,           \* _last_auth_pin
    pinSession,    \* _auth_pin_session_id
    authenticated, \* _authenticated
    dropped,       \* _last_disconnect_at is set
    epoch,         \* _reauth_epoch
    asks,          \* the authenticate of each actor
    posts,         \* callbacks posted to the loop
    accepted,      \* history: the PINs the panel accepted, with the session
    credit,        \* history: of each PIN, acceptances less re-sends
    fresh,         \* history: PINs accepted since the application last disconnected
    overtaken,     \* history: whose answer the client remembered after its session ended
    asked, refreshes

cache   == <<pin, pinSession, authenticated>>
history == <<accepted, credit, fresh, overtaken>>
bounds  == <<asked, refreshes>>
vars    == <<reauthOn, link, session, cache, dropped, epoch, asks, posts, history, bounds>>

-----------------------------------------------------------------------------
Actor == {"caller", "thread", "reauth"}

\* Tasks wait for a future that the loop sets; the thread waits for its own.
Task == Actor \ {"thread"}

\* Stages: "started", its task is created; "asked", the panel has it; "answered", the panel
\* has answered; "waking", the future is set and the task scheduled; "told", the answer is on
\* its way to the thread; "unheard", no answer will reach the thread; "done", the inner task
\* of wait_for has ended.
Idle == [stage |-> "idle", seq |-> 0, pin |-> NoPin, session |-> 0, epoch |-> 0,
         result |-> "none", cancelled |-> FALSE, late |-> FALSE]

Waits(a) == asks[a].stage \in {"asked", "answered"}

\* A callback, with the seq of the request it is for.
Post(k, to, seq, what) == [k |-> k, to |-> to, seq |-> seq, what |-> what]
Event(what) == Post("event", "client", 0, what)
Wake(k, a) == Post(k, a, 0, "none")
IsFor(m) == Waits(m.to) /\ asks[m.to].seq = m.seq

\* A lost link or a close fails the requests: the futures of tasks in posts of their own; the
\* thread's request is forgotten, and the thread not told.
Failure(a) == IF Waits(a) THEN <<Post("result", a, asks[a].seq, "failed")>> ELSE <<>>
Failures == Failure("caller") \o Failure("reauth")
Aborted == IF Waits("thread") THEN [asks EXCEPT !["thread"].stage = "unheard"] ELSE asks

Results == {"ok", "failed"}

Asks == [stage : {"idle", "started", "asked", "answered", "waking", "told", "unheard", "done"},
         seq : Nat, pin : Pins \cup {NoPin}, session : 0..MaxSessions, epoch : Nat,
         result : {"none"} \cup Results, cancelled : BOOLEAN, late : BOOLEAN]

\* Only a task that the client has created itself is started, ends in two steps, is cancelled.
Stages == [caller |-> {"idle", "asked", "answered", "waking"},
           thread |-> {"idle", "asked", "answered", "told", "unheard"},
           reauth |-> {"idle", "started", "asked", "answered", "waking", "done"}]

Posts == [k : {"message"}, to : Actor, seq : Nat, what : Results]
         \cup [k : {"result"}, to : Task, seq : Nat, what : Results]
         \cup {Wake("task", a) : a \in Task}
         \cup {Wake("start", "reauth"), Wake("outer", "reauth")}
         \cup {Wake("disconnected", "kernel"), Wake("closed", "kernel")}
         \cup {Event(what) : what \in {"connected", "lost", "closed"}}

LinkTyped ==
    /\ reauthOn \in BOOLEAN /\ dropped \in BOOLEAN
    /\ link \in {"none", "up", "dead", "lost", "closing"}
    /\ session \in 0..MaxSessions /\ (link \in {"up", "dead"} => session > 0)
CacheTyped ==
    /\ pin \in Pins \cup {NoPin} /\ authenticated \in BOOLEAN
    /\ pinSession \in 0..session
    /\ overtaken \in {"nobody"} \cup Actor
AsksTyped ==
    /\ asks \in [Actor -> Asks]
    /\ \A a \in Actor : asks[a].stage \in Stages[a]
                        /\ (asks[a].cancelled => a = "reauth" /\ asks[a].stage # "idle")
                        /\ (asks[a].stage # "idle" => asks[a].pin \in Pins)
PostsTyped == posts \in Seq(Posts)
CountsTyped == epoch \in Nat /\ asked \in 0..MaxAsks /\ refreshes \in 0..MaxRefreshes
HistoryTyped ==
    /\ accepted \subseteq Pins \X (1..MaxSessions) /\ fresh \subseteq Pins
    /\ credit \in [Pins -> Int]

TypeOK == LinkTyped /\ CacheTyped /\ AsksTyped /\ PostsTyped /\ CountsTyped /\ HistoryTyped

Init ==
    /\ reauthOn \in BOOLEAN /\ link = "none" /\ session = 0
    /\ pin = NoPin /\ pinSession = 0 /\ authenticated = FALSE
    /\ dropped = FALSE /\ epoch = 0
    /\ asks = [a \in Actor |-> Idle]
    /\ posts = <<>>
    /\ accepted = {} /\ credit = [p \in Pins |-> 0] /\ fresh = {} /\ overtaken = "nobody"
    /\ asked = 0 /\ refreshes = 0

-----------------------------------------------------------------------------
(* The cached PIN.                                                           *)

ForgetPin == pin' = NoPin /\ pinSession' = 0

\* _remember_auth_pin, for the authenticate of actor a.
Remember(a) ==
    /\ pin' = asks[a].pin /\ pinSession' = session /\ authenticated' = TRUE
    /\ overtaken' = IF epoch # asks[a].epoch \/ session # asks[a].session THEN a ELSE "nobody"

MarkFailed ==
    /\ ForgetPin /\ authenticated' = FALSE
    /\ UNCHANGED overtaken

SessionAuthPinOfAny == pin

\* The PIN that a CSM refresh carries.
SessionAuthPin == IF pinSession = session THEN pin ELSE NoPin

\* _cancel_reauth: cancel() runs a task that waits once more, after its inner task.
CancelReauth(as, ps) ==
    /\ epoch' = epoch + 1
    /\ posts' = IF Waits("reauth") \/ asks["reauth"].stage = "waking"
                THEN Append(ps, Wake("outer", "reauth")) ELSE ps
    /\ asks' = IF asks["reauth"].stage = "idle" THEN as
               ELSE [as EXCEPT !["reauth"].cancelled = TRUE]

-----------------------------------------------------------------------------
(* The application.                                                          *)

Ask(p) == [Idle EXCEPT !.stage = "asked", !.seq = asked', !.pin = p, !.session = session, !.epoch = epoch]

\* async_execute("control_authenticate"), by a task.
AsyncAuthenticate(p) ==
    /\ asked < MaxAsks /\ asks["caller"].stage = "idle" /\ session > 0
    /\ asked' = asked + 1
    /\ IF link \in {"up", "dead"}
         THEN /\ asks' = [asks EXCEPT !["caller"] = Ask(p)]
              /\ UNCHANGED <<cache, overtaken>>
         ELSE UNCHANGED asks /\ MarkFailed
    /\ UNCHANGED <<reauthOn, link, session, dropped, epoch, posts, accepted, credit, fresh,
                   refreshes>>

\* request(("control", "authenticate")), in a thread.
RequestAuthenticate(p) ==
    /\ asked < MaxAsks /\ asks["thread"].stage = "idle" /\ link \in {"up", "dead"}
    /\ asked' = asked + 1
    /\ asks' = [asks EXCEPT !["thread"] = Ask(p)]
    /\ UNCHANGED <<reauthOn, link, session, cache, dropped, epoch, posts, history, refreshes>>

\* The thread gets its answer from the thread that delivers it, whatever happened meanwhile.
ThreadReturns ==
    /\ asks["thread"].stage = "told"
    /\ IF asks["thread"].result = "ok" THEN Remember("thread") ELSE MarkFailed
    /\ asks' = [asks EXCEPT !["thread"] = Idle]
    /\ UNCHANGED <<reauthOn, link, session, dropped, epoch, posts, accepted, credit, fresh, bounds>>

\* After ten seconds without one it gives up, and changes nothing.
ThreadTimesOut ==
    /\ Waits("thread") \/ asks["thread"].stage = "unheard"
    /\ asks' = [asks EXCEPT !["thread"] = Idle]
    /\ UNCHANGED <<reauthOn, link, session, cache, dropped, epoch, posts, history, bounds>>

RefreshCsm ==
    /\ refreshes < MaxRefreshes /\ link \in {"up", "dead"}
    /\ refreshes' = refreshes + 1
    /\ IF pinSession = session THEN UNCHANGED <<pin, pinSession>> ELSE ForgetPin
    /\ UNCHANGED <<reauthOn, link, session, authenticated, dropped, epoch, asks, posts, accepted,
                   credit, fresh, overtaken, asked>>

Connect ==
    /\ link \in {"none", "lost"} /\ posts = <<>> /\ session < MaxSessions
    /\ link' = "up" /\ session' = session + 1
    /\ posts' = <<Event("connected")>>
    /\ UNCHANGED <<reauthOn, cache, dropped, epoch, asks, history, bounds>>

\* async_disconnect and close(): the thread that closes the session comes back in a post.
Disconnect ==
    /\ link \notin {"closing", "none"}
    /\ CancelReauth(Aborted, posts \o Failures \o <<Wake("closed", "kernel")>>)
    /\ ForgetPin /\ authenticated' = FALSE
    /\ link' = "closing"
    /\ fresh' = {}
    /\ UNCHANGED <<reauthOn, session, dropped, accepted, credit, overtaken, bounds>>

\* With no session there is no event either.  (Bound: only where there is something to forget.)
DisconnectAgain ==
    /\ link = "none" /\ (pin # NoPin \/ authenticated)
    /\ CancelReauth(Aborted, posts \o Failures)
    /\ ForgetPin /\ authenticated' = FALSE
    /\ fresh' = {}
    /\ UNCHANGED <<reauthOn, link, session, dropped, accepted, credit, overtaken, bounds>>

-----------------------------------------------------------------------------
(* The panel and the link.                                                   *)

PanelAnswers(a, result) ==
    /\ link = "up" /\ asks[a].stage = "asked" /\ asks[a].session = session
    /\ asks' = [asks EXCEPT ![a].stage = "answered"]
    /\ posts' = Append(posts, Post("message", a, asks[a].seq, result))
    /\ IF result = "ok"
         THEN /\ accepted' = accepted \cup {<<asks[a].pin, session>>}
              /\ credit' = [credit EXCEPT ![asks[a].pin] = @ + 1]
              /\ fresh' = fresh \cup {asks[a].pin}
         ELSE UNCHANGED <<accepted, credit, fresh>>
    /\ UNCHANGED <<reauthOn, link, session, cache, dropped, epoch, overtaken, bounds>>

LinkDies ==
    /\ link = "up"
    /\ link' = "dead"
    /\ posts' = Append(posts, Wake("disconnected", "kernel"))
    /\ UNCHANGED <<reauthOn, session, cache, dropped, epoch, asks, history, bounds>>

\* A task's wait is over, and the outcome takes the place of a result it has not seen.
\* (A cancellation is not taken back.)
WaitEnds(a, outcome) ==
    /\ ~asks[a].cancelled
    /\ \/ /\ Waits(a)
          /\ asks' = [asks EXCEPT ![a].stage = "waking", ![a].result = outcome]
          /\ posts' = Append(posts, Wake("task", a))
       \/ /\ asks[a].stage = "waking" /\ asks[a].result # "none"
          /\ asks' = [asks EXCEPT ![a].result = outcome]
          /\ UNCHANGED posts
    /\ UNCHANGED <<reauthOn, link, session, cache, dropped, epoch, history, bounds>>

\* The reply timeout, or the one of the call.
TaskTimesOut(a) == WaitEnds(a, "failed")

\* The application cancels the caller's task, which then has no result.
CallerCancelled == WaitEnds("caller", "none")

-----------------------------------------------------------------------------
(* The callbacks: the first of posts runs, ps are the others.                *)

\* Session.on_message: the handler of the thread's route, or the future of a task.
OnMessage(m, ps) ==
    /\ m.k = "message"
    /\ IF m.to = "thread"
         THEN /\ asks' = IF IsFor(m)
                         THEN [asks EXCEPT !["thread"].stage = "told", !["thread"].result = m.what]
                         ELSE asks
              /\ posts' = ps
         ELSE posts' = Append(ps, Post("result", m.to, m.seq, m.what)) /\ UNCHANGED asks
    /\ UNCHANGED <<link, cache, dropped, epoch, history>>

\* A future that is done keeps its result.
SetResult(m, ps) ==
    /\ m.k = "result"
    /\ IF IsFor(m) /\ ~asks[m.to].cancelled
         THEN /\ asks' = [asks EXCEPT ![m.to].stage = "waking", ![m.to].result = m.what]
              /\ posts' = Append(ps, Wake("task", m.to))
         ELSE posts' = ps /\ UNCHANGED asks
    /\ UNCHANGED <<link, cache, dropped, epoch, history>>

\* The end of async_execute("control_authenticate"), which a cancelled caller does not reach.
CallerWakes(m, ps) ==
    /\ m.k = "task" /\ m.to = "caller"
    /\ \/ asks["caller"].result = "ok" /\ Remember("caller")
       \/ asks["caller"].result = "failed" /\ MarkFailed
       \/ asks["caller"].result = "none" /\ UNCHANGED <<cache, overtaken>>
    /\ asks' = [asks EXCEPT !["caller"] = Idle]
    /\ posts' = ps
    /\ UNCHANGED <<link, dropped, epoch, accepted, credit, fresh>>

\* The inner task of the re-authentication ends; the outer one runs later, or is already to.
InnerWakes(m, ps) ==
    /\ m.k = "task" /\ m.to = "reauth"
    /\ asks' = [asks EXCEPT !["reauth"].stage = "done"]
    /\ posts' = IF asks["reauth"].cancelled THEN ps ELSE Append(ps, Wake("outer", "reauth"))
    /\ UNCHANGED <<link, cache, dropped, epoch, history>>

ReauthEndsAnyEpoch ==
    IF asks["reauth"].stage = "done"
      THEN IF asks["reauth"].result = "ok" THEN Remember("reauth") ELSE MarkFailed
      ELSE UNCHANGED <<cache, overtaken>>

\* _async_reauth_after_reconnect, from wait_for on: a result that is there is returned even to
\* a task that was cancelled; the epoch tells.
ReauthEnds ==
    IF asks["reauth"].stage = "done" /\ epoch = asks["reauth"].epoch
      THEN IF asks["reauth"].result = "ok" THEN Remember("reauth") ELSE MarkFailed
      ELSE UNCHANGED <<cache, overtaken>>

ReauthWakes(m, ps) ==
    /\ m.k = "outer"
    /\ ReauthEnds
    /\ asks' = [asks EXCEPT !["reauth"] = Idle]
    /\ posts' = ps
    /\ UNCHANGED <<link, dropped, epoch, accepted, credit, fresh>>

\* The first step of the re-authentication's task.  A task cancelled before it does nothing.
ReauthStarts(m, ps) ==
    /\ m.k = "start"
    /\ posts' = ps
    /\ IF asks["reauth"].cancelled
         THEN asks' = [asks EXCEPT !["reauth"] = Idle] /\ UNCHANGED <<cache, history>>
       ELSE IF link \in {"up", "dead"}
         THEN /\ asks' = [asks EXCEPT !["reauth"].stage = "asked"]
              /\ credit' = [credit EXCEPT ![asks["reauth"].pin] = @ - 1]
              /\ UNCHANGED <<cache, accepted, fresh, overtaken>>
       ELSE /\ MarkFailed
            /\ asks' = [asks EXCEPT !["reauth"] = Idle]
            /\ UNCHANGED <<accepted, credit, fresh>>
    /\ UNCHANGED <<link, dropped, epoch>>

\* _on_session_disconnected: requests fail, then the event.
OnDisconnected(m, ps) ==
    /\ m.k = "disconnected"
    /\ IF link = "dead"
         THEN link' = "lost" /\ asks' = Aborted /\ posts' = ps \o Failures \o <<Event("lost")>>
         ELSE posts' = ps /\ UNCHANGED <<link, asks>>
    /\ UNCHANGED <<cache, dropped, epoch, history>>

\* The end of E27Kernel.close().
OnClosed(m, ps) ==
    /\ m.k = "closed"
    /\ link' = "none"
    /\ posts' = Append(ps, Event("closed"))
    /\ UNCHANGED <<cache, dropped, epoch, asks, history>>

TakeReauthPinKeeps == UNCHANGED <<pin, pinSession>>

TakeReauthPin == ForgetPin

\* _handle_kernel_event of connected = True.
HandleConnected(m, ps) ==
    /\ m.k = "event" /\ m.what = "connected"
    /\ IF dropped
         THEN /\ TakeReauthPin
              /\ IF reauthOn /\ pin # NoPin
                   THEN /\ posts' = Append(ps, Wake("start", "reauth"))
                        /\ asks' = [asks EXCEPT !["reauth"] =
                                      [Idle EXCEPT !.stage = "started",
                                         !.seq = MaxAsks + session, !.pin = pin,
                                         !.session = session, !.epoch = epoch,
                                         !.late = overtaken = "thread"]]
                   ELSE posts' = ps /\ UNCHANGED asks
         ELSE posts' = ps /\ UNCHANGED <<pin, pinSession, asks>>
    /\ UNCHANGED <<link, authenticated, dropped, epoch, accepted, credit, fresh, overtaken>>

\* ... and of connected = False, for a loss and for a close.
ForgetsOptedOut(what) == ~reauthOn

Forgets(what) == what = "closed" \/ ~reauthOn

HandleDisconnected(m, ps) ==
    /\ m.k = "event" /\ m.what \in {"lost", "closed"}
    /\ CancelReauth(asks, ps)
    /\ authenticated' = FALSE
    /\ IF Forgets(m.what) THEN ForgetPin ELSE UNCHANGED <<pin, pinSession>>
    /\ dropped' = TRUE
    /\ UNCHANGED <<link, accepted, credit, fresh, overtaken>>

Callback ==
    /\ posts # <<>>
    /\ LET m == Head(posts)
           ps == Tail(posts)
       IN  \/ OnMessage(m, ps) \/ SetResult(m, ps) \/ CallerWakes(m, ps) \/ InnerWakes(m, ps)
           \/ ReauthWakes(m, ps) \/ ReauthStarts(m, ps) \/ OnDisconnected(m, ps)
           \/ OnClosed(m, ps) \/ HandleConnected(m, ps) \/ HandleDisconnected(m, ps)
    /\ UNCHANGED <<reauthOn, session, bounds>>

Next ==
    \/ \E p \in Pins : AsyncAuthenticate(p) \/ RequestAuthenticate(p)
    \/ ThreadReturns \/ ThreadTimesOut \/ RefreshCsm \/ Connect \/ Disconnect \/ DisconnectAgain
    \/ LinkDies
    \/ \E a \in Actor, result \in {"ok", "failed"} : PanelAnswers(a, result)
    \/ \E a \in Task : TaskTimesOut(a)
    \/ CallerCancelled
    \/ Callback

Spec == Init /\ [][Next]_vars

-----------------------------------------------------------------------------
(* Properties.                                                               *)

\* CHANGES.md:139-141: the client re-sends a PIN at most once per accepted authenticate,
\* whatever becomes of the re-authentication: refused, unanswered, cancelled, accepted.
ResentOnce == \A p \in Pins : credit[p] >= 0

\* A PIN is not sent again by the client after the application disconnected, even when an
\* authenticate was answered as it did, unless the panel accepted it once more; except one
\* whose answer a thread in request() took back late.
NotResentAfterDisconnect ==
    [][asks["reauth"].stage = "started" /\ asks'["reauth"].stage = "asked"
         => asks["reauth"].pin \in fresh \/ asks["reauth"].late]_vars

\* The session goes on, as far as the client has been told.
Lasts == link \in {"up", "dead"} \/ (link = "lost" /\ Event("lost") \in Elems(posts))

\* CHANGES.md:140-142: a re-authentication that a disconnect, a close or a loss of the link
\* overtook changes nothing when it ends, though its answer may be there.
OvertakenRestoresNothing ==
    [][asks["reauth"].stage \notin {"idle", "started"} /\ asks'["reauth"].stage = "idle"
         /\ ~(Lasts /\ session = asks["reauth"].session)
         => UNCHANGED cache]_vars

\* The PIN that a CSM refresh carries was accepted in the session it is sent in, except one
\* whose answer a thread in request() took back late.
OnlyOwnPin ==
    link \in {"up", "dead"} /\ SessionAuthPin # NoPin /\ overtaken # "thread"
        => <<SessionAuthPin, session>> \in accepted

\* client.py:2216, the docstring of authenticated: "True while the panel has accepted an
\* authenticate in the current session."  (When no callback waits to set it right.)
AuthenticatedNow ==
    authenticated /\ posts = <<>> => Lasts /\ (\E p \in Pins : <<p, session>> \in accepted)
=============================================================================
