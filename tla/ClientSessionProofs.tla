------------------------ MODULE ClientSessionProofs ------------------------
(***************************************************************************)
(* Theorems about ClientSession, for every set of PINs and every number of *)
(* sessions, authenticates and refreshes.                                  *)
(***************************************************************************)
EXTENDS ClientSession, QueueProofs

-----------------------------------------------------------------------------
(* The types of the state.                                                 *)

LEMMA ActorsAre ==
  /\ Actor = {"caller", "thread", "reauth"} /\ Task = {"caller", "reauth"}
  /\ Idle \in Asks /\ Idle.stage = "idle" /\ Idle.cancelled = FALSE /\ Idle.result = "none"
  /\ Idle.seq = 0 /\ Idle.epoch = 0
  /\ \A a \in Actor : Idle.stage \in Stages[a]
<1>1. 0 \in 0..MaxSessions
  BY ClientSessionBounds
<1>2. Idle \in Asks
  BY <1>1 DEF Idle, Asks
<1> QED BY <1>2 DEF Actor, Task, Idle, Stages

LEMMA PostsAre ==
  /\ \A a \in Actor, n \in Nat, w \in Results : Post("message", a, n, w) \in Posts
  /\ \A a \in Task, n \in Nat, w \in Results : Post("result", a, n, w) \in Posts
  /\ \A a \in Task : Wake("task", a) \in Posts
  /\ Wake("start", "reauth") \in Posts /\ Wake("outer", "reauth") \in Posts
  /\ Wake("disconnected", "kernel") \in Posts /\ Wake("closed", "kernel") \in Posts
  /\ \A w \in {"connected", "lost", "closed"} : Event(w) \in Posts
  BY DEF Posts, Post

LEMMA PostParts ==
  ASSUME NEW m \in Posts
  PROVE  /\ m.k = "message" => m.to \in Actor /\ m.seq \in Nat /\ m.what \in Results
         /\ m.k = "result" => m.to \in Task /\ m.seq \in Nat /\ m.what \in Results
         /\ m.k = "task" => m.to \in Task /\ m = Wake("task", m.to)
         /\ m.k = "start" => m = Wake("start", "reauth")
         /\ m.k = "outer" => m = Wake("outer", "reauth")
         /\ m.k = "disconnected" => m = Wake("disconnected", "kernel")
         /\ m.k = "closed" => m = Wake("closed", "kernel")
         /\ m.k = "event" => m = Event(m.what)
         /\ m.seq \in Nat
  BY DEF Posts, Wake, Event, Post

\* What AsksTyped says of asks.
Fit(f) ==
    /\ f \in [Actor -> Asks]
    /\ \A a \in Actor : /\ f[a].stage \in Stages[a]
                        /\ f[a].cancelled => a = "reauth" /\ f[a].stage # "idle"
                        /\ f[a].stage # "idle" => f[a].pin \in Pins

LEMMA FitIsTyped == (AsksTyped <=> Fit(asks)) /\ (AsksTyped' <=> Fit(asks'))
  BY DEF AsksTyped, Fit

LEMMA AskTyped ==
  ASSUME NEW f, Fit(f), NEW a \in Actor, NEW r \in Asks, r.stage \in Stages[a],
         r.cancelled => a = "reauth" /\ r.stage # "idle",
         r.stage # "idle" => r.pin \in Pins
  PROVE  Fit([f EXCEPT ![a] = r])
<1>1. f \in [Actor -> Asks]
  BY DEF Fit
<1> DEFINE g == [f EXCEPT ![a] = r]
<1>2. g \in [Actor -> Asks] /\ \A b \in Actor : g[b] = IF b = a THEN r ELSE f[b]
  BY <1>1
<1> HIDE DEF g
<1>3. Fit(g)
  BY <1>2 DEF Fit
<1> QED BY <1>3 DEF g

LEMMA IdleAgain ==
  ASSUME NEW f, Fit(f), NEW a \in Actor
  PROVE  Fit([f EXCEPT ![a] = Idle])
  BY ActorsAre, AskTyped

\* An ask that goes on.
Goes(r, stage, result) == [r EXCEPT !.stage = stage, !.result = result]

LEMMA GoesTyped ==
  ASSUME NEW f, Fit(f), NEW a \in Actor, f[a].stage # "idle",
         NEW stage \in Stages[a] \ {"idle"}, NEW result \in Results \cup {"none"}
  PROVE  Fit([f EXCEPT ![a] = Goes(f[a], stage, result)])
<1>1. f[a] \in Asks /\ f[a].pin \in Pins /\ (f[a].cancelled => a = "reauth")
  BY DEF Fit
<1>2. stage \in {"idle", "started", "asked", "answered", "waking", "told", "unheard", "done"}
  BY DEF Stages, Actor
<1> DEFINE r == Goes(f[a], stage, result)
<1>3. /\ r \in Asks /\ r.stage = stage /\ r.cancelled = f[a].cancelled /\ r.pin = f[a].pin
  BY <1>1, <1>2 DEF Goes, Asks
<1> HIDE DEF r
<1>4. Fit([f EXCEPT ![a] = r])
  BY <1>1, <1>3, AskTyped
<1> QED BY <1>4 DEF r

LEMMA AbortedTyped ==
  ASSUME AsksTyped
  PROVE  /\ Fit(Aborted)
         /\ \A a \in Task : Aborted[a] = asks[a]
         /\ \/ Aborted["thread"] = asks["thread"]
            \/ Waits("thread") /\ Aborted["thread"] = Goes(asks["thread"], "unheard", asks["thread"].result)
<1>1. Fit(asks) /\ asks \in [Actor -> Asks] /\ "thread" \in Actor /\ Task \subseteq Actor /\ "thread" \notin Task
  BY FitIsTyped DEF AsksTyped, Actor, Task
<1>2. asks["thread"].result \in Results \cup {"none"} /\ asks["thread"] \in Asks
  BY <1>1 DEF Asks
<1>3. CASE ~Waits("thread")
  BY <1>1, <1>3 DEF Aborted
<1>4. CASE Waits("thread")
  <2> DEFINE r == Goes(asks["thread"], "unheard", asks["thread"].result)
  <2>1. r = [asks["thread"] EXCEPT !.stage = "unheard"]
    BY <1>2 DEF Goes, Asks
  <2>2. Aborted = [asks EXCEPT !["thread"] = r]
    BY <1>1, <1>4, <2>1 DEF Aborted
  <2>3. asks["thread"].stage # "idle" /\ "unheard" \in Stages["thread"] \ {"idle"}
    BY <1>4 DEF Waits, Stages
  <2>4. Fit([asks EXCEPT !["thread"] = r])
    BY <1>1, <1>2, <2>3, GoesTyped
  <2> HIDE DEF r
  <2> QED BY <1>1, <1>4, <2>2, <2>4 DEF r
<1> QED BY <1>3, <1>4

LEMMA FailuresTyped ==
  ASSUME AsksTyped
  PROVE  Failures \in Seq(Posts)
<1>1. \A a \in Task : asks[a].seq \in Nat
  BY DEF AsksTyped, Asks, Actor, Task
<1>2. \A a \in Task : Failure(a) \in Seq(Posts)
  <2>1. \A p \in Posts : <<p>> \in Seq(Posts)
    OBVIOUS
  <2> QED BY <1>1, <2>1, PostsAre DEF Failure, Results
<1>3. Failure("caller") \in Seq(Posts) /\ Failure("reauth") \in Seq(Posts)
  BY <1>2, ActorsAre
<1> QED BY <1>3, ConcatProperties DEF Failures

LEMMA CancelTyped ==
  ASSUME TypeOK, NEW as, Fit(as), NEW ps \in Seq(Posts), CancelReauth(as, ps),
         as["reauth"] = asks["reauth"]
  PROVE  AsksTyped' /\ PostsTyped' /\ epoch' \in Nat
<1>1. posts' \in Seq(Posts)
  <2>1. Append(ps, Wake("outer", "reauth")) \in Seq(Posts)
    BY PostsAre, AppendProperties
  <2> QED BY <2>1 DEF CancelReauth
<1>2. Fit(asks')
  <2>1. CASE asks["reauth"].stage = "idle"
    BY <2>1 DEF CancelReauth
  <2>2. CASE asks["reauth"].stage # "idle"
    <3> DEFINE r == [as["reauth"] EXCEPT !.cancelled = TRUE]
    <3>1. /\ "reauth" \in Actor /\ as["reauth"] \in Asks /\ as["reauth"].pin \in Pins
          /\ as["reauth"].stage \in Stages["reauth"] /\ as["reauth"].stage # "idle"
      BY <2>2 DEF Fit, Actor
    <3>2. asks' = [as EXCEPT !["reauth"] = r]
      BY <2>2 DEF CancelReauth
    <3>3. r \in Asks /\ r.stage = as["reauth"].stage /\ r.pin = as["reauth"].pin
      BY <3>1 DEF Asks
    <3> HIDE DEF r
    <3> QED BY <3>1, <3>2, <3>3, AskTyped
  <2> QED BY <2>1, <2>2
<1>3. epoch' \in Nat
  BY DEF CancelReauth, TypeOK, CountsTyped
<1> QED BY <1>1, <1>2, <1>3, FitIsTyped DEF PostsTyped

LEMMA TypeInit == Init => TypeOK
<1> SUFFICES ASSUME Init PROVE TypeOK
  OBVIOUS
<1>1. LinkTyped /\ CacheTyped /\ CountsTyped
  <2>1. session \in 0..MaxSessions /\ pinSession \in 0..session /\ CountsTyped
    BY ClientSessionBounds DEF Init, CountsTyped
  <2>2. /\ reauthOn \in BOOLEAN /\ dropped \in BOOLEAN /\ authenticated \in BOOLEAN
        /\ link = "none" /\ pin = NoPin /\ overtaken = "nobody"
    BY DEF Init
  <2> QED BY <2>1, <2>2 DEF LinkTyped, CacheTyped
<1>2. AsksTyped
  <2>1. asks = [a \in Actor |-> Idle]
    BY DEF Init
  <2> QED BY <2>1, ActorsAre DEF AsksTyped
<1>3. PostsTyped /\ HistoryTyped
  BY DEF Init, PostsTyped, HistoryTyped
<1> QED BY <1>1, <1>2, <1>3 DEF TypeOK

LEMMA ForgottenTyped ==
  ASSUME TypeOK, session' = session, UNCHANGED <<cache, overtaken>> \/ MarkFailed
  PROVE  CacheTyped'
<1>1. pin' \in Pins \cup {NoPin} /\ overtaken' \in {"nobody"} \cup Actor
  BY DEF TypeOK, CacheTyped, MarkFailed, ForgetPin, cache
<1>2. pinSession' \in 0..session'
  BY DEF TypeOK, LinkTyped, CacheTyped, MarkFailed, ForgetPin, cache
<1>3. authenticated' \in BOOLEAN
  BY DEF TypeOK, CacheTyped, MarkFailed, cache
<1> QED BY <1>1, <1>2, <1>3 DEF CacheTyped

LEMMA AskIsTyped ==
  ASSUME TypeOK, asked' \in Nat, NEW p \in Pins
  PROVE  /\ Ask(p) \in Asks /\ Ask(p).stage = "asked" /\ Ask(p).cancelled = FALSE
         /\ Ask(p).pin = p
  BY DEF TypeOK, LinkTyped, CountsTyped, Asks, Ask, Idle

LEMMA TypeAsyncAuthenticate ==
  ASSUME TypeOK, NEW p \in Pins, AsyncAuthenticate(p)
  PROVE  TypeOK'
<1>1. asked' \in 0..MaxAsks
  BY ClientSessionBounds DEF AsyncAuthenticate, TypeOK, CountsTyped
<1>2. AsksTyped'
  <2>1. Fit([asks EXCEPT !["caller"] = Ask(p)])
    <3>1. "caller" \in Actor /\ "asked" \in Stages["caller"] /\ Fit(asks) /\ asked' \in Nat
      BY <1>1, FitIsTyped DEF TypeOK, Actor, Stages
    <3> QED BY <3>1, AskIsTyped, AskTyped
  <2> QED BY <2>1, FitIsTyped DEF AsyncAuthenticate, TypeOK
<1>3. PostsTyped' /\ LinkTyped' /\ HistoryTyped'
  BY DEF AsyncAuthenticate, TypeOK, PostsTyped, LinkTyped, HistoryTyped
<1>4. CacheTyped'
  <2>1. UNCHANGED <<cache, overtaken>> \/ MarkFailed
    BY DEF AsyncAuthenticate
  <2>2. UNCHANGED session
    BY DEF AsyncAuthenticate
  <2> QED BY <2>1, <2>2, ForgottenTyped
<1>5. CountsTyped'
  BY <1>1 DEF AsyncAuthenticate, TypeOK, CountsTyped
<1> QED BY <1>2, <1>3, <1>4, <1>5 DEF TypeOK

LEMMA TypeRequestAuthenticate ==
  ASSUME TypeOK, NEW p \in Pins, RequestAuthenticate(p)
  PROVE  TypeOK'
<1>1. asked' \in 0..MaxAsks
  BY ClientSessionBounds DEF RequestAuthenticate, TypeOK, CountsTyped
<1>2. AsksTyped'
  <2>1. Fit([asks EXCEPT !["thread"] = Ask(p)])
    <3>1. "thread" \in Actor /\ "asked" \in Stages["thread"] /\ Fit(asks) /\ asked' \in Nat
      BY <1>1, FitIsTyped DEF TypeOK, Actor, Stages
    <3> QED BY <3>1, AskIsTyped, AskTyped
  <2> QED BY <2>1, FitIsTyped DEF RequestAuthenticate
<1>3. PostsTyped' /\ LinkTyped' /\ HistoryTyped' /\ CacheTyped'
  BY DEF RequestAuthenticate, TypeOK, PostsTyped, LinkTyped, HistoryTyped, CacheTyped, cache, history
<1>4. CountsTyped'
  BY <1>1 DEF RequestAuthenticate, TypeOK, CountsTyped
<1> QED BY <1>2, <1>3, <1>4 DEF TypeOK

LEMMA RememberTyped ==
  ASSUME TypeOK, NEW a \in Actor, asks[a].stage # "idle", session' = session,
         Remember(a) \/ MarkFailed \/ UNCHANGED <<cache, overtaken>>
  PROVE  CacheTyped'
<1>1. asks[a].pin \in Pins
  BY DEF TypeOK, AsksTyped
<1>2. CASE Remember(a)
  <2>1. pin' \in Pins \cup {NoPin} /\ overtaken' \in {"nobody"} \cup Actor
    BY <1>1, <1>2 DEF Remember
  <2>2. pinSession' \in 0..session'
    BY <1>2 DEF Remember, TypeOK, LinkTyped
  <2>3. authenticated' \in BOOLEAN
    BY <1>2 DEF Remember
  <2> QED BY <2>1, <2>2, <2>3 DEF CacheTyped
<1> QED BY <1>2, ForgottenTyped

LEMMA TypeThreadReturns ==
  ASSUME TypeOK, ThreadReturns
  PROVE  TypeOK'
<1>1. CacheTyped'
  BY RememberTyped DEF ThreadReturns, Actor
<1>2. AsksTyped'
  BY IdleAgain, FitIsTyped DEF ThreadReturns, TypeOK, Actor
<1>3. PostsTyped' /\ LinkTyped' /\ HistoryTyped'
  BY DEF ThreadReturns, TypeOK, PostsTyped, LinkTyped, HistoryTyped
<1>4. CountsTyped'
  BY DEF ThreadReturns, TypeOK, CountsTyped, bounds
<1> QED BY <1>1, <1>2, <1>3, <1>4 DEF TypeOK

LEMMA TypeThreadTimesOut ==
  ASSUME TypeOK, ThreadTimesOut
  PROVE  TypeOK'
<1>1. AsksTyped'
  BY IdleAgain, FitIsTyped DEF ThreadTimesOut, TypeOK, Actor
<1>2. PostsTyped' /\ LinkTyped' /\ HistoryTyped' /\ CacheTyped'
  BY DEF ThreadTimesOut, TypeOK, PostsTyped, LinkTyped, HistoryTyped, CacheTyped, cache, history
<1>3. CountsTyped'
  BY DEF ThreadTimesOut, TypeOK, CountsTyped, bounds
<1> QED BY <1>1, <1>2, <1>3 DEF TypeOK

LEMMA TypeRefreshCsm ==
  ASSUME TypeOK, RefreshCsm
  PROVE  TypeOK'
<1>1. AsksTyped' /\ PostsTyped'
  BY FitIsTyped DEF RefreshCsm, TypeOK, PostsTyped
<1>2. LinkTyped' /\ HistoryTyped'
  BY DEF RefreshCsm, TypeOK, LinkTyped, HistoryTyped
<1>3. CacheTyped'
  BY DEF RefreshCsm, TypeOK, LinkTyped, CacheTyped, ForgetPin
<1>4. CountsTyped'
  BY ClientSessionBounds DEF RefreshCsm, TypeOK, CountsTyped
<1> QED BY <1>1, <1>2, <1>3, <1>4 DEF TypeOK

LEMMA TypeConnect ==
  ASSUME TypeOK, Connect
  PROVE  TypeOK'
<1>1. AsksTyped'
  BY FitIsTyped DEF Connect, TypeOK
<1>2. PostsTyped'
  BY PostsAre DEF Connect, PostsTyped
<1>3. LinkTyped'
  BY ClientSessionBounds DEF Connect, TypeOK, LinkTyped
<1>4. CacheTyped'
  BY ClientSessionBounds DEF Connect, TypeOK, LinkTyped, CacheTyped, cache, history
<1>5. CountsTyped' /\ HistoryTyped'
  BY DEF Connect, TypeOK, CountsTyped, HistoryTyped, bounds, history
<1> QED BY <1>1, <1>2, <1>3, <1>4, <1>5 DEF TypeOK

LEMMA TypeDisconnect ==
  ASSUME TypeOK, Disconnect \/ DisconnectAgain
  PROVE  TypeOK'
<1>1. PICK ps \in Seq(Posts) : CancelReauth(Aborted, ps)
  <2>1. posts \o Failures \in Seq(Posts)
    BY FailuresTyped DEF TypeOK, PostsTyped
  <2>2. posts \o Failures \o <<Wake("closed", "kernel")>> \in Seq(Posts)
    BY <2>1, PostsAre
  <2> QED BY <2>1, <2>2 DEF Disconnect, DisconnectAgain
<1>2. AsksTyped' /\ PostsTyped' /\ epoch' \in Nat
  BY <1>1, AbortedTyped, ActorsAre, CancelTyped DEF TypeOK
<1>3. LinkTyped'
  BY DEF Disconnect, DisconnectAgain, TypeOK, LinkTyped
<1>4. CacheTyped'
  <2>1. ForgetPin /\ authenticated' = FALSE /\ UNCHANGED overtaken /\ UNCHANGED session
    BY DEF Disconnect, DisconnectAgain
  <2> QED BY <2>1, ForgottenTyped DEF MarkFailed
<1>5. CountsTyped' /\ HistoryTyped'
  BY <1>2 DEF Disconnect, DisconnectAgain, TypeOK, CountsTyped, HistoryTyped, bounds
<1> QED BY <1>2, <1>3, <1>4, <1>5 DEF TypeOK

LEMMA TypePanelAnswers ==
  ASSUME TypeOK, NEW a \in Actor, NEW result \in Results, PanelAnswers(a, result)
  PROVE  TypeOK'
<1>1. asks[a] \in Asks /\ asks[a].pin \in Pins /\ asks[a].stage = "asked"
  BY DEF PanelAnswers, TypeOK, AsksTyped
<1>2. AsksTyped'
  <2>1. [asks[a] EXCEPT !.stage = "answered"] = Goes(asks[a], "answered", asks[a].result)
    BY <1>1 DEF Goes, Asks
  <2>2. asks' = [asks EXCEPT ![a] = Goes(asks[a], "answered", asks[a].result)]
    BY <2>1 DEF PanelAnswers
  <2>3. "answered" \in Stages[a] \ {"idle"} /\ asks[a].result \in Results \cup {"none"}
    BY <1>1 DEF Stages, Actor, Asks
  <2> QED BY <1>1, <2>2, <2>3, GoesTyped, FitIsTyped DEF TypeOK
<1>3. PostsTyped'
  <2>1. Post("message", a, asks[a].seq, result) \in Posts
    BY <1>1, PostsAre DEF Asks
  <2> QED BY <2>1, AppendProperties DEF PanelAnswers, TypeOK, PostsTyped
<1>4. HistoryTyped'
  <2>1. session \in 1..MaxSessions
    BY ClientSessionBounds DEF PanelAnswers, TypeOK, LinkTyped
  <2> QED BY <1>1, <2>1 DEF PanelAnswers, TypeOK, HistoryTyped
<1>5. LinkTyped' /\ CacheTyped' /\ CountsTyped'
  BY DEF PanelAnswers, TypeOK, LinkTyped, CacheTyped, CountsTyped, cache, bounds
<1> QED BY <1>2, <1>3, <1>4, <1>5 DEF TypeOK

LEMMA TypeLinkDies ==
  ASSUME TypeOK, LinkDies
  PROVE  TypeOK'
<1>1. AsksTyped'
  BY FitIsTyped DEF LinkDies, TypeOK
<1>2. PostsTyped'
  BY PostsAre, AppendProperties DEF LinkDies, TypeOK, PostsTyped
<1>3. LinkTyped' /\ CacheTyped' /\ CountsTyped' /\ HistoryTyped'
  BY DEF LinkDies, TypeOK, LinkTyped, CacheTyped, CountsTyped, HistoryTyped, cache, bounds, history
<1> QED BY <1>1, <1>2, <1>3 DEF TypeOK

LEMMA WaitEndsGoes ==
  ASSUME asks \in [Actor -> Asks], NEW a \in Actor, NEW o, WaitEnds(a, o)
  PROVE  asks' = [asks EXCEPT ![a] = Goes(asks[a], "waking", o)]
<1>1. asks[a] \in Asks
  OBVIOUS
<1>2. CASE Waits(a) /\ asks' = [asks EXCEPT ![a].stage = "waking", ![a].result = o]
  BY <1>2 DEF Goes
<1>3. CASE asks[a].stage = "waking" /\ asks' = [asks EXCEPT ![a].result = o]
  <2>1. [asks[a] EXCEPT !.result = o] = Goes(asks[a], "waking", o)
    BY <1>1, <1>3 DEF Goes, Asks
  <2>2. asks' = [asks EXCEPT ![a] = [asks[a] EXCEPT !.result = o]]
    BY <1>3
  <2> QED BY <2>1, <2>2
<1> QED BY <1>2, <1>3 DEF WaitEnds

LEMMA TypeWaitEnds ==
  ASSUME TypeOK, NEW a \in Task, NEW o \in {"failed", "none"}, WaitEnds(a, o)
  PROVE  TypeOK'
<1>1. a \in Actor /\ asks[a] \in Asks /\ "waking" \in Stages[a] \ {"idle"} /\ asks[a].stage # "idle"
  BY DEF WaitEnds, TypeOK, AsksTyped, Actor, Task, Waits, Stages
<1>2. asks' = [asks EXCEPT ![a] = Goes(asks[a], "waking", o)]
  BY <1>1, WaitEndsGoes DEF TypeOK, AsksTyped
<1>3. AsksTyped'
  BY <1>1, <1>2, GoesTyped, FitIsTyped DEF TypeOK, Results
<1>4. PostsTyped'
  BY PostsAre, AppendProperties DEF WaitEnds, TypeOK, PostsTyped
<1>5. LinkTyped' /\ CacheTyped' /\ CountsTyped' /\ HistoryTyped'
  BY DEF WaitEnds, TypeOK, LinkTyped, CacheTyped, CountsTyped, HistoryTyped, cache, bounds, history
<1> QED BY <1>3, <1>4, <1>5 DEF TypeOK

\* What a callback leaves alone, whichever it is.
Rest == UNCHANGED <<reauthOn, session, bounds>>

LEMMA KeptTyped ==
  ASSUME TypeOK, Rest, UNCHANGED dropped
  PROVE  /\ UNCHANGED link => LinkTyped'
         /\ UNCHANGED <<cache, overtaken>> => CacheTyped'
         /\ UNCHANGED epoch => CountsTyped'
         /\ UNCHANGED <<accepted, credit, fresh>> => HistoryTyped'
         /\ UNCHANGED asks => AsksTyped'
<1>1. UNCHANGED link => LinkTyped'
  BY DEF TypeOK, LinkTyped, Rest
<1>2. UNCHANGED <<cache, overtaken>> => CacheTyped'
  BY ForgottenTyped DEF Rest
<1>3. UNCHANGED epoch => CountsTyped'
  BY DEF TypeOK, CountsTyped, Rest, bounds
<1>4. UNCHANGED <<accepted, credit, fresh>> => HistoryTyped'
  BY DEF TypeOK, HistoryTyped
<1>5. UNCHANGED asks => AsksTyped'
  BY FitIsTyped DEF TypeOK
<1> QED BY <1>1, <1>2, <1>3, <1>4, <1>5

LEMMA TypeOnMessage ==
  ASSUME TypeOK, Rest, NEW m \in Posts, NEW ps \in Seq(Posts), OnMessage(m, ps)
  PROVE  TypeOK'
<1>1. m.to \in Actor /\ m.seq \in Nat /\ m.what \in Results
  BY PostParts DEF OnMessage
<1>2. AsksTyped'
  <2>1. CASE UNCHANGED asks
    BY <2>1, FitIsTyped DEF TypeOK
  <2>2. CASE asks' # asks
    <3>1. /\ asks' = [asks EXCEPT !["thread"].stage = "told", !["thread"].result = m.what]
          /\ asks["thread"].stage # "idle"
      BY <2>2 DEF OnMessage, IsFor, Waits
    <3>2. "thread" \in Actor /\ asks["thread"] \in Asks /\ asks \in [Actor -> Asks]
          /\ "told" \in Stages["thread"] \ {"idle"}
      BY DEF TypeOK, AsksTyped, Actor, Stages
    <3>3. asks' = [asks EXCEPT !["thread"] = Goes(asks["thread"], "told", m.what)]
      BY <3>1, <3>2 DEF Goes, Asks
    <3>4. m.what \in Results \cup {"none"} /\ Fit(asks)
      BY <1>1, FitIsTyped DEF TypeOK
    <3>5. Fit([asks EXCEPT !["thread"] = Goes(asks["thread"], "told", m.what)])
      BY <1>1, <3>1, <3>2, <3>4, GoesTyped
    <3> QED BY <3>3, <3>5, FitIsTyped
  <2> QED BY <2>1, <2>2
<1>3. PostsTyped'
  <2>1. CASE m.to = "thread"
    BY <2>1 DEF OnMessage, PostsTyped
  <2>2. CASE m.to # "thread"
    <3>1. Post("result", m.to, m.seq, m.what) \in Posts
      BY <1>1, <2>2, PostsAre DEF Task
    <3> QED BY <2>2, <3>1, AppendProperties DEF OnMessage, PostsTyped
  <2> QED BY <2>1, <2>2
<1>4. LinkTyped' /\ CacheTyped' /\ CountsTyped' /\ HistoryTyped'
  BY KeptTyped DEF OnMessage, history
<1> QED BY <1>2, <1>3, <1>4 DEF TypeOK

LEMMA TypeSetResult ==
  ASSUME TypeOK, Rest, NEW m \in Posts, NEW ps \in Seq(Posts), SetResult(m, ps)
  PROVE  TypeOK'
<1>1. m.to \in Task /\ m.to \in Actor /\ m.seq \in Nat /\ m.what \in Results
  BY PostParts DEF SetResult, Task
<1>2. AsksTyped'
  <2>1. CASE UNCHANGED asks
    BY <2>1, FitIsTyped DEF TypeOK
  <2>2. CASE asks' # asks
    <3>1. /\ asks' = [asks EXCEPT ![m.to].stage = "waking", ![m.to].result = m.what]
          /\ asks[m.to].stage # "idle"
      BY <2>2 DEF SetResult, IsFor, Waits
    <3>2. asks[m.to] \in Asks /\ asks \in [Actor -> Asks] /\ "waking" \in Stages[m.to] \ {"idle"}
      BY <1>1 DEF TypeOK, AsksTyped, Actor, Task, Stages
    <3>3. asks' = [asks EXCEPT ![m.to] = Goes(asks[m.to], "waking", m.what)]
      BY <1>1, <3>1, <3>2 DEF Goes, Asks
    <3>4. m.what \in Results \cup {"none"} /\ Fit(asks)
      BY <1>1, FitIsTyped DEF TypeOK
    <3>5. Fit([asks EXCEPT ![m.to] = Goes(asks[m.to], "waking", m.what)])
      BY <1>1, <3>1, <3>2, <3>4, GoesTyped
    <3> QED BY <3>3, <3>5, FitIsTyped
  <2> QED BY <2>1, <2>2
<1>3. PostsTyped'
  <2>1. Append(ps, Wake("task", m.to)) \in Seq(Posts)
    BY <1>1, PostsAre, AppendProperties
  <2> QED BY <2>1 DEF SetResult, PostsTyped
<1>4. LinkTyped' /\ CacheTyped' /\ CountsTyped' /\ HistoryTyped'
  BY KeptTyped DEF SetResult, history
<1> QED BY <1>2, <1>3, <1>4 DEF TypeOK

LEMMA TypeCallerWakes ==
  ASSUME TypeOK, Rest, asks["caller"].stage # "idle",
         NEW m \in Posts, NEW ps \in Seq(Posts), CallerWakes(m, ps)
  PROVE  TypeOK'
<1>1. AsksTyped' /\ PostsTyped'
  BY IdleAgain, FitIsTyped DEF CallerWakes, TypeOK, PostsTyped, Actor
<1>2. CacheTyped'
  BY RememberTyped DEF CallerWakes, Rest, Actor
<1>3. LinkTyped' /\ CountsTyped' /\ HistoryTyped'
  BY KeptTyped DEF CallerWakes
<1> QED BY <1>1, <1>2, <1>3 DEF TypeOK

LEMMA TypeInnerWakes ==
  ASSUME TypeOK, Rest, asks["reauth"].stage # "idle",
         NEW m \in Posts, NEW ps \in Seq(Posts), InnerWakes(m, ps)
  PROVE  TypeOK'
<1>1. "reauth" \in Actor /\ asks["reauth"] \in Asks /\ "done" \in Stages["reauth"] \ {"idle"}
      /\ asks["reauth"].result \in Results \cup {"none"}
  BY DEF TypeOK, AsksTyped, Actor, Asks, Stages
<1>2. asks' = [asks EXCEPT !["reauth"] = Goes(asks["reauth"], "done", asks["reauth"].result)]
  <2>1. [asks["reauth"] EXCEPT !.stage = "done"] = Goes(asks["reauth"], "done", asks["reauth"].result)
    BY <1>1 DEF Goes, Asks
  <2> QED BY <2>1 DEF InnerWakes
<1>3. AsksTyped'
  BY <1>1, <1>2, GoesTyped, FitIsTyped DEF TypeOK
<1>4. PostsTyped'
  BY PostsAre, AppendProperties DEF InnerWakes, PostsTyped
<1>5. LinkTyped' /\ CacheTyped' /\ CountsTyped' /\ HistoryTyped'
  BY KeptTyped DEF InnerWakes, history
<1> QED BY <1>3, <1>4, <1>5 DEF TypeOK

LEMMA TypeReauthWakes ==
  ASSUME TypeOK, Rest, NEW m \in Posts, NEW ps \in Seq(Posts), ReauthWakes(m, ps)
  PROVE  TypeOK'
<1>1. AsksTyped' /\ PostsTyped'
  BY IdleAgain, FitIsTyped DEF ReauthWakes, TypeOK, PostsTyped, Actor
<1>2. CacheTyped'
  BY RememberTyped, ForgottenTyped DEF ReauthWakes, ReauthEnds, Rest, Actor
<1>3. LinkTyped' /\ CountsTyped' /\ HistoryTyped'
  BY KeptTyped DEF ReauthWakes
<1> QED BY <1>1, <1>2, <1>3 DEF TypeOK

LEMMA TypeReauthStarts ==
  ASSUME TypeOK, Rest, asks["reauth"].stage # "idle",
         NEW m \in Posts, NEW ps \in Seq(Posts), ReauthStarts(m, ps)
  PROVE  TypeOK'
<1>1. "reauth" \in Actor /\ asks["reauth"] \in Asks /\ "asked" \in Stages["reauth"] \ {"idle"}
      /\ asks["reauth"].result \in Results \cup {"none"} /\ asks["reauth"].pin \in Pins
  BY DEF TypeOK, AsksTyped, Actor, Asks, Stages
<1>2. AsksTyped'
  <2>1. [asks["reauth"] EXCEPT !.stage = "asked"] = Goes(asks["reauth"], "asked", asks["reauth"].result)
    BY <1>1 DEF Goes, Asks
  <2>2. Fit([asks EXCEPT !["reauth"].stage = "asked"])
    <3>1. [asks EXCEPT !["reauth"].stage = "asked"]
          = [asks EXCEPT !["reauth"] = Goes(asks["reauth"], "asked", asks["reauth"].result)]
      BY <2>1
    <3>2. Fit([asks EXCEPT !["reauth"] = Goes(asks["reauth"], "asked", asks["reauth"].result)])
      BY <1>1, GoesTyped, FitIsTyped DEF TypeOK
    <3> QED BY <3>1, <3>2
  <2> QED BY <1>1, <2>2, IdleAgain, FitIsTyped DEF ReauthStarts, TypeOK
<1>3. PostsTyped'
  BY DEF ReauthStarts, PostsTyped
<1>4. CacheTyped'
  BY ForgottenTyped DEF ReauthStarts, Rest, history
<1>5. HistoryTyped'
  <2>1. UNCHANGED <<accepted, credit, fresh>>
        \/ (credit' = [credit EXCEPT ![asks["reauth"].pin] = @ - 1] /\ UNCHANGED <<accepted, fresh>>)
    BY DEF ReauthStarts, history
  <2> QED BY <1>1, <2>1 DEF TypeOK, HistoryTyped
<1>6. LinkTyped' /\ CountsTyped'
  BY KeptTyped DEF ReauthStarts
<1> QED BY <1>2, <1>3, <1>4, <1>5, <1>6 DEF TypeOK

LEMMA TypeOnDisconnected ==
  ASSUME TypeOK, Rest, NEW m \in Posts, NEW ps \in Seq(Posts), OnDisconnected(m, ps)
  PROVE  TypeOK'
<1>1. AsksTyped'
  BY AbortedTyped, FitIsTyped DEF OnDisconnected, TypeOK
<1>2. PostsTyped'
  <2>1. (ps \o Failures) \o <<Event("lost")>> \in Seq(Posts)
    <3>1. ps \o Failures \in Seq(Posts) /\ <<Event("lost")>> \in Seq(Posts)
      BY FailuresTyped, PostsAre DEF TypeOK
    <3> QED BY <3>1, ConcatProperties
  <2> QED BY <2>1 DEF OnDisconnected, PostsTyped
<1>3. LinkTyped'
  BY DEF OnDisconnected, TypeOK, LinkTyped, Rest
<1>4. CacheTyped' /\ CountsTyped' /\ HistoryTyped'
  BY KeptTyped DEF OnDisconnected, history
<1> QED BY <1>1, <1>2, <1>3, <1>4 DEF TypeOK

LEMMA TypeOnClosed ==
  ASSUME TypeOK, Rest, NEW m \in Posts, NEW ps \in Seq(Posts), OnClosed(m, ps)
  PROVE  TypeOK'
<1>1. AsksTyped' /\ CacheTyped' /\ CountsTyped' /\ HistoryTyped'
  BY KeptTyped DEF OnClosed, history
<1>2. PostsTyped'
  BY PostsAre, AppendProperties DEF OnClosed, PostsTyped
<1>3. LinkTyped'
  BY DEF OnClosed, TypeOK, LinkTyped, Rest
<1> QED BY <1>1, <1>2, <1>3 DEF TypeOK

\* The re-authentication that a connect starts.
Resent == [Idle EXCEPT !.stage = "started", !.seq = MaxAsks + session, !.pin = pin,
                       !.session = session, !.epoch = epoch, !.late = overtaken = "thread"]

LEMMA ResentIs ==
  ASSUME TypeOK
  PROVE  /\ pin \in Pins => Resent \in Asks
         /\ Resent.stage = "started" /\ Resent.cancelled = FALSE /\ Resent.pin = pin
         /\ Resent.seq = MaxAsks + session /\ Resent.epoch = epoch /\ Resent.session = session
         /\ Resent.result = "none" /\ Resent.late = (overtaken = "thread")
<1>1. session \in 0..MaxSessions /\ epoch \in Nat /\ MaxAsks + session \in Nat
  BY ClientSessionBounds DEF TypeOK, LinkTyped, CountsTyped
<1> DEFINE late == (overtaken = "thread")
<1>2. late \in BOOLEAN
  OBVIOUS
<1>3. Resent = [Idle EXCEPT !.stage = "started", !.seq = MaxAsks + session, !.pin = pin,
                            !.session = session, !.epoch = epoch, !.late = late]
  BY DEF Resent
<1> HIDE DEF late
<1>4. /\ pin \in Pins => Resent \in Asks
      /\ Resent.stage = "started" /\ Resent.cancelled = FALSE /\ Resent.pin = pin
      /\ Resent.seq = MaxAsks + session /\ Resent.epoch = epoch /\ Resent.session = session
      /\ Resent.result = "none"
  BY <1>1, <1>2, <1>3 DEF Idle, Asks
<1>5. Resent.late = late
  BY <1>3 DEF Idle
<1> QED BY <1>4, <1>5 DEF late

LEMMA TypeHandleConnected ==
  ASSUME TypeOK, Rest, NEW m \in Posts, NEW ps \in Seq(Posts), HandleConnected(m, ps)
  PROVE  TypeOK'
<1>1. AsksTyped'
  <2>1. UNCHANGED asks \/ (asks' = [asks EXCEPT !["reauth"] = Resent] /\ pin # NoPin)
    BY DEF HandleConnected, Resent
  <2>2. ASSUME pin # NoPin
        PROVE  Fit([asks EXCEPT !["reauth"] = Resent])
    <3>1. pin \in Pins
      BY <2>2 DEF TypeOK, CacheTyped
    <3>2. "reauth" \in Actor /\ "started" \in Stages["reauth"]
      BY DEF Actor, Stages
    <3> QED BY <3>1, <3>2, ResentIs, AskTyped, FitIsTyped DEF TypeOK
  <2> QED BY <2>1, <2>2, FitIsTyped DEF TypeOK
<1>2. PostsTyped'
  BY PostsAre, AppendProperties DEF HandleConnected, PostsTyped
<1>3. CacheTyped'
  <2>1. pin' \in Pins \cup {NoPin} /\ overtaken' \in {"nobody"} \cup Actor
    BY DEF TypeOK, CacheTyped, HandleConnected, TakeReauthPin, ForgetPin
  <2>2. pinSession' \in 0..session'
    BY DEF TypeOK, LinkTyped, CacheTyped, HandleConnected, TakeReauthPin, ForgetPin, Rest
  <2>3. authenticated' \in BOOLEAN
    BY DEF TypeOK, CacheTyped, HandleConnected
  <2> QED BY <2>1, <2>2, <2>3 DEF CacheTyped
<1>4. LinkTyped' /\ CountsTyped' /\ HistoryTyped'
  BY KeptTyped DEF HandleConnected
<1> QED BY <1>1, <1>2, <1>3, <1>4 DEF TypeOK

LEMMA TypeHandleDisconnected ==
  ASSUME TypeOK, Rest, NEW m \in Posts, NEW ps \in Seq(Posts), HandleDisconnected(m, ps)
  PROVE  TypeOK'
<1>1. AsksTyped' /\ PostsTyped' /\ epoch' \in Nat
  BY CancelTyped, FitIsTyped DEF HandleDisconnected, TypeOK
<1>2. CacheTyped'
  <2>1. pin' \in Pins \cup {NoPin} /\ overtaken' \in {"nobody"} \cup Actor
    BY DEF TypeOK, CacheTyped, HandleDisconnected, ForgetPin
  <2>2. pinSession' \in 0..session'
    BY DEF TypeOK, LinkTyped, CacheTyped, HandleDisconnected, ForgetPin, Rest
  <2>3. authenticated' \in BOOLEAN
    BY DEF HandleDisconnected
  <2> QED BY <2>1, <2>2, <2>3 DEF CacheTyped
<1>3. LinkTyped'
  BY DEF TypeOK, LinkTyped, HandleDisconnected, Rest
<1>4. CountsTyped' /\ HistoryTyped'
  BY <1>1 DEF TypeOK, CountsTyped, HistoryTyped, HandleDisconnected, Rest, bounds
<1> QED BY <1>1, <1>2, <1>3, <1>4 DEF TypeOK

-----------------------------------------------------------------------------
(* The inductive invariant.                                                *)

R == asks["reauth"]
E == Elems(posts)

Start == Wake("start", "reauth")
Inner == Wake("task", "reauth")
Outer == Wake("outer", "reauth")
Closed == Wake("closed", "kernel")
Connected == Event("connected")
Wakes == {Start, Inner, Outer, Connected}

Answer(m, a) == m.k \in {"message", "result"} /\ m.to = a

\* The inner task of a re-authentication runs before the outer one.
Ordered(q) ==
    /\ Once(q, Start) /\ Once(q, Inner) /\ Once(q, Wake("task", "caller"))
    /\ Once(q, Connected) /\ Once(q, Closed)
    /\ Before(q, Inner, Outer)

\* The event of a connect is the first thing the loop sees of a session, and nothing
\* of an earlier re-authentication is left then.
Announced(r, e, s) ==
    Connected \in e => /\ r.stage = "idle"
                       /\ Start \notin e /\ Inner \notin e /\ Outer \notin e
                       /\ r.seq < MaxAsks + s
                       /\ \A m \in e : Answer(m, "reauth") => m.seq < MaxAsks + s

\* A re-authentication that is to be started has a callback for that and no other, and no
\* answer.
Started(r, e) ==
    /\ r.stage = "started" <=> Start \in e
    /\ Start \in e => /\ Inner \notin e /\ Outer \notin e
                      /\ r.result = "none"
                      /\ \A m \in e : Answer(m, "reauth") => m.seq < r.seq

\* A task whose future is set is scheduled.
Waking(r, a, e) == r.stage = "waking" <=> Wake("task", a) \in e

\* The outer task of a re-authentication runs when it is cancelled, or when the inner
\* one has ended.
Ending(r, e) ==
    /\ Outer \in e => r.cancelled \/ r.stage \in {"idle", "done"}
    /\ r.stage = "done" => Outer \in e
    /\ r.cancelled /\ r.stage # "started" => Outer \in e

Staged(r, e, s) ==
    Announced(r, e, s) /\ Started(r, e) /\ Ending(r, e) /\ Waking(r, "reauth", e)
Scheduled(f, q, s) ==
    Ordered(q) /\ Staged(f["reauth"], Elems(q), s) /\ Waking(f["caller"], "caller", Elems(q))

\* Without a link no task waits but for a failure, or its cancellation.
Failing ==
    \A a \in Task :
        Waits(a) /\ link \notin {"up", "dead"} =>
            \/ asks[a].cancelled
            \/ \E m \in E : m.k = "result" /\ m.to = a /\ m.seq = asks[a].seq

\* A task does not outlive the session it asked in.
OfSession == \A a \in Task : asks[a].stage # "idle" => asks[a].session = session

\* Every authenticate has a number of its own.
Bound(a) == IF a = "reauth" THEN MaxAsks + session ELSE asked
Numbered ==
    \A a \in Actor : /\ asks[a].seq <= Bound(a)
                     /\ \A m \in E : Answer(m, a) => m.seq <= Bound(a)

\* A re-authentication that nothing has overtaken has its session.
Closing == Closed \in E => link = "closing"
Lasting ==
    /\ R.epoch <= epoch
    /\ R.stage \notin {"idle", "started"} /\ R.epoch = epoch => Lasts

\* The panel has accepted the authenticate of a, and a has not taken that in.
Granted(a) ==
    \/ asks[a].result = "ok"
    \/ Waits(a) /\ \E m \in E : Answer(m, a) /\ m.seq = asks[a].seq /\ m.what = "ok"

\* What there is of a PIN that an acceptance has to stand for.
One(b) == IF b THEN 1 ELSE 0
Cached(p) == One(pin = p)
Starting(p) == One(R.stage = "started" /\ R.pin = p)
Grant(a, p) == One(Granted(a) /\ asks[a].pin = p)
Held(p) == Cached(p) + Starting(p) + Grant("caller", p) + Grant("thread", p) + Grant("reauth", p)
Covered == \A p \in Pins : Held(p) <= credit[p]

\* What is granted was accepted; and so was the cached PIN, but for a late thread's.
GrantedIsAccepted ==
    \A a \in Actor : Granted(a) => <<asks[a].pin, asks[a].session>> \in accepted
CachedIsAccepted ==
    pin # NoPin /\ pinSession = session /\ overtaken # "thread" => <<pin, session>> \in accepted

Control == Scheduled(asks, posts, session) /\ Failing /\ OfSession /\ Numbered /\ Closing /\ Lasting
Tokens == Covered /\ GrantedIsAccepted /\ CachedIsAccepted

Inv == TypeOK /\ Control /\ Tokens
-----------------------------------------------------------------------------
(* What the callbacks of posts are, and what posting does to them.         *)

LEMMA WakesDiffer ==
  /\ Start # Inner /\ Start # Outer /\ Inner # Outer /\ Connected \notin {Start, Inner, Outer}
  /\ Closed \notin Wakes /\ Wake("task", "caller") \notin Wakes \cup {Closed}
  /\ \A w \in Wakes \cup {Closed, Wake("task", "caller")} :
        w.k \notin {"message", "result", "disconnected"} /\ w.what \notin {"lost", "closed"}
  BY DEF Start, Inner, Outer, Connected, Closed, Wakes, Wake, Event, Post

\* What Ordered allows once.
Single == {Start, Inner, Wake("task", "caller"), Connected, Closed}

LEMMA OrderedTail ==
  ASSUME NEW q \in Seq(Posts), q # <<>>, Ordered(q)
  PROVE  /\ Ordered(Tail(q)) /\ Tail(q) \in Seq(Posts) /\ Head(q) \in Posts
         /\ Elems(q) = Elems(Tail(q)) \cup {Head(q)}
         /\ Head(q) \in Single => Head(q) \notin Elems(Tail(q))
         /\ Head(q) = Outer => Inner \notin Elems(q)
<1>1. Ordered(Tail(q))
  BY TailKeeps DEF Ordered
<1>2. Head(q) \in Single => Head(q) \notin Elems(Tail(q))
  BY TailKeeps DEF Ordered, Single
<1>3. Head(q) = Outer => Inner \notin Elems(q)
  BY TailKeeps DEF Ordered
<1> QED BY <1>1, <1>2, <1>3, ElemsHeadTail

LEMMA OrderedAppend ==
  ASSUME NEW q \in Seq(Posts), Ordered(q), NEW z \in Posts,
         z \in Single => z \notin Elems(q), z = Inner => Outer \notin Elems(q)
  PROVE  /\ Ordered(Append(q, z)) /\ Append(q, z) \in Seq(Posts)
         /\ Elems(Append(q, z)) = Elems(q) \cup {z}
<1>1. \A x \in Single : Once(q, x) => Once(Append(q, z), x)
  BY OnceAppend
<1>2. Before(Append(q, z), Inner, Outer)
  BY BeforeAppend, WakesDiffer DEF Ordered
<1> QED BY <1>1, <1>2, ElemsAppend DEF Ordered, Single

LEMMA OrderedConcat ==
  ASSUME NEW q \in Seq(Posts), Ordered(q), NEW r \in Seq(Posts), Elems(r) \cap Single = {}
  PROVE  /\ Ordered(q \o r) /\ q \o r \in Seq(Posts)
         /\ Elems(q \o r) = Elems(q) \cup Elems(r)
<1>1. \A x \in Single : Once(q, x) => Once(q \o r, x)
  BY ElemsConcat
<1>2. Before(q \o r, Inner, Outer)
  BY ElemsConcat DEF Ordered, Single
<1> QED BY <1>1, <1>2, ElemsConcat DEF Ordered, Single

LEMMA FailuresAre ==
  ASSUME TypeOK
  PROVE  /\ Failures \in Seq(Posts) /\ Elems(Failures) \cap Single = {}
         /\ \A m \in Elems(Failures) : /\ m.k = "result" /\ m.to \in Task /\ Waits(m.to)
                                       /\ m.seq = asks[m.to].seq /\ m.what = "failed"
         /\ \A a \in Task : Waits(a) =>
               \E m \in Elems(Failures) : m.k = "result" /\ m.to = a /\ m.seq = asks[a].seq
<1>1. Failure("caller") \in Seq(Posts) /\ Failure("reauth") \in Seq(Posts)
  <2>1. \A a \in Task : asks[a].seq \in Nat
    BY DEF TypeOK, AsksTyped, Asks, Actor, Task
  <2>2. \A a \in Task : Failure(a) \in Seq(Posts)
    <3>1. \A p \in Posts : <<p>> \in Seq(Posts)
      OBVIOUS
    <3> QED BY <2>1, <3>1, PostsAre DEF Failure, Results
  <2> QED BY <2>2, ActorsAre
<1>2. Elems(Failures) = Elems(Failure("caller")) \cup Elems(Failure("reauth"))
  BY <1>1, ElemsConcat DEF Failures
<1>3. \A a \in Task : Elems(Failure(a)) = IF Waits(a) THEN {Post("result", a, asks[a].seq, "failed")} ELSE {}
  BY DEF Failure, Elems
<1>4. Failures \in Seq(Posts)
  BY FailuresTyped DEF TypeOK
<1>5. \A m \in Elems(Failures) : /\ m.k = "result" /\ m.to \in Task /\ Waits(m.to)
                                 /\ m.seq = asks[m.to].seq /\ m.what = "failed"
  BY <1>2, <1>3, ActorsAre DEF Post
<1>6. Elems(Failures) \cap Single = {}
  BY <1>5, WakesDiffer DEF Single, Wakes
<1>7. \A a \in Task : Waits(a) =>
         \E m \in Elems(Failures) : m.k = "result" /\ m.to = a /\ m.seq = asks[a].seq
  <2> SUFFICES ASSUME NEW a \in Task, Waits(a)
               PROVE  \E m \in Elems(Failures) : m.k = "result" /\ m.to = a /\ m.seq = asks[a].seq
    OBVIOUS
  <2> DEFINE m == Post("result", a, asks[a].seq, "failed")
  <2>1. m \in Elems(Failures)
    BY <1>2, <1>3, ActorsAre
  <2>2. m.k = "result" /\ m.to = a /\ m.seq = asks[a].seq
    BY DEF Post
  <2> QED BY <2>1, <2>2
<1> QED BY <1>4, <1>5, <1>6, <1>7

-----------------------------------------------------------------------------
(* How the stage of a re-authentication goes with its callbacks, from one   *)
(* set of callbacks, e, to another, d.                                      *)

\* d has the answers of e, and answers to a task that waits.
Accounted(d, e, r) ==
    \A m \in d : Answer(m, "reauth") =>
        \/ \E n \in e : Answer(n, "reauth") /\ n.seq = m.seq
        \/ r.stage \in {"asked", "answered"} /\ m.seq = r.seq

Same(d, e, x) == x \in d <=> x \in e

LEMMA StagedQuiet ==
  ASSUME NEW r \in Asks, NEW e \in SUBSET Posts, NEW d \in SUBSET Posts, NEW s \in Nat,
         Staged(r, e, s), \A x \in Wakes : Same(d, e, x), Accounted(d, e, r)
  PROVE  /\ Staged(r, d, s)
         /\ r.stage = "asked" => Staged([r EXCEPT !.stage = "answered"], d, s)
<1>1. Same(d, e, Start) /\ Same(d, e, Inner) /\ Same(d, e, Outer) /\ Same(d, e, Connected)
  BY DEF Wakes
<1> DEFINE t == [r EXCEPT !.stage = "answered"]
<1>2. t.stage = "answered" /\ t.result = r.result /\ t.cancelled = r.cancelled /\ t.seq = r.seq
  BY DEF Asks
<1> HIDE DEF t
<1>3. Announced(r, d, s)
  BY <1>1 DEF Staged, Announced, Started, Accounted, Same
<1>4. Started(r, d)
  BY <1>1 DEF Staged, Started, Accounted, Same
<1>5. Ending(r, d) /\ Waking(r, "reauth", d)
  BY <1>1 DEF Staged, Ending, Waking, Same, Inner
<1>6. ASSUME r.stage = "asked"
      PROVE  Staged(t, d, s)
  <2>1. Announced(t, d, s)
    BY <1>1, <1>6 DEF Staged, Announced, Same
  <2>2. Started(t, d)
    BY <1>1, <1>2, <1>6 DEF Staged, Started, Same
  <2>3. Ending(t, d) /\ Waking(t, "reauth", d)
    BY <1>1, <1>2, <1>6 DEF Staged, Ending, Waking, Same, Inner
  <2> QED BY <2>1, <2>2, <2>3 DEF Staged
<1> QED BY <1>3, <1>4, <1>5, <1>6 DEF Staged, t

LEMMA StagedWoken ==
  ASSUME NEW r \in Asks, NEW e \in SUBSET Posts, NEW d \in SUBSET Posts, NEW s \in Nat,
         Staged(r, e, s), r.stage \in {"asked", "answered", "waking"}, NEW x \in Results \cup {"none"},
         r.stage # "waking" => ~r.cancelled,
         Inner \in d, Same(d, e, Start), Same(d, e, Outer), Same(d, e, Connected)
  PROVE  Staged(Goes(r, "waking", x), d, s)
<1> DEFINE t == Goes(r, "waking", x)
<1>1. t.stage = "waking" /\ t.result = x /\ t.cancelled = r.cancelled /\ t.seq = r.seq
  BY DEF Goes, Asks
<1> HIDE DEF t
<1>2. Connected \notin d /\ Start \notin d /\ Inner \in d
      /\ (Outer \in d => r.cancelled) /\ (r.cancelled => Outer \in d)
  BY DEF Staged, Announced, Started, Ending, Waking, Same, Inner
<1>3. Announced(t, d, s)
  BY <1>1, <1>2 DEF Staged, Announced
<1>4. Started(t, d)
  BY <1>1, <1>2 DEF Staged, Started
<1>5. Ending(t, d)
  BY <1>1, <1>2 DEF Staged, Ending
<1>6. Waking(t, "reauth", d)
  BY <1>1, <1>2 DEF Staged, Waking, Inner
<1> QED BY <1>3, <1>4, <1>5, <1>6 DEF Staged, t

LEMMA StagedInner ==
  ASSUME NEW r \in Asks, NEW e \in SUBSET Posts, NEW d \in SUBSET Posts, NEW s \in Nat,
         Staged(r, e, s), r.stage = "waking", Inner \notin d, Outer \in d,
         Same(d, e, Start), Same(d, e, Connected)
  PROVE  Staged(Goes(r, "done", r.result), d, s)
<1> DEFINE t == Goes(r, "done", r.result)
<1>1. t.stage = "done" /\ t.result = r.result /\ t.cancelled = r.cancelled /\ t.seq = r.seq
  BY DEF Goes, Asks
<1> HIDE DEF t
<1>2. Connected \notin d /\ Start \notin d /\ Inner \notin d /\ Outer \in d
  BY DEF Staged, Announced, Started, Ending, Waking, Same, Inner
<1>3. Announced(t, d, s)
  BY <1>1, <1>2 DEF Staged, Announced
<1>4. Started(t, d)
  BY <1>1, <1>2 DEF Staged, Started
<1>5. Ending(t, d)
  BY <1>1, <1>2 DEF Staged, Ending
<1>6. Waking(t, "reauth", d)
  BY <1>1, <1>2 DEF Staged, Waking, Inner
<1> QED BY <1>3, <1>4, <1>5, <1>6 DEF Staged, t

LEMMA StagedOuter ==
  ASSUME NEW r \in Asks, NEW e \in SUBSET Posts, NEW d \in SUBSET Posts, NEW s \in Nat,
         Staged(r, e, s), Outer \in e, Inner \notin e,
         Same(d, e, Inner), Same(d, e, Start), Same(d, e, Connected)
  PROVE  Staged(Idle, d, s)
<1> DEFINE t == Idle
<1>1. t.stage = "idle" /\ t.result = "none" /\ t.cancelled = FALSE /\ t.seq = 0
  BY ActorsAre
<1> HIDE DEF t
<1>2. Connected \notin d /\ Start \notin d /\ Inner \notin d
  BY DEF Staged, Announced, Started, Ending, Waking, Same, Inner
<1>3. Announced(t, d, s)
  BY <1>1, <1>2 DEF Staged, Announced
<1>4. Started(t, d)
  BY <1>1, <1>2 DEF Staged, Started
<1>5. Ending(t, d)
  BY <1>1, <1>2 DEF Staged, Ending
<1>6. Waking(t, "reauth", d)
  BY <1>1, <1>2 DEF Staged, Waking, Inner
<1> QED BY <1>3, <1>4, <1>5, <1>6 DEF Staged, t

LEMMA StagedStart ==
  ASSUME NEW r \in Asks, NEW e \in SUBSET Posts, NEW d \in SUBSET Posts, NEW s \in Nat,
         Staged(r, e, s), Start \in e, Start \notin d,
         Same(d, e, Inner), Same(d, e, Outer), Same(d, e, Connected)
  PROVE  /\ Staged(Idle, d, s)
         /\ ~r.cancelled => Staged(Goes(r, "asked", r.result), d, s)
<1>1. Connected \notin d /\ Start \notin d /\ Inner \notin d /\ Outer \notin d /\ r.result = "none"
  BY DEF Staged, Announced, Started, Same
<1>2. Staged(Idle, d, s)
  BY <1>1, ActorsAre DEF Staged, Announced, Started, Ending, Waking, Inner
<1>3. ASSUME ~r.cancelled
      PROVE  Staged(Goes(r, "asked", r.result), d, s)
  <2> DEFINE t == Goes(r, "asked", r.result)
  <2>1. t.stage = "asked" /\ t.cancelled = r.cancelled
    BY DEF Goes, Asks
  <2> HIDE DEF t
  <2>2. Staged(t, d, s)
    BY <1>1, <1>3, <2>1 DEF Staged, Announced, Started, Ending, Waking, Inner
  <2> QED BY <2>2 DEF t
<1> QED BY <1>2, <1>3

LEMMA StagedConnected ==
  ASSUME NEW r \in Asks, NEW e \in SUBSET Posts, NEW d \in SUBSET Posts, NEW s \in Nat,
         Staged(r, e, s), Connected \in e, Connected \notin d,
         Same(d, e, Inner), Same(d, e, Outer), Accounted(d, e, r)
  PROVE  /\ Same(d, e, Start) => Staged(r, d, s)
         /\ \A t \in Asks :
               Start \in d /\ t.stage = "started" /\ t.result = "none" /\ t.cancelled = FALSE
               /\ t.seq = MaxAsks + s => Staged(t, d, s)
<1>1. /\ Inner \notin d /\ Outer \notin d /\ Start \notin e /\ r.stage = "idle"
      /\ (r.cancelled => Outer \in e)
      /\ \A m \in d : Answer(m, "reauth") => m.seq < MaxAsks + s
  BY DEF Staged, Announced, Ending, Accounted, Same
<1>2. ASSUME Same(d, e, Start)
      PROVE  Staged(r, d, s)
  <2>1. Announced(r, d, s)
    BY DEF Announced
  <2>2. Started(r, d)
    BY <1>1, <1>2 DEF Started, Same
  <2>3. Ending(r, d) /\ Waking(r, "reauth", d)
    BY <1>1 DEF Staged, Ending, Waking, Inner, Same
  <2> QED BY <2>1, <2>2, <2>3 DEF Staged
<1>3. ASSUME NEW t \in Asks, Start \in d, t.stage = "started", t.result = "none",
             t.cancelled = FALSE, t.seq = MaxAsks + s
      PROVE  Staged(t, d, s)
  <2>1. Announced(t, d, s)
    BY DEF Announced
  <2>2. Started(t, d)
    BY <1>1, <1>3 DEF Started
  <2>3. Ending(t, d) /\ Waking(t, "reauth", d)
    BY <1>1, <1>3 DEF Ending, Waking, Inner
  <2> QED BY <2>1, <2>2, <2>3 DEF Staged
<1> QED BY <1>2, <1>3

LEMMA StagedCancelled ==
  ASSUME NEW r \in Asks, NEW e \in SUBSET Posts, NEW d \in SUBSET Posts, NEW s \in Nat,
         Staged(r, e, s), r.stage \in Stages["reauth"] \ {"idle"},
         Same(d, e, Inner), Same(d, e, Start), Same(d, e, Connected), Accounted(d, e, r),
         IF r.stage \in {"asked", "answered", "waking"} THEN Outer \in d ELSE Same(d, e, Outer)
  PROVE  Staged([r EXCEPT !.cancelled = TRUE], d, s)
<1> DEFINE t == [r EXCEPT !.cancelled = TRUE]
<1>1. t.stage = r.stage /\ t.result = r.result /\ t.cancelled = TRUE /\ t.seq = r.seq
  BY DEF Asks
<1> HIDE DEF t
<1>2. r.stage \in {"started", "asked", "answered", "waking", "done"}
  BY DEF Stages
<1>3. Announced(t, d, s)
  BY DEF Staged, Announced, Same
<1>4. Started(t, d)
  BY <1>1 DEF Staged, Started, Accounted, Same
<1>5. Ending(t, d)
  BY <1>1, <1>2 DEF Staged, Ending, Started, Same
<1>6. Waking(t, "reauth", d)
  BY <1>1 DEF Staged, Waking, Inner, Same
<1> QED BY <1>3, <1>4, <1>5, <1>6 DEF Staged, t

LEMMA StagedFresh ==
  ASSUME NEW r \in Asks, NEW s \in Nat, r.stage = "idle", ~r.cancelled, r.seq <= MaxAsks + s
  PROVE  Staged(r, {Connected}, s + 1)
<1>1. \A m \in {Connected} : ~Answer(m, "reauth")
  BY WakesDiffer DEF Answer, Wakes
<1>2. Announced(r, {Connected}, s + 1)
  BY <1>1, WakesDiffer, ClientSessionBounds DEF Announced, Asks
<1>3. Started(r, {Connected}) /\ Ending(r, {Connected}) /\ Waking(r, "reauth", {Connected})
  BY WakesDiffer DEF Started, Ending, Waking, Inner
<1> QED BY <1>2, <1>3 DEF Staged
-----------------------------------------------------------------------------
(* What is granted, held and accepted, from one state to the next.         *)

\* An ask that is over, or has gone on without an acceptance.
Weaker(t, r) ==
    \/ t.stage = "idle" /\ t.result = "none"
    \/ /\ t.pin = r.pin /\ t.session = r.session /\ t.seq = r.seq /\ t.epoch = r.epoch
       /\ t.stage \in {"asked", "answered"} => r.stage \in {"asked", "answered"}
       /\ t.result = "ok" => r.result = "ok"

\* Every acceptance of a in d is that of an answer in e.
Heirs(d, e, a) ==
    \A m \in d : Answer(m, a) /\ m.what = "ok" =>
        \E n \in e : Answer(n, a) /\ n.seq = m.seq /\ n.what = "ok"

\* What a is granted after a step it was granted before.
Inherits(a) ==
    Granted(a)' => /\ Granted(a)
                   /\ asks'[a].pin = asks[a].pin /\ asks'[a].session = asks[a].session
                   /\ asks'[a].epoch = asks[a].epoch
Inherited == \A a \in Actor : Inherits(a)

LEMMA WeakerInherits ==
  ASSUME NEW a \in Actor, Weaker(asks'[a], asks[a]), Heirs(E', E, a)
  PROVE  Inherits(a)
<1> SUFFICES ASSUME Granted(a)'
             PROVE  /\ Granted(a)
                    /\ asks'[a].pin = asks[a].pin /\ asks'[a].session = asks[a].session
                    /\ asks'[a].epoch = asks[a].epoch
  BY DEF Inherits
<1>1. CASE asks'[a].stage = "idle" /\ asks'[a].result = "none"
  BY <1>1 DEF Granted, Waits
<1>2. CASE asks'[a].result = "ok" /\ asks[a].result = "ok"
           /\ asks'[a].pin = asks[a].pin /\ asks'[a].session = asks[a].session
           /\ asks'[a].epoch = asks[a].epoch
  BY <1>2 DEF Granted
<1>3. CASE /\ asks'[a].pin = asks[a].pin /\ asks'[a].session = asks[a].session
           /\ asks'[a].seq = asks[a].seq /\ asks'[a].epoch = asks[a].epoch
           /\ asks'[a].stage \in {"asked", "answered"} => asks[a].stage \in {"asked", "answered"}
           /\ asks'[a].result # "ok"
  <2>1. PICK m \in E' : Answer(m, a) /\ m.seq = asks'[a].seq /\ m.what = "ok" /\ Waits(a)'
    BY <1>3 DEF Granted
  <2>2. Waits(a)
    BY <1>3, <2>1 DEF Waits
  <2>3. PICK n \in E : Answer(n, a) /\ n.seq = m.seq /\ n.what = "ok"
    BY <2>1 DEF Heirs
  <2> QED BY <1>3, <2>1, <2>2, <2>3 DEF Granted
<1> QED BY <1>1, <1>2, <1>3 DEF Weaker

LEMMA SameInherits ==
  ASSUME NEW a \in Actor, asks'[a] = asks[a], Heirs(E', E, a)
  PROVE  Inherits(a)
  BY WeakerInherits DEF Weaker

LEMMA IdleInherits ==
  ASSUME NEW a \in Actor, asks'[a] = Idle
  PROVE  Inherits(a) /\ ~Granted(a)'
<1>1. asks'[a].stage = "idle" /\ asks'[a].result = "none"
  BY ActorsAre
<1> QED BY <1>1 DEF Inherits, Granted, Waits

LEMMA NewInherits ==
  ASSUME NEW a \in Actor, asks'[a].result = "none",
         \A m \in E' : Answer(m, a) => m.seq # asks'[a].seq
  PROVE  Inherits(a) /\ ~Granted(a)'
  BY DEF Inherits, Granted

LEMMA PartsAre ==
  \A p : /\ Cached(p) \in {0, 1} /\ Starting(p) \in {0, 1} /\ \A a : Grant(a, p) \in {0, 1}
         /\ Cached(p)' \in {0, 1} /\ Starting(p)' \in {0, 1} /\ \A a : Grant(a, p)' \in {0, 1}
<1>1. \A p : Cached(p) \in {0, 1} /\ Cached(p)' \in {0, 1}
  BY DEF Cached, One
<1>2. \A p : Starting(p) \in {0, 1} /\ Starting(p)' \in {0, 1}
  BY DEF Starting, One, R
<1>3. \A p : \A a : Grant(a, p) \in {0, 1} /\ Grant(a, p)' \in {0, 1}
  BY Zenon DEF Grant, One
<1> QED BY <1>1, <1>2, <1>3

LEMMA GrantKept ==
  ASSUME NEW a \in Actor, Inherits(a), NEW p
  PROVE  Grant(a, p)' <= Grant(a, p)
<1>1. Granted(a)' /\ asks'[a].pin = p => Granted(a) /\ asks[a].pin = p
  BY DEF Inherits
<1>2. CASE Granted(a)' /\ asks'[a].pin = p
  <2>1. Grant(a, p)' = 1 /\ Grant(a, p) = 1
    BY <1>1, <1>2 DEF Grant, One
  <2> QED BY <2>1
<1>3. CASE ~(Granted(a)' /\ asks'[a].pin = p)
  <2>1. Grant(a, p)' = 0
    BY <1>3 DEF Grant, One
  <2> QED BY <2>1, PartsAre
<1> QED BY <1>2, <1>3

\* A re-authentication that is to be started was to be started before.
StartsNone == R'.stage = "started" => R.stage = "started" /\ R'.pin = R.pin

LEMMA StartingKept ==
  ASSUME StartsNone, NEW p
  PROVE  Starting(p)' <= Starting(p)
<1>1. CASE R'.stage = "started" /\ R'.pin = p
  <2>1. Starting(p)' = 1 /\ Starting(p) = 1
    BY <1>1 DEF Starting, One, StartsNone
  <2> QED BY <2>1
<1>2. CASE ~(R'.stage = "started" /\ R'.pin = p)
  <2>1. Starting(p)' = 0
    BY <1>2 DEF Starting, One
  <2> QED BY <2>1, PartsAre
<1> QED BY <1>1, <1>2

LEMMA TokensKept ==
  ASSUME TypeOK, Tokens, \A a \in Actor : Inherits(a), StartsNone,
         UNCHANGED credit, accepted \subseteq accepted',
         pin' # NoPin => /\ UNCHANGED <<pin, pinSession, overtaken>>
                         /\ session' = session \/ pinSession < session'
  PROVE  Tokens'
<1>1. Covered'
  <2> SUFFICES ASSUME NEW p \in Pins
               PROVE  Held(p)' <= credit'[p]
    BY DEF Covered
  <2>1. Cached(p)' <= Cached(p)
    <3>1. CASE pin' = p
      <4>1. pin = p
        BY <3>1, ClientSessionBounds
      <4>2. Cached(p) = 1
        BY <4>1 DEF Cached, One
      <4> QED BY <4>2, PartsAre
    <3>2. CASE pin' # p
      <4>1. Cached(p)' = 0
        BY <3>2 DEF Cached, One
      <4> QED BY <4>1, PartsAre
    <3> QED BY <3>1, <3>2
  <2>2. Starting(p)' <= Starting(p)
    BY StartingKept
  <2>3. /\ Grant("caller", p)' <= Grant("caller", p)
        /\ Grant("thread", p)' <= Grant("thread", p)
        /\ Grant("reauth", p)' <= Grant("reauth", p)
    BY GrantKept, ActorsAre
  <2>4. Held(p) <= credit[p] /\ credit[p] \in Int /\ credit'[p] = credit[p]
    BY DEF Tokens, Covered, TypeOK, HistoryTyped
  <2> QED BY <2>1, <2>2, <2>3, <2>4, PartsAre DEF Held
<1>2. GrantedIsAccepted'
  BY DEF Tokens, GrantedIsAccepted, Inherits
<1>3. CachedIsAccepted'
  BY DEF Tokens, CachedIsAccepted, TypeOK, LinkTyped, CacheTyped
<1> QED BY <1>1, <1>2, <1>3 DEF Tokens

LEMMA TokensRemembered ==
  ASSUME TypeOK, Tokens, NEW a \in Actor, Remember(a), asks[a].stage # "idle", asks[a].result = "ok",
         asks'[a] = Idle, \A b \in Actor \ {a} : Inherits(b), StartsNone,
         UNCHANGED <<credit, accepted, session>>, a \in Task => asks[a].session = session
  PROVE  Tokens'
<1>1. Granted(a) /\ ~Granted(a)'
  BY IdleInherits DEF Granted
<1>2. Covered'
  <2> SUFFICES ASSUME NEW p \in Pins
               PROVE  Held(p)' <= credit'[p]
    BY DEF Covered
  <2>1. Cached(p)' <= Grant(a, p)
    <3>1. CASE pin' = p
      <4>1. Grant(a, p) = 1
        BY <1>1, <3>1 DEF Grant, One, Remember
      <4> QED BY <4>1, PartsAre
    <3>2. CASE pin' # p
      <4>1. Cached(p)' = 0
        BY <3>2 DEF Cached, One
      <4> QED BY <4>1, PartsAre
    <3> QED BY <3>1, <3>2
  <2>2. Grant(a, p)' = 0
    BY <1>1 DEF Grant, One
  <2>3. Starting(p)' <= Starting(p)
    BY StartingKept
  <2>4. \A b \in Actor \ {a} : Grant(b, p)' <= Grant(b, p)
    BY GrantKept
  <2>5. Held(p) <= credit[p] /\ credit[p] \in Int /\ credit'[p] = credit[p]
    BY DEF Tokens, Covered, TypeOK, HistoryTyped
  <2>6. a = "caller" \/ a = "thread" \/ a = "reauth"
    BY ActorsAre
  <2>7. CASE a = "caller"
    BY <2>1, <2>2, <2>3, <2>4, <2>5, <2>7, PartsAre, ActorsAre DEF Held
  <2>8. CASE a = "thread"
    BY <2>1, <2>2, <2>3, <2>4, <2>5, <2>8, PartsAre, ActorsAre DEF Held
  <2>9. CASE a = "reauth"
    BY <2>1, <2>2, <2>3, <2>4, <2>5, <2>9, PartsAre, ActorsAre DEF Held
  <2> QED BY <2>6, <2>7, <2>8, <2>9
<1>3. GrantedIsAccepted'
  BY <1>1 DEF Tokens, GrantedIsAccepted, Inherits
<1>4. CachedIsAccepted'
  <2>1. <<asks[a].pin, asks[a].session>> \in accepted
    BY <1>1 DEF Tokens, GrantedIsAccepted
  <2>2. overtaken' # "thread" => asks[a].session = session
    BY ActorsAre DEF Remember, Actor, Task
  <2> QED BY <2>1, <2>2 DEF CachedIsAccepted, Remember
<1> QED BY <1>2, <1>3, <1>4 DEF Tokens
-----------------------------------------------------------------------------
(* The other parts of Control, from one state to the next.                 *)

LEMMA GoesFields ==
  ASSUME NEW r \in Asks, NEW stage, NEW result
  PROVE  LET t == Goes(r, stage, result)
         IN  /\ t.stage = stage /\ t.result = result /\ t.pin = r.pin /\ t.session = r.session
             /\ t.seq = r.seq /\ t.epoch = r.epoch /\ t.cancelled = r.cancelled
             /\ [r EXCEPT !.stage = stage] = Goes(r, stage, r.result)
  BY DEF Goes, Asks

LEMMA AskNumbers ==
  ASSUME TypeOK
  PROVE  /\ asks \in [Actor -> Asks] /\ E \subseteq Posts /\ posts \in Seq(Posts)
         /\ \A a \in Actor : asks[a] \in Asks /\ asks[a].seq \in Nat /\ asks[a].epoch \in Nat
         /\ session \in Nat /\ asked \in Nat /\ epoch \in Nat /\ MaxAsks \in Nat
         /\ \A m \in E : m.seq \in Nat
<1>1. E \subseteq Posts /\ posts \in Seq(Posts)
  BY ElemsTyped DEF TypeOK, PostsTyped, E
<1>2. \A a \in Actor : asks[a] \in Asks /\ asks[a].seq \in Nat /\ asks[a].epoch \in Nat
  BY DEF TypeOK, AsksTyped, Asks
<1>3. session \in Nat /\ asked \in Nat /\ epoch \in Nat /\ MaxAsks \in Nat
  BY ClientSessionBounds DEF TypeOK, LinkTyped, CountsTyped
<1>4. \A m \in E : m.seq \in Nat
  BY <1>1, PostParts
<1> QED BY <1>1, <1>2, <1>3, <1>4 DEF TypeOK, AsksTyped

LEMMA FailingKept ==
  ASSUME Failing,
         \A a \in Task : Waits(a)' /\ link' \notin {"up", "dead"} =>
            /\ Waits(a) /\ link \notin {"up", "dead"}
            /\ asks'[a].seq = asks[a].seq /\ (asks[a].cancelled => asks'[a].cancelled)
            /\ \A m \in E : m.k = "result" /\ m.to = a /\ m.seq = asks[a].seq
                            => m \in E' \/ asks'[a].cancelled
  PROVE  Failing'
<1> SUFFICES ASSUME NEW a \in Task, Waits(a)', link' \notin {"up", "dead"}, ~asks'[a].cancelled
             PROVE  \E m \in E' : m.k = "result" /\ m.to = a /\ m.seq = asks'[a].seq
  BY DEF Failing
<1>1. PICK m \in E : m.k = "result" /\ m.to = a /\ m.seq = asks[a].seq
  BY DEF Failing
<1> QED BY <1>1

LEMMA FailingPosted ==
  ASSUME TypeOK, Elems(Failures) \subseteq E',
         \A a \in Task : Waits(a)' => Waits(a) /\ asks'[a].seq = asks[a].seq
  PROVE  Failing'
<1> SUFFICES ASSUME NEW a \in Task, Waits(a)'
             PROVE  \E m \in E' : m.k = "result" /\ m.to = a /\ m.seq = asks'[a].seq
  BY DEF Failing
<1>1. PICK m \in Elems(Failures) : m.k = "result" /\ m.to = a /\ m.seq = asks[a].seq
  BY FailuresAre
<1> QED BY <1>1

LEMMA OfSessionKept ==
  ASSUME OfSession, session' = session,
         \A a \in Task : \/ asks'[a].stage = "idle" \/ asks'[a].session = session
                         \/ asks[a].stage # "idle" /\ asks'[a].session = asks[a].session
  PROVE  OfSession'
  BY DEF OfSession

LEMMA NumberedKept ==
  ASSUME TypeOK, Numbered, session' = session, asked' \in Nat, asked <= asked',
         \A a \in Actor : \/ asks'[a].seq = asks[a].seq \/ asks'[a].seq = 0
                          \/ asks'[a].seq = Bound(a)',
         \A a \in Actor : \A m \in E' : Answer(m, a) =>
            \/ \E n \in E : Answer(n, a) /\ n.seq = m.seq
            \/ m.seq = asks[a].seq
  PROVE  Numbered'
<1>1. \A a \in Actor : Bound(a) \in Nat /\ Bound(a)' \in Nat /\ Bound(a) <= Bound(a)'
  BY AskNumbers DEF Bound
<1>2. ASSUME NEW a \in Actor
      PROVE  asks'[a].seq <= Bound(a)'
  <2>1. asks[a].seq <= Bound(a) /\ asks[a].seq \in Nat
    BY AskNumbers DEF Numbered
  <2> QED BY <1>1, <2>1
<1>3. ASSUME NEW a \in Actor, NEW m \in E', Answer(m, a)
      PROVE  m.seq <= Bound(a)'
  <2>1. CASE m.seq = asks[a].seq
    BY <1>1, <2>1, AskNumbers DEF Numbered
  <2>2. CASE \E n \in E : Answer(n, a) /\ n.seq = m.seq
    <3>1. PICK n \in E : Answer(n, a) /\ n.seq = m.seq
      BY <2>2
    <3>2. n.seq <= Bound(a) /\ n.seq \in Nat
      BY <3>1, AskNumbers DEF Numbered
    <3> QED BY <1>1, <3>1, <3>2
  <2> QED BY <1>3, <2>1, <2>2
<1> QED BY <1>2, <1>3 DEF Numbered

LEMMA LastingKept ==
  ASSUME TypeOK, Lasting, epoch' = epoch,
         R'.epoch \in {R.epoch, epoch, 0},
         R'.stage \notin {"idle", "started"} /\ R'.epoch = epoch =>
            \/ link' \in {"up", "dead"}
            \/ /\ R.stage \notin {"idle", "started"} /\ R.epoch = epoch
               /\ Lasts => Lasts'
  PROVE  Lasting'
<1>1. R.epoch <= epoch /\ R.epoch \in Nat /\ epoch \in Nat
  BY AskNumbers, ActorsAre DEF Lasting, R
<1>2. R'.epoch <= epoch'
  BY <1>1
<1>3. R'.stage \notin {"idle", "started"} /\ R'.epoch = epoch' => Lasts'
  BY DEF Lasting, Lasts
<1> QED BY <1>2, <1>3 DEF Lasting

\* An ask that is over, or goes on as what it was.
Follows(t, r) ==
    \/ t = Idle
    \/ /\ t.pin = r.pin /\ t.session = r.session /\ t.seq = r.seq /\ t.epoch = r.epoch
       /\ t.stage \in {"asked", "answered"} => r.stage \in {"asked", "answered"}
       /\ t.stage \notin {"idle", "started"} => r.stage \notin {"idle", "started"}
       /\ t.stage # "idle" => r.stage # "idle"
       /\ r.cancelled => t.cancelled

AnswersKept ==
    \A a \in Actor : \A m \in E' : Answer(m, a) =>
        \/ \E n \in E : Answer(n, a) /\ n.seq = m.seq
        \/ m.seq = asks[a].seq

LEMMA ControlFollows ==
  ASSUME TypeOK, Control, \A a \in Actor : Follows(asks'[a], asks[a]),
         UNCHANGED <<session, asked, epoch>>, AnswersKept,
         link' = link \/ link' \in {"up", "dead"},
         \A m \in E : m.k = "result" /\ m \notin E' =>
            ~(IsFor(m) /\ m.to \in Task /\ asks'[m.to] = asks[m.to] /\ ~asks[m.to].cancelled),
         \A m \in E : m.k = "result" /\ m \notin E' /\ m.to \in Task =>
            asks'[m.to] = asks[m.to] \/ ~Waits(m.to)',
         Event("lost") \in E => Event("lost") \in E' \/ link' # "lost",
         Closed \in E' => Closed \in E /\ link' = link
  PROVE  Failing' /\ OfSession' /\ Numbered' /\ Closing' /\ Lasting'
<1>1. Failing'
  <2>1. ASSUME NEW a \in Task, Waits(a)', link' \notin {"up", "dead"}
        PROVE  /\ Waits(a) /\ link \notin {"up", "dead"}
               /\ asks'[a].seq = asks[a].seq /\ (asks[a].cancelled => asks'[a].cancelled)
               /\ \A m \in E : m.k = "result" /\ m.to = a /\ m.seq = asks[a].seq
                               => m \in E' \/ asks'[a].cancelled
    <3>1. a \in Actor /\ asks'[a] # Idle
      BY <2>1, ActorsAre DEF Waits, Task
    <3>2. /\ Waits(a) /\ asks'[a].seq = asks[a].seq /\ (asks[a].cancelled => asks'[a].cancelled)
      BY <2>1, <3>1 DEF Follows, Waits
    <3>3. ASSUME NEW m \in E, m.k = "result", m.to = a, m.seq = asks[a].seq, m \notin E'
          PROVE  asks'[a].cancelled
      <4>1. asks'[a] = asks[a]
        BY <2>1, <3>3
      <4>2. IsFor(m)
        BY <3>2, <3>3 DEF IsFor
      <4> QED BY <3>3, <4>1, <4>2
    <3> QED BY <2>1, <3>2, <3>3
  <2>2. Failing
    BY DEF Control
  <2> QED BY <2>1, <2>2, FailingKept
<1>2. OfSession'
  <2>1. ASSUME NEW a \in Task
        PROVE  \/ asks'[a].stage = "idle" \/ asks'[a].session = session
               \/ asks[a].stage # "idle" /\ asks'[a].session = asks[a].session
    <3>1. Follows(asks'[a], asks[a])
      BY ActorsAre DEF Task
    <3> QED BY <3>1, ActorsAre DEF Follows
  <2> QED BY <2>1, OfSessionKept DEF Control
<1>3. Numbered'
  <2>1. \A a \in Actor : asks'[a].seq = asks[a].seq \/ asks'[a].seq = 0
    BY ActorsAre DEF Follows
  <2>2. asked' \in Nat /\ asked <= asked'
    BY AskNumbers
  <2> QED BY <2>1, <2>2, NumberedKept DEF Control, AnswersKept
<1>4. Closing'
  BY DEF Control, Closing
<1>5. Lasting'
  <2>1. Follows(R', R)
    BY ActorsAre DEF R
  <2>2. R'.epoch \in {R.epoch, epoch, 0}
    BY <2>1, ActorsAre DEF Follows
  <2>3. Lasts => Lasts' 
    BY DEF Lasts, E
  <2>4. R'.stage \notin {"idle", "started"} => R.stage \notin {"idle", "started"} /\ R'.epoch = R.epoch
    BY <2>1, ActorsAre DEF Follows
  <2> QED BY <2>2, <2>3, <2>4, LastingKept DEF Control
<1> QED BY <1>1, <1>2, <1>3, <1>4, <1>5
-----------------------------------------------------------------------------
(* Each step preserves the invariant.                                      *)

\* Steps that leave the callbacks and the re-authentication alone.
LEMMA ScheduledStill ==
  ASSUME TypeOK, Scheduled(asks, posts, session), UNCHANGED <<posts, session>>,
         asks'["reauth"] = asks["reauth"],
         asks'["caller"].stage = "waking" <=> asks["caller"].stage = "waking"
  PROVE  Scheduled(asks', posts', session')
  BY DEF Scheduled, Waking

\* ... or answers and other callbacks come, and none that Wakes names goes.
LEMMA ScheduledQuiet ==
  ASSUME TypeOK, Scheduled(asks, posts, session), UNCHANGED session,
         posts' \in Seq(Posts), Ordered(posts'), \A x \in Wakes : Same(E', E, x),
         Accounted(E', E, R),
         \/ asks'["reauth"] = asks["reauth"]
         \/ R.stage = "asked" /\ asks'["reauth"] = [R EXCEPT !.stage = "answered"],
         Waking(asks'["caller"], "caller", E')
  PROVE  Scheduled(asks', posts', session')
<1>1. R \in Asks /\ E \in SUBSET Posts /\ E' \in SUBSET Posts /\ session \in Nat
  BY AskNumbers, ActorsAre, ElemsTyped DEF R, E
<1>2. Staged(R, E, session)
  BY DEF Scheduled, R, E
<1>3. PICK d \in SUBSET Posts : d = E'
  BY <1>1
<1>4. (\A x \in Wakes : Same(d, E, x)) /\ Accounted(d, E, R)
  BY <1>3
<1>5. Staged(R, d, session) /\ (R.stage = "asked" => Staged([R EXCEPT !.stage = "answered"], d, session))
  BY <1>1, <1>2, <1>4, StagedQuiet
<1>6. Staged(asks'["reauth"], E', session')
  BY <1>3, <1>5 DEF R
<1> QED BY <1>6 DEF Scheduled, E

LEMMA StepRefreshCsm ==
  ASSUME Inv, RefreshCsm
  PROVE  Control' /\ Tokens' /\ Inherited
<1>1. UNCHANGED <<asks, posts, session, link, epoch, asked>> /\ asks' = asks /\ E' = E
  BY DEF RefreshCsm, E
<1>2. TypeOK /\ Control /\ Tokens
  BY DEF Inv
<1>3. Scheduled(asks', posts', session')
  BY <1>1, <1>2, ScheduledStill DEF Control
<1>4. Failing' /\ OfSession' /\ Numbered' /\ Closing' /\ Lasting'
  BY <1>1, <1>2, ControlFollows DEF Follows, AnswersKept
<1>5. \A a \in Actor : Inherits(a)
  BY <1>1, SameInherits DEF Heirs, Answer
<1>6. Tokens' /\ Inherited
  <2>1. pin' # NoPin => UNCHANGED <<pin, pinSession, overtaken>>
    BY DEF RefreshCsm, ForgetPin
  <2>2. accepted' = accepted /\ credit' = credit
    BY DEF RefreshCsm
  <2> QED BY <1>1, <1>2, <1>5, <2>1, <2>2, TokensKept DEF StartsNone, R, Inherited
<1> QED BY <1>3, <1>4, <1>6 DEF Control

LEMMA StepThread ==
  ASSUME Inv, ThreadReturns \/ ThreadTimesOut
  PROVE  Control' /\ Tokens' /\ Inherited
<1>1. /\ UNCHANGED <<posts, session, link, epoch, asked>> /\ E' = E
      /\ asks' = [asks EXCEPT !["thread"] = Idle] /\ UNCHANGED <<credit, accepted>>
  BY DEF ThreadReturns, ThreadTimesOut, E, bounds, history
<1>2. TypeOK /\ Control /\ Tokens
  BY DEF Inv
<1>3. "thread" \in Actor \ Task /\ asks'["thread"] = Idle /\ \A b \in Actor \ {"thread"} : asks'[b] = asks[b]
  BY <1>1, <1>2, AskNumbers DEF Actor, Task
<1>4. Scheduled(asks', posts', session')
  BY <1>1, <1>2, <1>3, ActorsAre, ScheduledStill DEF Control
<1>5. Failing' /\ OfSession' /\ Numbered' /\ Closing' /\ Lasting'
  <2>1. \A a \in Actor : Follows(asks'[a], asks[a])
    BY <1>3 DEF Follows
  <2> QED BY <1>1, <1>2, <2>1, ControlFollows DEF AnswersKept
<1>6. \A a \in Actor : Inherits(a)
  BY <1>1, <1>3, SameInherits, IdleInherits DEF Heirs, Answer
<1>7. StartsNone
  BY <1>3, ActorsAre DEF StartsNone, R
<1>8. Tokens' /\ Inherited
  <2>1. CASE ThreadReturns /\ asks["thread"].result = "ok"
    <3>1. Remember("thread") /\ asks["thread"].stage # "idle"
      BY <2>1 DEF ThreadReturns
    <3> QED BY <1>1, <1>2, <1>3, <1>6, <1>7, <2>1, <3>1, TokensRemembered DEF Inherited
  <2>2. CASE ~(ThreadReturns /\ asks["thread"].result = "ok")
    <3>1. pin' # NoPin => UNCHANGED <<pin, pinSession, overtaken>>
      BY <2>2 DEF ThreadReturns, ThreadTimesOut, MarkFailed, ForgetPin, cache, history
    <3> QED BY <1>1, <1>2, <1>6, <1>7, <3>1, TokensKept DEF Inherited
  <2> QED BY <2>1, <2>2
<1> QED BY <1>4, <1>5, <1>8 DEF Control

LEMMA AskFields ==
  ASSUME TypeOK, NEW p
  PROVE  /\ Ask(p).stage = "asked" /\ Ask(p).seq = asked' /\ Ask(p).result = "none"
         /\ Ask(p).session = session /\ Ask(p).cancelled = FALSE
  BY DEF Ask, Idle

LEMMA StepAsk ==
  ASSUME Inv, NEW p \in Pins, AsyncAuthenticate(p) \/ RequestAuthenticate(p)
  PROVE  Control' /\ Tokens' /\ Inherited
<1>1. /\ UNCHANGED <<posts, session, link, epoch, credit, accepted>> /\ E' = E /\ asked' = asked + 1
  BY DEF AsyncAuthenticate, RequestAuthenticate, E, history
<1>2. TypeOK /\ Control /\ Tokens
  BY DEF Inv
<1>3. \/ UNCHANGED asks
      \/ \E a \in {"caller", "thread"} : /\ asks' = [asks EXCEPT ![a] = Ask(p)] /\ asks[a].stage = "idle"
                                         /\ link \in {"up", "dead"}
  BY DEF AsyncAuthenticate, RequestAuthenticate
<1>4. \A b \in Actor : \/ asks'[b] = asks[b]
                       \/ /\ b \in {"caller", "thread"} /\ asks'[b] = Ask(p) /\ asks[b].stage = "idle"
                          /\ link \in {"up", "dead"}
  BY <1>2, <1>3, AskNumbers
<1>5. asks'["reauth"] = asks["reauth"]
  BY <1>4, ActorsAre
<1>6. Scheduled(asks', posts', session')
  <2>1. asks'["caller"].stage = "waking" <=> asks["caller"].stage = "waking"
    BY <1>2, <1>4, ActorsAre, AskFields
  <2> QED BY <1>1, <1>2, <1>5, <2>1, ScheduledStill DEF Control
<1>7. Failing'
  <2>1. ASSUME NEW a \in Task, Waits(a)', link' \notin {"up", "dead"}
        PROVE  asks'[a] = asks[a]
    BY <1>1, <1>4, <2>1, ActorsAre
  <2> QED BY <1>1, <1>2, <2>1, FailingKept DEF Control, Waits
<1>8. OfSession'
  <2>1. \A a \in Task : asks'[a] = asks[a] \/ asks'[a].session = session
    BY <1>2, <1>4, ActorsAre, AskFields, ZenonT(60)
  <2> QED BY <1>1, <1>2, <2>1, OfSessionKept DEF Control
<1>9. Numbered'
  <2>1. asked' \in Nat /\ asked <= asked'
    BY <1>1, <1>2, AskNumbers
  <2>2. \A a \in Actor : asks'[a].seq = asks[a].seq \/ asks'[a].seq = Bound(a)'
    BY <1>2, <1>4, AskFields DEF Bound
  <2> QED BY <1>1, <1>2, <2>1, <2>2, NumberedKept DEF Control
<1>10. Closing' /\ Lasting'
  BY <1>1, <1>2, <1>5 DEF Control, Closing, Lasting, Lasts, R, E
<1>11. \A a \in Actor : Inherits(a)
  <2>1. ASSUME NEW a \in Actor, a \in {"caller", "thread"}, asks'[a] = Ask(p)
        PROVE  Inherits(a)
    <3>1. asks'[a].result = "none" /\ asks'[a].seq = asked + 1
      BY <1>1, <1>2, <2>1, AskFields
    <3>2. \A m \in E' : Answer(m, a) => m.seq <= asked
      BY <1>1, <1>2, <2>1 DEF Control, Numbered, Bound
    <3>3. \A m \in E' : Answer(m, a) => m.seq # asks'[a].seq
      BY <1>1, <1>2, <3>1, <3>2, AskNumbers
    <3> QED BY <3>1, <3>3, NewInherits
  <2> QED BY <1>1, <1>4, <2>1, SameInherits DEF Heirs, Answer
<1>12. Tokens' /\ Inherited
  <2>1. pin' # NoPin => UNCHANGED <<pin, pinSession, overtaken>>
    BY DEF AsyncAuthenticate, RequestAuthenticate, MarkFailed, ForgetPin, cache, history
  <2> QED BY <1>1, <1>2, <1>5, <1>11, <2>1, TokensKept DEF StartsNone, R, Inherited
<1> QED BY <1>6, <1>7, <1>8, <1>9, <1>10, <1>12 DEF Control

LEMMA StepLinkDies ==
  ASSUME Inv, LinkDies
  PROVE  Control' /\ Tokens' /\ Inherited
<1> DEFINE z == Wake("disconnected", "kernel")
<1>1. /\ UNCHANGED <<asks, session, epoch, asked, credit, accepted, pin, pinSession, overtaken>>
      /\ asks' = asks /\ link = "up" /\ link' = "dead" /\ posts' = Append(posts, z)
  BY DEF LinkDies, cache, history, bounds
<1>2. TypeOK /\ Control /\ Tokens
  BY DEF Inv
<1>3. z \in Posts /\ z \notin Single /\ z \notin Wakes /\ z # Closed /\ z.k = "disconnected"
  BY PostsAre, WakesDiffer DEF Single, Wakes, Wake, Post, Inner
<1>4. Ordered(posts') /\ posts' \in Seq(Posts) /\ E' = E \cup {z}
  BY <1>1, <1>2, <1>3, AskNumbers, OrderedAppend DEF Control, Scheduled, E, Single
<1> HIDE DEF z
<1>5. \A a : \A m \in E' : Answer(m, a) => m \in E
  BY <1>3, <1>4 DEF Answer
<1>6. Scheduled(asks', posts', session')
  <2>1. (\A x \in Wakes : Same(E', E, x)) /\ Accounted(E', E, R)
    BY <1>3, <1>4, <1>5 DEF Same, Accounted
  <2>2. Waking(asks'["caller"], "caller", E')
    BY <1>1, <1>2, <1>3, <1>4 DEF Control, Scheduled, Waking, Single, E
  <2> QED BY <1>1, <1>2, <1>4, <2>1, <2>2, ScheduledQuiet DEF Control
<1>7. Failing' /\ OfSession' /\ Numbered' /\ Closing' /\ Lasting'
  <2>1. \A a \in Actor : Follows(asks'[a], asks[a])
    BY <1>1 DEF Follows
  <2>2. AnswersKept
    BY <1>5 DEF AnswersKept
  <2>3. Closed \notin E'
    BY <1>1, <1>2, <1>3, <1>4 DEF Control, Closing
  <2> QED BY <1>1, <1>2, <1>4, <2>1, <2>2, <2>3, ControlFollows
<1>8. Tokens' /\ Inherited
  <2>1. \A a \in Actor : Heirs(E', E, a)
    BY <1>3, <1>4 DEF Heirs, Answer
  <2>2. \A a \in Actor : Inherits(a)
    BY <1>1, <2>1, SameInherits
  <2> QED BY <1>1, <1>2, <2>2, TokensKept DEF StartsNone, R, Inherited
<1> QED BY <1>6, <1>7, <1>8 DEF Control

LEMMA StepPanelAnswers ==
  ASSUME Inv, NEW a \in Actor, NEW result \in Results, PanelAnswers(a, result)
  PROVE  /\ Control' /\ Tokens'
         /\ \A b \in Actor : Inherits(b) \/ (b = a /\ result = "ok" /\ asks'[a].pin = asks[a].pin)
<1> DEFINE z == Post("message", a, asks[a].seq, result)
<1>1. /\ UNCHANGED <<session, link, epoch, asked, pin, pinSession, overtaken>>
      /\ link = "up" /\ asks[a].stage = "asked" /\ asks[a].session = session
      /\ asks' = [asks EXCEPT ![a].stage = "answered"] /\ posts' = Append(posts, z)
  BY DEF PanelAnswers, cache, bounds
<1>2. TypeOK /\ Control /\ Tokens
  BY DEF Inv
<1>3. z \in Posts /\ z \notin Single /\ z \notin Wakes /\ z # Closed /\ z.k = "message" /\ z.to = a
      /\ z.seq = asks[a].seq /\ z.what = result
  <2>1. z.k = "message" /\ z.to = a /\ z.seq = asks[a].seq /\ z.what = result
    BY DEF Post
  <2>2. z \in Posts
    BY <1>2, PostsAre, AskNumbers
  <2> QED BY <2>1, <2>2, WakesDiffer DEF Single, Wakes
<1>4. Ordered(posts') /\ posts' \in Seq(Posts) /\ E' = E \cup {z}
  BY <1>1, <1>2, <1>3, AskNumbers, OrderedAppend DEF Control, Scheduled, E, Single
<1> HIDE DEF z
<1>5. /\ \A b \in Actor \ {a} : asks'[b] = asks[b]
      /\ asks'[a] = [asks[a] EXCEPT !.stage = "answered"]
      /\ asks'[a] = Goes(asks[a], "answered", asks[a].result)
  BY <1>1, <1>2, AskNumbers, GoesFields
<1>6. /\ asks'[a].stage = "answered" /\ asks'[a].result = asks[a].result
      /\ asks'[a].pin = asks[a].pin /\ asks'[a].session = asks[a].session
      /\ asks'[a].seq = asks[a].seq /\ asks'[a].epoch = asks[a].epoch
      /\ asks'[a].cancelled = asks[a].cancelled
  BY <1>2, <1>5, AskNumbers, GoesFields
<1>7. Scheduled(asks', posts', session')
  <2>1. (\A x \in Wakes : Same(E', E, x)) /\ Accounted(E', E, R)
    BY <1>1, <1>3, <1>4 DEF Same, Accounted, Answer, R
  <2>2. Waking(asks'["caller"], "caller", E')
    <3>1. Wake("task", "caller") \in E' <=> Wake("task", "caller") \in E
      BY <1>3, <1>4 DEF Single
    <3>2. Waking(asks["caller"], "caller", E)
      BY <1>2 DEF Control, Scheduled, E
    <3>3. asks'["caller"].stage = "waking" <=> asks["caller"].stage = "waking"
      BY <1>1, <1>5, <1>6, ActorsAre
    <3> QED BY <3>1, <3>2, <3>3 DEF Waking
  <2>3. \/ asks'["reauth"] = asks["reauth"]
        \/ R.stage = "asked" /\ asks'["reauth"] = [R EXCEPT !.stage = "answered"]
    BY <1>1, <1>5, ActorsAre DEF R
  <2> QED BY <1>1, <1>2, <1>4, <2>1, <2>2, <2>3, ScheduledQuiet DEF Control
<1>8. Failing' /\ OfSession' /\ Numbered' /\ Closing' /\ Lasting'
  <2>1. \A b \in Actor : Follows(asks'[b], asks[b])
    BY <1>1, <1>5, <1>6 DEF Follows
  <2>2. AnswersKept
    BY <1>3, <1>4 DEF AnswersKept, Answer
  <2> QED BY <1>1, <1>2, <1>3, <1>4, <2>1, <2>2, ControlFollows
<1>9. \A b \in Actor \ {a} : Inherits(b)
  BY <1>3, <1>4, <1>5, SameInherits DEF Heirs, Answer
<1>10. StartsNone
  BY <1>5, <1>6, ActorsAre DEF StartsNone, R
<1>11. CASE result # "ok"
  <2>1. Heirs(E', E, a) /\ Weaker(asks'[a], asks[a])
    BY <1>1, <1>3, <1>4, <1>6, <1>11 DEF Heirs, Answer, Weaker
  <2>2. \A b \in Actor : Inherits(b)
    BY <1>9, <2>1, WeakerInherits
  <2>3. credit' = credit /\ accepted' = accepted
    BY <1>11 DEF PanelAnswers
  <2>4. Tokens'
    BY <1>1, <1>2, <1>10, <2>2, <2>3, TokensKept
  <2> QED BY <1>7, <1>8, <2>2, <2>4 DEF Control
<1>12. CASE result = "ok"
  <2>1. /\ accepted' = accepted \cup {<<asks[a].pin, session>>}
        /\ credit' = [credit EXCEPT ![asks[a].pin] = @ + 1]
    BY <1>12 DEF PanelAnswers
  <2>2. Covered'
    <3> SUFFICES ASSUME NEW p \in Pins
                 PROVE  Held(p)' <= credit'[p]
      BY DEF Covered
    <3>1. Cached(p)' = Cached(p)
      BY <1>1 DEF Cached
    <3>2. Starting(p)' <= Starting(p)
      BY <1>10, StartingKept
    <3>3. \A b \in Actor \ {a} : Grant(b, p)' <= Grant(b, p)
      BY <1>9, GrantKept
    <3>4. Held(p) <= credit[p] /\ credit[p] \in Int
      BY <1>2 DEF Tokens, Covered, TypeOK, HistoryTyped
    <3>5. Grant(a, p)' + credit[p] <= Grant(a, p) + credit'[p]
      <4>1. CASE asks[a].pin = p
        <5>1. credit'[p] = credit[p] + 1
          BY <1>2, <2>1, <4>1 DEF TypeOK, HistoryTyped
        <5> QED BY <3>4, <5>1, PartsAre
      <4>2. CASE asks[a].pin # p
        <5>1. credit'[p] = credit[p]
          BY <1>2, <2>1, <4>2 DEF TypeOK, HistoryTyped
        <5>2. Grant(a, p)' = 0
          BY <1>6, <4>2 DEF Grant, One
        <5> QED BY <3>4, <5>1, <5>2, PartsAre
      <4> QED BY <4>1, <4>2
    <3>6. credit'[p] \in Int
      BY <1>2, <2>1 DEF TypeOK, HistoryTyped
    <3>7. a = "caller" \/ a = "thread" \/ a = "reauth"
      BY ActorsAre
    <3>8. CASE a = "caller"
      BY <3>1, <3>2, <3>3, <3>4, <3>5, <3>6, <3>8, PartsAre, ActorsAre DEF Held
    <3>9. CASE a = "thread"
      BY <3>1, <3>2, <3>3, <3>4, <3>5, <3>6, <3>9, PartsAre, ActorsAre DEF Held
    <3>10. CASE a = "reauth"
      BY <3>1, <3>2, <3>3, <3>4, <3>5, <3>6, <3>10, PartsAre, ActorsAre DEF Held
    <3> QED BY <3>7, <3>8, <3>9, <3>10
  <2>3. GrantedIsAccepted'
    <3>1. <<asks'[a].pin, asks'[a].session>> \in accepted'
      BY <1>1, <1>6, <2>1
    <3>2. \A b \in Actor \ {a} : Granted(b)' => <<asks'[b].pin, asks'[b].session>> \in accepted'
      BY <1>2, <1>9, <2>1 DEF Tokens, GrantedIsAccepted, Inherits
    <3> QED BY <3>1, <3>2 DEF GrantedIsAccepted
  <2>4. CachedIsAccepted'
    BY <1>1, <1>2, <2>1 DEF Tokens, CachedIsAccepted
  <2> QED BY <1>6, <1>7, <1>8, <1>9, <1>12, <2>2, <2>3, <2>4 DEF Control, Tokens
<1> QED BY <1>11, <1>12

LEMMA Idled ==
  ASSUME Inv, posts = <<>>, link \notin {"up", "dead"}
  PROVE  E = {} /\ \A a \in Task : asks[a].stage = "idle" /\ ~asks[a].cancelled
<1>1. E = {}
  BY DEF E, Elems
<1>2. TypeOK /\ Control
  BY DEF Inv
<1>3. ASSUME NEW a \in Task
      PROVE  ~(asks[a].stage = "waking") /\ asks[a].stage \in Stages[a] /\ a \in Actor
             /\ (asks[a].cancelled => a = "reauth")
  BY <1>1, <1>2, ActorsAre DEF TypeOK, AsksTyped, Control, Scheduled, Staged, Waking, E
<1>4. R.stage # "started" /\ R.stage # "done" /\ ~R.cancelled
  BY <1>1, <1>2 DEF Control, Scheduled, Staged, Started, Ending, E, R
<1>5. ASSUME NEW a \in Task
      PROVE  ~asks[a].cancelled
  BY <1>3, <1>4 DEF R
<1>6. ASSUME NEW a \in Task
      PROVE  ~Waits(a)
  BY <1>1, <1>2, <1>5 DEF Control, Failing
<1>7. ASSUME NEW a \in Task
      PROVE  asks[a].stage = "idle"
  <2>1. asks[a].stage \in Stages[a] /\ asks[a].stage # "waking" /\ asks[a].stage \notin {"asked", "answered"}
    BY <1>3, <1>6 DEF Waits
  <2> QED BY <1>4, <2>1, ActorsAre DEF Stages, R
<1> QED BY <1>1, <1>5, <1>7

LEMMA StepConnect ==
  ASSUME Inv, Connect
  PROVE  Control' /\ Tokens' /\ Inherited
<1>1. /\ posts = <<>> /\ link \notin {"up", "dead"} /\ session' = session + 1 /\ link' = "up"
      /\ posts' = <<Connected>>
      /\ UNCHANGED <<asks, epoch, asked, credit, accepted, pin, pinSession, overtaken>> /\ asks' = asks
  BY DEF Connect, cache, history, bounds, Connected
<1>2. TypeOK /\ Control /\ Tokens
  BY DEF Inv
<1>3. E = {} /\ \A a \in Task : asks[a].stage = "idle" /\ ~asks[a].cancelled
  BY <1>1, Idled
<1>4. E' = {Connected} /\ posts' \in Seq(Posts) /\ Ordered(posts')
  <2>1. Len(posts') = 1 /\ posts'[1] = Connected
    BY <1>1
  <2>2. E' = {Connected}
    BY <2>1 DEF E, Elems
  <2>3. posts' \in Seq(Posts)
    BY <1>1, PostsAre DEF Connected
  <2> QED BY <2>1, <2>2, <2>3, WakesDiffer DEF Ordered, Once, Before, Wakes
<1>5. Scheduled(asks', posts', session')
  <2>1. R \in Asks /\ R.stage = "idle" /\ ~R.cancelled /\ R.seq <= MaxAsks + session /\ session \in Nat
    BY <1>2, <1>3, ActorsAre, AskNumbers DEF R, Control, Numbered, Bound
  <2>2. Staged(R, {Connected}, session + 1)
    BY <2>1, StagedFresh
  <2>3. Waking(asks["caller"], "caller", {Connected})
    BY <1>3, ActorsAre, WakesDiffer DEF Waking, Wakes
  <2> QED BY <1>1, <1>4, <2>2, <2>3 DEF Scheduled, E, R
<1>6. Failing' /\ OfSession' /\ Lasting'
  <2>1. R'.stage = "idle" /\ R'.epoch = R.epoch
    BY <1>1, <1>3, ActorsAre DEF R
  <2> QED BY <1>1, <1>2, <1>3, <2>1 DEF Failing, OfSession, Lasting, Control
<1>7. Numbered'
  <2>1. \A m \in E' : ~Answer(m, "caller") /\ ~Answer(m, "thread") /\ ~Answer(m, "reauth")
    BY <1>4, WakesDiffer DEF Answer, Wakes
  <2>2. \A a \in Actor : asks[a].seq <= Bound(a) /\ Bound(a) \in Nat /\ Bound(a)' \in Nat /\ Bound(a) <= Bound(a)'
    BY <1>1, <1>2, AskNumbers DEF Control, Numbered, Bound
  <2>3. \A a \in Actor : asks'[a].seq <= Bound(a)'
    BY <1>1, <1>2, <2>2, AskNumbers
  <2> QED BY <2>1, <2>3, ActorsAre DEF Numbered
<1>8. Closing'
  BY <1>4, WakesDiffer DEF Closing, Wakes
<1>9. Tokens' /\ Inherited
  <2>1. \A a \in Actor : Heirs(E', E, a)
    BY <1>4, WakesDiffer DEF Heirs, Answer, Wakes
  <2>2. \A a \in Actor : Inherits(a)
    BY <1>1, <2>1, SameInherits
  <2>3. pinSession < session'
    BY <1>1, <1>2 DEF TypeOK, LinkTyped, CacheTyped
  <2>4. StartsNone
    BY <1>1 DEF StartsNone, R
  <2> QED BY <1>1, <1>2, <2>2, <2>3, <2>4, TokensKept DEF Inherited
<1> QED BY <1>5, <1>6, <1>7, <1>8, <1>9 DEF Control

\* A task whose future is set, in time or not.
LEMMA ScheduledWoken ==
  ASSUME TypeOK, Scheduled(asks, posts, session), UNCHANGED session, NEW a \in Task, NEW x \in Results \cup {"none"},
         asks[a].stage \in {"asked", "answered", "waking"},
         asks[a].stage # "waking" => ~asks[a].cancelled,
         asks' = [asks EXCEPT ![a] = Goes(asks[a], "waking", x)],
         posts' \in Seq(Posts), Ordered(posts'), Wake("task", a) \in E',
         \A y \in Wakes \cup {Wake("task", "caller")} : y # Wake("task", a) => Same(E', E, y),
         Accounted(E', E, R)
  PROVE  Scheduled(asks', posts', session')
<1>1. a \in Actor /\ R \in Asks /\ session \in Nat /\ E \in SUBSET Posts /\ E' \in SUBSET Posts
  BY AskNumbers, ActorsAre, ElemsTyped DEF R, E
<1>2. \A b \in Actor : asks'[b] = IF b = a THEN Goes(asks[a], "waking", x) ELSE asks[b]
  BY <1>1, AskNumbers
<1>3. Staged(R, E, session) /\ Waking(asks["caller"], "caller", E)
  BY DEF Scheduled, R, E
<1>4. CASE a = "caller"
  <2>1. \A y \in Wakes : Same(E', E, y)
    BY <1>4, WakesDiffer
  <2>2. Waking(asks'["caller"], "caller", E')
    <3>1. asks'["caller"].stage = "waking"
      BY <1>1, <1>2, <1>4, AskNumbers DEF Goes, Asks
    <3> QED BY <1>4, <3>1 DEF Waking
  <2> QED BY <1>2, <1>4, <2>1, <2>2, ActorsAre, ScheduledQuiet
<1>5. CASE a = "reauth"
  <2>1. PICK d \in SUBSET Posts : d = E'
    BY <1>1
  <2>2. Inner \in d /\ Same(d, E, Start) /\ Same(d, E, Outer) /\ Same(d, E, Connected)
    BY <1>5, <2>1, WakesDiffer DEF Wakes, Inner
  <2>3. Staged(Goes(R, "waking", x), d, session)
    BY <1>1, <1>3, <1>5, <2>2, StagedWoken DEF R
  <2>4. Same(E', E, Wake("task", "caller"))
    BY <1>5, WakesDiffer DEF Wakes, Inner
  <2>5. Waking(asks'["caller"], "caller", E')
    BY <1>2, <1>3, <1>5, <2>4, ActorsAre DEF Waking, Same
  <2>6. Staged(asks'["reauth"], E', session')
    BY <1>1, <1>2, <1>5, <2>1, <2>3 DEF R
  <2> QED BY <2>5, <2>6 DEF Scheduled, E
<1> QED BY <1>4, <1>5, ActorsAre

LEMMA StepWaitEnds ==
  ASSUME Inv, NEW a \in Task, NEW o \in {"failed", "none"}, WaitEnds(a, o)
  PROVE  Control' /\ Tokens' /\ Inherited
<1> DEFINE z == Wake("task", a)
<1>1. /\ UNCHANGED <<session, link, epoch, asked, credit, accepted, pin, pinSession, overtaken>>
      /\ ~asks[a].cancelled
      /\ asks[a].stage \in {"asked", "answered", "waking"}
      /\ IF asks[a].stage = "waking" THEN posts' = posts ELSE posts' = Append(posts, z)
  BY DEF WaitEnds, Waits, cache, history, bounds
<1>2. TypeOK /\ Control /\ Tokens
  BY DEF Inv
<1>3. a \in Actor /\ asks[a] \in Asks /\ asks \in [Actor -> Asks] /\ posts \in Seq(Posts)
  BY <1>2, AskNumbers, ActorsAre
<1>4. asks' = [asks EXCEPT ![a] = Goes(asks[a], "waking", o)]
  BY <1>3, WaitEndsGoes
<1>5. Ordered(posts) /\ Staged(R, E, session) /\ Waking(asks["caller"], "caller", E)
  BY <1>2 DEF Control, Scheduled, R, E
<1>6. asks[a].stage = "waking" <=> z \in E
  BY <1>5, ActorsAre DEF Staged, Waking, R
<1>7. z \in Posts /\ z.k = "task"
  BY PostsAre DEF Wake, Post
<1>8. Ordered(posts') /\ posts' \in Seq(Posts) /\ E' = E \cup {z}
  <2>1. CASE asks[a].stage = "waking"
    BY <1>1, <1>3, <1>5, <1>6, <2>1 DEF E
  <2>2. CASE asks[a].stage # "waking"
    <3>1. z \notin Elems(posts)
      BY <1>6, <2>2 DEF E
    <3>2. z = Inner => Outer \notin Elems(posts)
      <4>1. z = Inner => a = "reauth"
        BY DEF Inner, Wake, Post
      <4> QED BY <1>1, <1>5, <4>1 DEF Staged, Ending, R, E
    <3> QED BY <1>1, <1>3, <1>5, <1>7, <2>2, <3>1, <3>2, OrderedAppend DEF E
  <2> QED BY <2>1, <2>2
<1>9. /\ \A y \in E' : y = z \/ y \in E
      /\ \A y \in Wakes \cup {Wake("task", "caller")} : y # z => Same(E', E, y)
      /\ \A b : \A m \in E' : Answer(m, b) => m \in E
  BY <1>7, <1>8 DEF Same, Answer
<1>10. Scheduled(asks', posts', session')
  <2>1. Accounted(E', E, R)
    BY <1>9 DEF Accounted
  <2>2. z \in E' /\ o \in Results \cup {"none"}
    BY <1>8 DEF Results
  <2> QED BY <1>1, <1>2, <1>4, <1>8, <1>9, <2>1, <2>2, ScheduledWoken DEF Control
<1>11. /\ \A b \in Actor \ {a} : asks'[b] = asks[b]
       /\ asks'[a] = Goes(asks[a], "waking", o)
  BY <1>3, <1>4
<1>12. /\ asks'[a].stage = "waking" /\ asks'[a].result = o
       /\ asks'[a].pin = asks[a].pin /\ asks'[a].session = asks[a].session
       /\ asks'[a].seq = asks[a].seq /\ asks'[a].epoch = asks[a].epoch
       /\ asks'[a].cancelled = asks[a].cancelled
  BY <1>3, <1>11 DEF Goes, Asks
<1>13. Failing' /\ OfSession' /\ Numbered' /\ Closing' /\ Lasting'
  <2>1. \A b \in Actor : Follows(asks'[b], asks[b])
    BY <1>1, <1>11, <1>12 DEF Follows
  <2>2. AnswersKept
    BY <1>9 DEF AnswersKept
  <2>3. z # Closed /\ E \subseteq E'
    BY <1>7, <1>8 DEF Closed, Wake, Post
  <2> QED BY <1>1, <1>2, <1>9, <2>1, <2>2, <2>3, ControlFollows
<1>14. Tokens' /\ Inherited
  <2>1. \A b \in Actor : Heirs(E', E, b)
    BY <1>9 DEF Heirs
  <2>2. \A b \in Actor : Weaker(asks'[b], asks[b])
    BY <1>11, <1>12 DEF Weaker
  <2>3. \A b \in Actor : Inherits(b)
    BY <2>1, <2>2, WeakerInherits
  <2>4. StartsNone
    BY <1>11, <1>12, ActorsAre DEF StartsNone, R
  <2> QED BY <1>1, <1>2, <2>3, <2>4, TokensKept DEF Inherited
<1> QED BY <1>10, <1>13, <1>14 DEF Control

\* _cancel_reauth, with what comes before it: the thread is not told, failures are posted.
LEMMA Cancelling ==
  ASSUME Inv, NEW f, Fit(f), \A a \in Task : f[a] = asks[a],
         f["thread"] = asks["thread"]
           \/ (Waits("thread") /\ f["thread"] = Goes(asks["thread"], "unheard", asks["thread"].result)),
         NEW q \in Seq(Posts), Ordered(q), CancelReauth(f, q),
         \A x \in Wakes \cup {Wake("task", "caller")} : Same(Elems(q), E, x),
         \A a \in Actor : \A m \in Elems(q) : Answer(m, a) =>
            \/ \E n \in E : Answer(n, a) /\ n.seq = m.seq /\ n.what = m.what
            \/ Waits(a) /\ m.seq = asks[a].seq /\ m.what = "failed",
         UNCHANGED <<session, asked>>
  PROVE  /\ Scheduled(asks', posts', session') /\ OfSession' /\ Numbered' /\ Lasting'
         /\ \A a \in Actor : Inherits(a)
         /\ StartsNone
         /\ Elems(q) \subseteq E' /\ E' \subseteq Elems(q) \cup {Outer}
         /\ \A a \in Task : Waits(a)' => /\ Waits(a) /\ asks'[a].seq = asks[a].seq
                                         /\ asks[a].cancelled => asks'[a].cancelled
<1>1. TypeOK /\ Control /\ Tokens
  BY DEF Inv
<1>2. f \in [Actor -> Asks] /\ asks \in [Actor -> Asks] /\ session \in Nat /\ R \in Asks
      /\ E \in SUBSET Posts /\ Task \subseteq Actor
  BY <1>1, AskNumbers, ActorsAre DEF Fit, R
<1>3. Ordered(posts) /\ Staged(R, E, session) /\ Waking(asks["caller"], "caller", E)
  BY <1>1 DEF Control, Scheduled, R, E
<1>4. Outer \in Posts /\ Outer \notin Single /\ Outer.k = "outer"
  <2>1. Outer.k = "outer"
    BY DEF Outer, Wake, Post
  <2> QED BY <2>1, PostsAre, WakesDiffer DEF Outer, Single, Wakes
<1>5. posts' \in Seq(Posts) /\ Ordered(posts') /\ Elems(q) \subseteq E' /\ E' \subseteq Elems(q) \cup {Outer}
      /\ (R.stage \in {"asked", "answered", "waking"} => Outer \in E')
      /\ (R.stage \notin {"asked", "answered", "waking"} => E' = Elems(q))
  <2>1. CASE R.stage \in {"asked", "answered", "waking"}
    <3>1. posts' = Append(q, Outer)
      BY <2>1 DEF CancelReauth, Waits, R, Outer
    <3>2. Outer # Inner
      BY WakesDiffer
    <3> QED BY <1>4, <2>1, <3>1, <3>2, OrderedAppend DEF E
  <2>2. CASE R.stage \notin {"asked", "answered", "waking"}
    <3>1. posts' = q
      BY <2>2 DEF CancelReauth, Waits, R
    <3> QED BY <2>2, <3>1 DEF E
  <2> QED BY <2>1, <2>2
<1>6. /\ \A b \in Actor \ {"reauth"} : asks'[b] = f[b]
      /\ IF R.stage = "idle" THEN asks'["reauth"] = R
                             ELSE asks'["reauth"] = [R EXCEPT !.cancelled = TRUE]
  BY <1>2, ActorsAre DEF CancelReauth, R
<1>7. /\ asks'["reauth"].stage = R.stage /\ asks'["reauth"].result = R.result
      /\ asks'["reauth"].pin = R.pin /\ asks'["reauth"].session = R.session
      /\ asks'["reauth"].seq = R.seq /\ asks'["reauth"].epoch = R.epoch
      /\ (R.cancelled => asks'["reauth"].cancelled)
  BY <1>2, <1>6 DEF Asks
<1>8. asks'["caller"] = asks["caller"] /\ (asks'["thread"] = asks["thread"]
        \/ (Waits("thread") /\ asks'["thread"] = Goes(asks["thread"], "unheard", asks["thread"].result)))
  BY <1>6, ActorsAre
<1>9. \A m \in E' : \A a \in Actor : Answer(m, a) => m \in Elems(q)
  BY <1>4, <1>5 DEF Answer
<1>10. Scheduled(asks', posts', session')
  <2>1. PICK d \in SUBSET Posts : d = E'
    BY <1>5, ElemsTyped DEF E
  <2>2. /\ Same(d, E, Start) /\ Same(d, E, Inner) /\ Same(d, E, Connected)
        /\ Same(d, E, Wake("task", "caller"))
        /\ IF R.stage \in {"asked", "answered", "waking"} THEN Outer \in d ELSE Same(d, E, Outer)
    BY <1>5, <2>1, WakesDiffer DEF Same, Wakes
  <2>3. Accounted(d, E, R)
    BY <1>9, <2>1, ActorsAre DEF Accounted, Waits, R
  <2>4. CASE R.stage # "idle"
    <3>1. R.stage \in Stages["reauth"] \ {"idle"}
      BY <1>1, <2>4, ActorsAre DEF TypeOK, AsksTyped, R
    <3>2. Staged([R EXCEPT !.cancelled = TRUE], d, session)
      BY <1>2, <1>3, <2>2, <2>3, <3>1, StagedCancelled
    <3>3. Staged(asks'["reauth"], E', session')
      BY <1>6, <2>1, <2>4, <3>2
    <3>4. Waking(asks'["caller"], "caller", E')
      BY <1>3, <1>8, <2>1, <2>2 DEF Waking, Same
    <3> QED BY <1>5, <3>3, <3>4 DEF Scheduled, E
  <2>5. CASE R.stage = "idle"
    <3>1. \A x \in Wakes : Same(d, E, x)
      BY <2>2, <2>5 DEF Wakes
    <3>2. Waking(asks'["caller"], "caller", E')
      BY <1>3, <1>8, <2>1, <2>2 DEF Waking, Same
    <3>3. asks'["reauth"] = asks["reauth"]
      BY <1>6, <2>5 DEF R
    <3>4. (\A x \in Wakes : Same(E', E, x)) /\ Accounted(E', E, R)
      BY <2>1, <2>3, <3>1
    <3> QED BY <1>1, <1>5, <3>2, <3>3, <3>4, ScheduledQuiet DEF Control
  <2> QED BY <2>4, <2>5
<1>11. OfSession'
  <2>1. \A a \in Task : asks'[a].stage = asks[a].stage /\ asks'[a].session = asks[a].session
    BY <1>7, <1>8, ActorsAre DEF R
  <2> QED BY <1>1, <2>1, OfSessionKept DEF Control
<1>12. /\ asks'["thread"].seq = asks["thread"].seq /\ asks'["thread"].pin = asks["thread"].pin
       /\ asks'["thread"].session = asks["thread"].session /\ asks'["thread"].result = asks["thread"].result
       /\ asks'["thread"].epoch = asks["thread"].epoch
       /\ Waits("thread")' => Waits("thread")
  <2>1. asks["thread"] \in Asks
    BY <1>2, ActorsAre
  <2> QED BY <1>8, <2>1 DEF Goes, Asks, Waits
<1>13. Numbered'
  <2>1. \A a \in Actor : asks'[a].seq = asks[a].seq
    BY <1>7, <1>8, <1>12, ActorsAre DEF R
  <2>2. asked' \in Nat /\ asked <= asked'
    BY <1>1, AskNumbers
  <2>3. \A a \in Actor : \A m \in E' : Answer(m, a) =>
           (\E n \in E : Answer(n, a) /\ n.seq = m.seq) \/ m.seq = asks[a].seq
    BY <1>9
  <2> QED BY <1>1, <2>1, <2>2, <2>3, NumberedKept DEF Control
<1>14. Lasting'
  <2>1. epoch' = epoch + 1 /\ R'.epoch = R.epoch
    BY <1>7 DEF CancelReauth, R
  <2>2. R.epoch <= epoch /\ R.epoch \in Nat /\ epoch \in Nat
    BY <1>1, AskNumbers, ActorsAre DEF Control, Lasting, R
  <2>3. R'.epoch <= epoch' /\ R'.epoch # epoch'
    BY <2>1, <2>2
  <2> QED BY <2>3 DEF Lasting
<1>15. \A a \in Actor : Inherits(a)
  <2>1. ASSUME NEW a \in Actor
        PROVE  Heirs(E', E, a)
    BY <1>9 DEF Heirs
  <2>2. \A a \in Actor : Weaker(asks'[a], asks[a])
    BY <1>7, <1>8, <1>12, ActorsAre DEF Weaker, Waits, R
  <2> QED BY <2>1, <2>2, WeakerInherits
<1>16. StartsNone
  BY <1>7 DEF StartsNone, R
<1>17. \A a \in Task : Waits(a)' => /\ Waits(a) /\ asks'[a].seq = asks[a].seq
                                    /\ asks[a].cancelled => asks'[a].cancelled
  BY <1>7, <1>8, ActorsAre DEF Waits, R
<1> QED BY <1>5, <1>10, <1>11, <1>13, <1>14, <1>15, <1>16, <1>17

LEMMA StepDisconnect ==
  ASSUME Inv, Disconnect \/ DisconnectAgain
  PROVE  Control' /\ Tokens' /\ Inherited
<1>1. TypeOK /\ Control /\ Tokens
  BY DEF Inv
<1>2. /\ UNCHANGED <<session, asked, accepted, credit, overtaken>> /\ pin' = NoPin
      /\ link' \notin {"up", "dead"} /\ link' \in {"closing", "none"}
      /\ Disconnect => link' = "closing" /\ link # "closing"
      /\ DisconnectAgain => link' = link
  BY DEF Disconnect, DisconnectAgain, ForgetPin, bounds
<1>3. /\ Fit(Aborted) /\ \A a \in Task : Aborted[a] = asks[a]
      /\ Aborted["thread"] = asks["thread"]
           \/ (Waits("thread") /\ Aborted["thread"] = Goes(asks["thread"], "unheard", asks["thread"].result))
  BY <1>1, AbortedTyped DEF TypeOK
<1>4. posts \in Seq(Posts) /\ Ordered(posts)
  BY <1>1, AskNumbers DEF Control, Scheduled
<1>5. /\ posts \o Failures \in Seq(Posts) /\ Ordered(posts \o Failures)
      /\ Elems(posts \o Failures) = E \cup Elems(Failures)
  BY <1>1, <1>4, FailuresAre, OrderedConcat DEF E
<1>6. PICK q \in Seq(Posts) : /\ Ordered(q) /\ CancelReauth(Aborted, q)
                              /\ E \cup Elems(Failures) \subseteq Elems(q)
                              /\ Elems(q) \subseteq E \cup Elems(Failures) \cup {Closed}
                              /\ DisconnectAgain => Elems(q) = E \cup Elems(Failures)
  <2>1. CASE DisconnectAgain
    BY <1>5, <2>1 DEF DisconnectAgain
  <2>2. CASE Disconnect /\ ~DisconnectAgain
    <3>1. Closed \in Posts /\ Closed \notin E \cup Elems(Failures) /\ Closed # Inner
      <4>1. Closed \notin E
        BY <1>1, <1>2, <2>2 DEF Control, Closing
      <4>2. Closed \notin Elems(Failures)
        BY <1>1, FailuresAre DEF Single
      <4> QED BY <4>1, <4>2, PostsAre, WakesDiffer DEF Closed, Wakes
    <3>2. /\ Ordered(Append(posts \o Failures, Closed))
          /\ Append(posts \o Failures, Closed) \in Seq(Posts)
          /\ Elems(Append(posts \o Failures, Closed)) = E \cup Elems(Failures) \cup {Closed}
      BY <1>5, <3>1, OrderedAppend
    <3>3. posts \o Failures \o <<Closed>> = Append(posts \o Failures, Closed)
      BY <1>5, <3>1
    <3>4. CancelReauth(Aborted, posts \o Failures \o <<Closed>>)
      BY <2>2 DEF Disconnect, Closed
    <3> QED BY <2>2, <3>2, <3>3, <3>4
  <2> QED BY <2>1, <2>2
<1>7. \A m \in Elems(q) \ E : m = Closed \/ (/\ m.k = "result" /\ m.to \in Task /\ Waits(m.to)
                                             /\ m.seq = asks[m.to].seq /\ m.what = "failed")
  BY <1>1, <1>6, FailuresAre
<1>8. \A x \in Wakes \cup {Wake("task", "caller")} : Same(Elems(q), E, x)
  BY <1>6, <1>7, WakesDiffer DEF Same
<1>9. \A a \in Actor : \A m \in Elems(q) : Answer(m, a) =>
            \/ \E n \in E : Answer(n, a) /\ n.seq = m.seq /\ n.what = m.what
            \/ Waits(a) /\ m.seq = asks[a].seq /\ m.what = "failed"
  BY <1>7, WakesDiffer DEF Answer
<1>10. UNCHANGED <<session, asked>>
  BY <1>2
<1>11. /\ Scheduled(asks', posts', session') /\ OfSession' /\ Numbered' /\ Lasting'
       /\ \A a \in Actor : Inherits(a)
       /\ StartsNone
       /\ Elems(q) \subseteq E' /\ E' \subseteq Elems(q) \cup {Outer}
       /\ \A a \in Task : Waits(a)' => /\ Waits(a) /\ asks'[a].seq = asks[a].seq
                                       /\ asks[a].cancelled => asks'[a].cancelled
  BY <1>3, <1>6, <1>8, <1>9, <1>10, Cancelling
<1>12. Failing'
  BY <1>1, <1>6, <1>11, FailingPosted
<1>13. Closing'
  <2>1. CASE Disconnect
    BY <1>2, <2>1 DEF Closing
  <2>2. CASE DisconnectAgain
    <3>1. Closed \notin Elems(Failures) /\ Closed # Outer
      BY <1>1, FailuresAre, WakesDiffer DEF Single, Wakes
    <3> QED BY <1>1, <1>2, <1>6, <1>11, <2>2, <3>1 DEF Control, Closing
  <2> QED BY <2>1, <2>2
<1>14. Tokens' /\ Inherited
  BY <1>1, <1>2, <1>11, TokensKept DEF Inherited
<1> QED BY <1>11, <1>12, <1>13, <1>14 DEF Control

LEMMA Popped ==
  ASSUME Inv, posts # <<>>, NEW m, NEW ps, m = Head(posts), ps = Tail(posts)
  PROVE  /\ TypeOK /\ Control /\ Tokens
         /\ m \in Posts /\ ps \in Seq(Posts) /\ Ordered(ps)
         /\ E = Elems(ps) \cup {m}
         /\ m \in Single => m \notin Elems(ps)
         /\ m = Outer => Inner \notin E
         /\ Staged(R, E, session) /\ Waking(asks["caller"], "caller", E)
<1>1. TypeOK /\ Control /\ Tokens
  BY DEF Inv
<1>2. posts \in Seq(Posts) /\ Ordered(posts)
  BY <1>1, AskNumbers DEF Control, Scheduled
<1>3. /\ m \in Posts /\ ps \in Seq(Posts) /\ Ordered(ps)
      /\ E = Elems(ps) \cup {m}
      /\ m \in Single => m \notin Elems(ps)
      /\ m = Outer => Inner \notin E
  BY <1>2, OrderedTail DEF E
<1> QED BY <1>1, <1>3 DEF Control, Scheduled, R, E

\* An actor takes its answer in.
LEMMA AnswerInherits ==
  ASSUME NEW a \in Actor, NEW m \in E, Answer(m, a), IsFor(m), asks'[a].result = m.what,
         asks'[a].stage \notin {"asked", "answered"},
         asks'[a].pin = asks[a].pin, asks'[a].session = asks[a].session,
         asks'[a].epoch = asks[a].epoch
  PROVE  Inherits(a)
<1>1. Granted(a)' => m.what = "ok"
  BY DEF Granted, Waits
<1>2. m.what = "ok" => Granted(a)
  BY DEF Granted, IsFor, Answer
<1> QED BY <1>1, <1>2 DEF Inherits

LEMMA StepOnMessage ==
  ASSUME Inv, Rest, posts # <<>>, NEW m, NEW ps, m = Head(posts), ps = Tail(posts), OnMessage(m, ps)
  PROVE  Control' /\ Tokens' /\ Inherited
<1>1. /\ TypeOK /\ Control /\ Tokens
      /\ m \in Posts /\ ps \in Seq(Posts) /\ Ordered(ps) /\ E = Elems(ps) \cup {m}
      /\ Waking(asks["caller"], "caller", E)
  BY Popped
<1>2. m.k = "message" /\ m.to \in Actor /\ m.seq \in Nat /\ m.what \in Results
  BY <1>1, PostParts DEF OnMessage
<1>3. /\ UNCHANGED <<session, link, epoch, asked, credit, accepted, pin, pinSession, overtaken>>
  BY DEF OnMessage, Rest, cache, history, bounds
<1> DEFINE z == Post("result", m.to, m.seq, m.what)
<1>4. z.k = "result" /\ z.to = m.to /\ z.seq = m.seq /\ z.what = m.what
  BY DEF Post
<1>5. m.to # "thread" => z \in Posts
  BY <1>2, PostsAre DEF Task
<1>6. z \notin Single /\ z \notin Wakes /\ z # Closed /\ z # Inner
  BY <1>4, WakesDiffer DEF Single, Wakes
<1>7. CASE m.to # "thread"
  <2>1. posts' = Append(ps, z) /\ asks' = asks
    BY <1>7 DEF OnMessage
  <2> HIDE DEF z
  <2>2. posts' \in Seq(Posts) /\ Ordered(posts') /\ E' = Elems(ps) \cup {z}
    BY <1>1, <1>5, <1>6, <1>7, <2>1, OrderedAppend DEF E
  <2>3. \A x \in Wakes \cup {Wake("task", "caller"), Closed} : Same(E', E, x)
    BY <1>1, <1>2, <1>6, <2>2, WakesDiffer DEF Same, Single
  <2>4. \A a : \A n \in E' : Answer(n, a) => \E o \in E : Answer(o, a) /\ o.seq = n.seq /\ o.what = n.what
    BY <1>1, <1>2, <1>4, <2>2 DEF Answer
  <2>5. Scheduled(asks', posts', session')
    <3>1. Waking(asks'["caller"], "caller", E')
      BY <1>1, <2>1, <2>3 DEF Waking, Same
    <3>2. Accounted(E', E, R)
      BY <2>4 DEF Accounted
    <3> QED BY <1>1, <1>3, <2>1, <2>2, <2>3, <3>1, <3>2, ScheduledQuiet DEF Control
  <2>6. Failing' /\ OfSession' /\ Numbered' /\ Closing' /\ Lasting'
    <3>1. \A a \in Actor : Follows(asks'[a], asks[a])
      BY <2>1 DEF Follows
    <3>2. AnswersKept
      BY <2>4 DEF AnswersKept
    <3>3. Event("lost") \in E => Event("lost") \in E'
      BY <1>1, <1>2, <2>2 DEF Event, Post
    <3>4. \A n \in E : n.k = "result" => n \in E'
      BY <1>1, <1>2, <2>2
    <3>5. Closed \in E' => Closed \in E
      BY <2>3 DEF Same
    <3> QED BY <1>1, <1>3, <3>1, <3>2, <3>3, <3>4, <3>5, ControlFollows
  <2>7. Tokens' /\ Inherited
    <3>1. \A a \in Actor : Inherits(a)
      BY <2>1, <2>4, SameInherits DEF Heirs
    <3> QED BY <1>1, <1>3, <2>1, <3>1, TokensKept DEF StartsNone, R, Inherited
  <2> QED BY <2>5, <2>6, <2>7 DEF Control
<1>8. CASE m.to = "thread"
  <2>1. posts' = ps /\ E' = Elems(ps)
    BY <1>8 DEF OnMessage, E
  <2>2. /\ \A b \in Actor \ {"thread"} : asks'[b] = asks[b]
        /\ \/ asks'["thread"] = asks["thread"]
           \/ IsFor(m) /\ asks'["thread"] = Goes(asks["thread"], "told", m.what)
    <3>1. asks \in [Actor -> Asks] /\ "thread" \in Actor
      BY <1>1, AskNumbers DEF Actor
    <3> QED BY <1>8, <3>1 DEF OnMessage, Goes, Asks
  <2>3. \/ asks'["thread"] = asks["thread"]
        \/ /\ IsFor(m) /\ asks'["thread"].stage = "told" /\ asks'["thread"].result = m.what
           /\ asks'["thread"].pin = asks["thread"].pin /\ asks'["thread"].session = asks["thread"].session
           /\ asks'["thread"].seq = asks["thread"].seq /\ asks'["thread"].epoch = asks["thread"].epoch
           /\ asks'["thread"].cancelled = asks["thread"].cancelled
    <3>1. asks["thread"] \in Asks
      BY <1>1, AskNumbers DEF Actor
    <3> QED BY <2>2, <3>1 DEF Goes, Asks
  <2>4. \A x \in Wakes \cup {Wake("task", "caller"), Closed} : Same(E', E, x)
    BY <1>1, <1>2, <2>1, WakesDiffer DEF Same
  <2>5. asks'["reauth"] = asks["reauth"] /\ asks'["caller"] = asks["caller"]
    BY <2>2, ActorsAre
  <2>6. Scheduled(asks', posts', session')
    <3>1. Waking(asks'["caller"], "caller", E')
      BY <1>1, <2>4, <2>5 DEF Waking, Same
    <3>2. Accounted(E', E, R)
      BY <1>1, <2>1 DEF Accounted
    <3>3. posts' \in Seq(Posts) /\ Ordered(posts')
      BY <1>1, <2>1
    <3> QED BY <1>1, <1>3, <2>4, <2>5, <3>1, <3>2, <3>3, ScheduledQuiet DEF Control
  <2>7. Failing' /\ OfSession' /\ Numbered' /\ Closing' /\ Lasting'
    <3>1. \A a \in Actor : Follows(asks'[a], asks[a])
      BY <1>8, <2>2, <2>3 DEF Follows, IsFor, Waits
    <3>2. AnswersKept
      BY <1>1, <2>1 DEF AnswersKept
    <3>3. Event("lost") \in E => Event("lost") \in E'
      BY <1>1, <1>2, <2>1 DEF Event, Post
    <3>4. \A n \in E : n.k = "result" => n \in E'
      BY <1>1, <1>2, <2>1
    <3>5. Closed \in E' => Closed \in E
      BY <2>4 DEF Same
    <3> QED BY <1>1, <1>3, <3>1, <3>2, <3>3, <3>4, <3>5, ControlFollows
  <2>8. Tokens' /\ Inherited
    <3>1. \A a \in Actor : Heirs(E', E, a)
      BY <1>1, <2>1 DEF Heirs
    <3>2. ASSUME NEW a \in Actor
          PROVE  Inherits(a)
      <4>1. CASE asks'[a] = asks[a]
        BY <3>1, <4>1, SameInherits
      <4>2. CASE asks'[a] # asks[a]
        <5>1. a = "thread" /\ Answer(m, "thread") /\ m \in E
          BY <1>1, <1>2, <1>8, <2>2, <4>2 DEF Answer
        <5> QED BY <2>3, <4>2, <5>1, AnswerInherits
      <4> QED BY <4>1, <4>2
    <3> QED BY <1>1, <1>3, <2>5, <3>2, TokensKept DEF StartsNone, R, Inherited
  <2> QED BY <2>6, <2>7, <2>8 DEF Control
<1> QED BY <1>7, <1>8

LEMMA StepSetResult ==
  ASSUME Inv, Rest, posts # <<>>, NEW m, NEW ps, m = Head(posts), ps = Tail(posts), SetResult(m, ps)
  PROVE  Control' /\ Tokens' /\ Inherited
<1>1. /\ TypeOK /\ Control /\ Tokens
      /\ m \in Posts /\ ps \in Seq(Posts) /\ Ordered(ps) /\ E = Elems(ps) \cup {m}
      /\ Staged(R, E, session) /\ Waking(asks["caller"], "caller", E)
  BY Popped
<1>2. m.k = "result" /\ m.to \in Task /\ m.to \in Actor /\ m.seq \in Nat /\ m.what \in Results
  BY <1>1, PostParts, ActorsAre DEF SetResult
<1>3. /\ UNCHANGED <<session, link, epoch, asked, credit, accepted, pin, pinSession, overtaken>>
  BY DEF SetResult, Rest, cache, history, bounds
<1>4. \A x \in Wakes \cup {Wake("task", "caller"), Closed, Event("lost")} : x # m
  BY <1>2, WakesDiffer DEF Event, Post
<1> DEFINE a == m.to
           z == Wake("task", a)
<1>5. CASE IsFor(m) /\ ~asks[a].cancelled
  <2>1. /\ posts' = Append(ps, z) /\ asks[a].stage \in {"asked", "answered"} /\ asks[a].seq = m.seq
        /\ asks[a] \in Asks /\ asks \in [Actor -> Asks]
    BY <1>1, <1>2, <1>5, AskNumbers DEF SetResult, IsFor, Waits
  <2>2. asks' = [asks EXCEPT ![a] = Goes(asks[a], "waking", m.what)]
    BY <1>5, <2>1 DEF SetResult, Goes, Asks
  <2>3. z \in Posts /\ z.k = "task" /\ z # Closed
    BY <1>2, PostsAre DEF Wake, Post, Closed
  <2>4. z \notin E
    BY <1>1, <1>2, <2>1, ActorsAre DEF Staged, Waking, R
  <2>5. z = Inner => Outer \notin E
    <3>1. z = Inner => a = "reauth"
      BY DEF Inner, Wake, Post
    <3> QED BY <1>1, <1>5, <2>1, <3>1 DEF Staged, Ending, R
  <2>6. posts' \in Seq(Posts) /\ Ordered(posts') /\ E' = Elems(ps) \cup {z}
    BY <1>1, <2>1, <2>3, <2>4, <2>5, OrderedAppend DEF E
  <2>7. /\ \A y \in Wakes \cup {Wake("task", "caller")} : y # z => Same(E', E, y)
        /\ \A b : \A n \in E' : Answer(n, b) => n \in E
        /\ \A n \in E : n # m => n \in E'
    BY <1>1, <1>4, <2>3, <2>6 DEF Same, Answer
  <2>8. Scheduled(asks', posts', session')
    <3>1. Accounted(E', E, R)
      BY <2>7 DEF Accounted
    <3>2. z \in E' /\ a \in Task
      BY <1>2, <2>6
    <3> QED BY <1>1, <1>2, <1>3, <1>5, <2>1, <2>2, <2>6, <2>7, <3>1, <3>2, ScheduledWoken DEF Control
  <2>9. /\ \A b \in Actor \ {a} : asks'[b] = asks[b]
        /\ asks'[a] = Goes(asks[a], "waking", m.what)
    BY <1>2, <2>1, <2>2
  <2>10. /\ asks'[a].stage = "waking" /\ asks'[a].result = m.what
         /\ asks'[a].pin = asks[a].pin /\ asks'[a].session = asks[a].session
         /\ asks'[a].seq = asks[a].seq /\ asks'[a].epoch = asks[a].epoch
         /\ asks'[a].cancelled = asks[a].cancelled
    BY <2>1, <2>9 DEF Goes, Asks
  <2>11. Failing' /\ OfSession' /\ Numbered' /\ Closing' /\ Lasting'
    <3>1. \A b \in Actor : Follows(asks'[b], asks[b])
      BY <2>1, <2>9, <2>10 DEF Follows
    <3>2. AnswersKept
      BY <2>7 DEF AnswersKept
    <3>3. \A n \in E : n.k = "result" /\ n \notin E' => n.to = a
      BY <2>7
    <3>4. asks'[a] # asks[a] /\ ~Waits(a)'
      BY <2>1, <2>10 DEF Waits
    <3>5. Event("lost") \in E => Event("lost") \in E'
      BY <1>4, <2>7
    <3>6. Closed \in E' => Closed \in E
      BY <1>1, <2>3, <2>6
    <3> QED BY <1>1, <1>3, <3>1, <3>2, <3>3, <3>4, <3>5, <3>6, ControlFollows
  <2>12. Tokens' /\ Inherited
    <3>1. \A b \in Actor : Heirs(E', E, b)
      BY <2>7 DEF Heirs
    <3>2. Inherits(a)
      <4>1. Answer(m, a) /\ m \in E /\ IsFor(m)
        BY <1>1, <1>2, <1>5 DEF Answer
      <4> QED BY <1>2, <2>10, <4>1, AnswerInherits
    <3>3. \A b \in Actor : Inherits(b)
      BY <2>9, <3>1, <3>2, SameInherits
    <3>4. StartsNone
      BY <2>9, <2>10, ActorsAre DEF StartsNone, R
    <3> QED BY <1>1, <1>3, <3>3, <3>4, TokensKept DEF Inherited
  <2> QED BY <2>8, <2>11, <2>12 DEF Control
<1>6. CASE ~(IsFor(m) /\ ~asks[a].cancelled)
  <2>1. posts' = ps /\ E' = Elems(ps) /\ asks' = asks
    BY <1>6 DEF SetResult, E
  <2>2. \A x \in Wakes \cup {Wake("task", "caller"), Closed, Event("lost")} : Same(E', E, x)
    BY <1>1, <1>4, <2>1 DEF Same
  <2>3. Scheduled(asks', posts', session')
    <3>1. Waking(asks'["caller"], "caller", E')
      BY <1>1, <2>1, <2>2 DEF Waking, Same
    <3>2. Accounted(E', E, R)
      BY <1>1, <2>1 DEF Accounted
    <3>3. posts' \in Seq(Posts) /\ Ordered(posts')
      BY <1>1, <2>1
    <3> QED BY <1>1, <1>3, <2>1, <2>2, <3>1, <3>2, <3>3, ScheduledQuiet DEF Control
  <2>4. Failing' /\ OfSession' /\ Numbered' /\ Closing' /\ Lasting'
    <3>1. \A b \in Actor : Follows(asks'[b], asks[b])
      BY <2>1 DEF Follows
    <3>2. AnswersKept
      BY <1>1, <2>1 DEF AnswersKept
    <3>3. \A n \in E : n \notin E' => n = m
      BY <1>1, <2>1
    <3>4. (Event("lost") \in E => Event("lost") \in E') /\ (Closed \in E' => Closed \in E)
      BY <2>2 DEF Same
    <3> QED BY <1>1, <1>3, <1>6, <2>1, <3>1, <3>2, <3>3, <3>4, ControlFollows
  <2>5. Tokens' /\ Inherited
    <3>1. \A b \in Actor : Heirs(E', E, b)
      BY <1>1, <2>1 DEF Heirs
    <3>2. \A b \in Actor : Inherits(b)
      BY <2>1, <3>1, SameInherits
    <3> QED BY <1>1, <1>3, <2>1, <3>2, TokensKept DEF StartsNone, R, Inherited
  <2> QED BY <2>3, <2>4, <2>5 DEF Control
<1> QED BY <1>5, <1>6

\* The end of a task: it is told of its result, or nothing is done with that.
LEMMA TokensEnded ==
  ASSUME TypeOK, Tokens, NEW a \in Task, asks[a].stage # "idle", asks[a].session = session,
         \/ Remember(a) /\ asks[a].result = "ok"
         \/ MarkFailed
         \/ UNCHANGED <<cache, overtaken>>,
         asks' = [asks EXCEPT ![a] = Idle], \A b \in Actor : Heirs(E', E, b),
         UNCHANGED <<session, credit, accepted>>
  PROVE  Tokens' /\ Inherited
<1>1. a \in Actor /\ asks'[a] = Idle /\ \A b \in Actor \ {a} : asks'[b] = asks[b]
  BY AskNumbers, ActorsAre
<1>2. \A b \in Actor : Inherits(b)
  BY <1>1, SameInherits, IdleInherits
<1>3. StartsNone
  BY <1>1, ActorsAre DEF StartsNone, R
<1>4. CASE Remember(a) /\ asks[a].result = "ok"
  BY <1>1, <1>2, <1>3, <1>4, TokensRemembered DEF Inherited
<1>5. CASE MarkFailed \/ UNCHANGED <<cache, overtaken>>
  <2>1. pin' # NoPin => UNCHANGED <<pin, pinSession, overtaken>>
    BY <1>5 DEF MarkFailed, ForgetPin, cache
  <2> QED BY <1>2, <1>3, <2>1, TokensKept DEF Inherited
<1> QED BY <1>4, <1>5

LEMMA StepCallerWakes ==
  ASSUME Inv, Rest, posts # <<>>, NEW m, NEW ps, m = Head(posts), ps = Tail(posts), CallerWakes(m, ps)
  PROVE  asks["caller"].stage # "idle" /\ Control' /\ Tokens' /\ Inherited
<1>1. /\ TypeOK /\ Control /\ Tokens
      /\ m \in Posts /\ ps \in Seq(Posts) /\ Ordered(ps) /\ E = Elems(ps) \cup {m}
      /\ m \in Single => m \notin Elems(ps)
      /\ Staged(R, E, session) /\ Waking(asks["caller"], "caller", E)
  BY Popped
<1>2. m = Wake("task", "caller") /\ m \notin Elems(ps) /\ asks["caller"].stage = "waking"
      /\ m.k = "task" /\ m \notin Wakes /\ m # Closed /\ m # Event("lost")
  <2>1. m = Wake("task", "caller")
    BY <1>1, PostParts DEF CallerWakes
  <2>2. m.k = "task"
    BY DEF CallerWakes
  <2> QED BY <1>1, <2>1, <2>2, WakesDiffer DEF Single, Waking, Event, Post, Closed, Wake
<1>3. /\ UNCHANGED <<session, link, epoch, asked, credit, accepted>>
      /\ posts' = ps /\ E' = Elems(ps) /\ asks' = [asks EXCEPT !["caller"] = Idle]
  BY DEF CallerWakes, Rest, bounds, E
<1>4. "caller" \in Task /\ asks'["caller"] = Idle /\ \A b \in Actor \ {"caller"} : asks'[b] = asks[b]
  BY <1>1, <1>3, AskNumbers, ActorsAre
<1>5. Scheduled(asks', posts', session')
  <2>1. Waking(asks'["caller"], "caller", E')
    BY <1>2, <1>3, <1>4, ActorsAre DEF Waking
  <2>2. Accounted(E', E, R)
    BY <1>1, <1>3 DEF Accounted
  <2>3. \A x \in Wakes : Same(E', E, x)
    BY <1>1, <1>2, <1>3 DEF Same
  <2>4. posts' \in Seq(Posts) /\ Ordered(posts') /\ asks'["reauth"] = asks["reauth"]
    BY <1>1, <1>3, <1>4, ActorsAre
  <2> QED BY <1>1, <1>3, <2>1, <2>2, <2>3, <2>4, ScheduledQuiet DEF Control
<1>6. Failing' /\ OfSession' /\ Numbered' /\ Closing' /\ Lasting'
  <2>1. \A b \in Actor : Follows(asks'[b], asks[b])
    BY <1>4 DEF Follows
  <2>2. AnswersKept
    BY <1>1, <1>3 DEF AnswersKept
  <2>3. \A n \in E : n.k = "result" => n \in E'
    BY <1>1, <1>2, <1>3
  <2>4. (Event("lost") \in E => Event("lost") \in E') /\ (Closed \in E' => Closed \in E)
    BY <1>1, <1>2, <1>3
  <2> QED BY <1>1, <1>3, <2>1, <2>2, <2>3, <2>4, ControlFollows
<1>7. Tokens' /\ Inherited
  <2>1. \A b \in Actor : Heirs(E', E, b)
    BY <1>1, <1>3 DEF Heirs
  <2>2. asks["caller"].stage # "idle" /\ asks["caller"].session = session
    BY <1>1, <1>2, <1>4 DEF Control, OfSession
  <2>3. (Remember("caller") /\ asks["caller"].result = "ok") \/ MarkFailed \/ UNCHANGED <<cache, overtaken>>
    BY DEF CallerWakes
  <2> QED BY <1>1, <1>3, <1>4, <2>1, <2>2, <2>3, TokensEnded
<1> QED BY <1>2, <1>5, <1>6, <1>7 DEF Control

LEMMA StepReauthWakes ==
  ASSUME Inv, Rest, posts # <<>>, NEW m, NEW ps, m = Head(posts), ps = Tail(posts), ReauthWakes(m, ps)
  PROVE  Control' /\ Tokens' /\ Inherited
<1>1. /\ TypeOK /\ Control /\ Tokens
      /\ m \in Posts /\ ps \in Seq(Posts) /\ Ordered(ps) /\ E = Elems(ps) \cup {m}
      /\ m = Outer => Inner \notin E
      /\ Staged(R, E, session) /\ Waking(asks["caller"], "caller", E)
  BY Popped
<1>2. m = Outer /\ Inner \notin E /\ m.k = "outer" /\ m # Closed /\ m # Event("lost")
  <2>1. m = Outer
    BY <1>1, PostParts DEF ReauthWakes, Outer
  <2>2. m.k = "outer"
    BY DEF ReauthWakes
  <2> QED BY <1>1, <2>1, <2>2 DEF Event, Post, Closed, Wake
<1>3. /\ UNCHANGED <<session, link, epoch, asked, credit, accepted>>
      /\ posts' = ps /\ E' = Elems(ps) /\ asks' = [asks EXCEPT !["reauth"] = Idle]
  BY DEF ReauthWakes, Rest, bounds, E
<1>4. "reauth" \in Task /\ asks'["reauth"] = Idle /\ \A b \in Actor \ {"reauth"} : asks'[b] = asks[b]
  BY <1>1, <1>3, AskNumbers, ActorsAre
<1>5. Scheduled(asks', posts', session')
  <2>1. PICK d \in SUBSET Posts : d = E'
    BY <1>1, <1>3, ElemsTyped
  <2>2. Same(d, E, Inner) /\ Same(d, E, Start) /\ Same(d, E, Connected) /\ Same(d, E, Wake("task", "caller"))
    BY <1>1, <1>2, <1>3, <2>1, WakesDiffer DEF Same, Wakes
  <2>3. R \in Asks /\ E \in SUBSET Posts /\ session \in Nat /\ Outer \in E
    BY <1>1, <1>2, AskNumbers, ActorsAre DEF R
  <2>4. Staged(Idle, d, session)
    BY <1>1, <1>2, <2>2, <2>3, StagedOuter
  <2>5. Waking(asks'["caller"], "caller", E')
    BY <1>1, <1>4, <2>1, <2>2, ActorsAre DEF Waking, Same
  <2>6. Staged(asks'["reauth"], E', session') /\ Ordered(posts')
    BY <1>1, <1>3, <1>4, <2>1, <2>4
  <2> QED BY <2>5, <2>6 DEF Scheduled, E
<1>6. Failing' /\ OfSession' /\ Numbered' /\ Closing' /\ Lasting'
  <2>1. \A b \in Actor : Follows(asks'[b], asks[b])
    BY <1>4 DEF Follows
  <2>2. AnswersKept
    BY <1>1, <1>3 DEF AnswersKept
  <2>3. \A n \in E : n.k = "result" => n \in E'
    BY <1>1, <1>2, <1>3
  <2>4. (Event("lost") \in E => Event("lost") \in E') /\ (Closed \in E' => Closed \in E)
    BY <1>1, <1>2, <1>3
  <2> QED BY <1>1, <1>3, <2>1, <2>2, <2>3, <2>4, ControlFollows
<1>7. Tokens' /\ Inherited
  <2>1. \A b \in Actor : Heirs(E', E, b)
    BY <1>1, <1>3 DEF Heirs
  <2>2. CASE R.stage = "done"
    <3>1. asks["reauth"].stage # "idle" /\ asks["reauth"].session = session
      BY <1>1, <1>4, <2>2 DEF Control, OfSession, R
    <3>2. (Remember("reauth") /\ asks["reauth"].result = "ok") \/ MarkFailed \/ UNCHANGED <<cache, overtaken>>
      BY DEF ReauthWakes, ReauthEnds
    <3> QED BY <1>1, <1>3, <1>4, <2>1, <3>1, <3>2, TokensEnded
  <2>3. CASE R.stage # "done"
    <3>1. \A b \in Actor : Inherits(b)
      BY <1>4, <2>1, SameInherits, IdleInherits
    <3>2. StartsNone
      BY <1>4, ActorsAre DEF StartsNone, R
    <3>3. UNCHANGED <<pin, pinSession, overtaken>>
      BY <2>3 DEF ReauthWakes, ReauthEnds, cache, R
    <3> QED BY <1>1, <1>3, <3>1, <3>2, <3>3, TokensKept DEF Inherited
  <2> QED BY <2>2, <2>3
<1> QED BY <1>5, <1>6, <1>7 DEF Control

LEMMA StepInnerWakes ==
  ASSUME Inv, Rest, posts # <<>>, NEW m, NEW ps, m = Head(posts), ps = Tail(posts), InnerWakes(m, ps)
  PROVE  asks["reauth"].stage # "idle" /\ Control' /\ Tokens' /\ Inherited
<1>1. /\ TypeOK /\ Control /\ Tokens
      /\ m \in Posts /\ ps \in Seq(Posts) /\ Ordered(ps) /\ E = Elems(ps) \cup {m}
      /\ m \in Single => m \notin Elems(ps)
      /\ Staged(R, E, session) /\ Waking(asks["caller"], "caller", E)
  BY Popped
<1>2. m = Inner /\ m \notin Elems(ps) /\ R.stage = "waking"
      /\ m.k = "task" /\ m # Closed /\ m # Event("lost")
  <2>1. m = Inner
    BY <1>1, PostParts DEF InnerWakes, Inner
  <2>2. m.k = "task"
    BY DEF InnerWakes
  <2> QED BY <1>1, <2>1, <2>2 DEF Single, Staged, Waking, Event, Post, Closed, Wake, Inner
<1>3. UNCHANGED <<session, link, epoch, asked, credit, accepted, pin, pinSession, overtaken>>
  BY DEF InnerWakes, Rest, bounds, cache, history
<1>4. "reauth" \in Actor /\ R \in Asks /\ asks \in [Actor -> Asks] /\ E \in SUBSET Posts /\ session \in Nat
  BY <1>1, AskNumbers, ActorsAre DEF R
<1>5. asks' = [asks EXCEPT !["reauth"] = Goes(R, "done", R.result)]
  BY <1>4 DEF InnerWakes, Goes, Asks, R
<1>6. /\ \A b \in Actor \ {"reauth"} : asks'[b] = asks[b]
      /\ asks'["reauth"] = Goes(R, "done", R.result)
  BY <1>4, <1>5
<1>7. /\ R'.stage = "done" /\ R'.result = R.result /\ R'.pin = R.pin /\ R'.session = R.session
      /\ R'.seq = R.seq /\ R'.epoch = R.epoch /\ R'.cancelled = R.cancelled
  BY <1>4, <1>6 DEF Goes, Asks, R
<1>8. Outer \in Posts /\ Outer \notin Single /\ Outer # Inner /\ Outer.k = "outer"
  <2>1. Outer.k = "outer"
    BY DEF Outer, Wake, Post
  <2> QED BY <2>1, PostsAre, WakesDiffer DEF Outer, Single, Wakes
<1>9. /\ posts' \in Seq(Posts) /\ Ordered(posts') /\ Outer \in E'
      /\ Elems(ps) \subseteq E' /\ E' \subseteq Elems(ps) \cup {Outer}
  <2>1. CASE R.cancelled
    <3>1. posts' = ps
      BY <2>1 DEF InnerWakes, R
    <3>2. Outer \in E
      BY <1>1, <1>2, <2>1 DEF Staged, Ending
    <3>3. Outer \in Elems(ps)
      BY <1>1, <1>2, <1>8, <3>2
    <3> QED BY <1>1, <3>1, <3>3 DEF E
  <2>2. CASE ~R.cancelled
    <3>1. posts' = Append(ps, Outer)
      BY <2>2 DEF InnerWakes, R, Outer
    <3>2. /\ Ordered(Append(ps, Outer)) /\ Append(ps, Outer) \in Seq(Posts)
          /\ Elems(Append(ps, Outer)) = Elems(ps) \cup {Outer}
      BY <1>1, <1>8, OrderedAppend
    <3> QED BY <3>1, <3>2 DEF E
  <2> QED BY <2>1, <2>2
<1>10. \A b : \A n \in E' : Answer(n, b) => n \in E
  BY <1>1, <1>8, <1>9 DEF Answer
<1>11. Scheduled(asks', posts', session')
  <2>1. PICK d \in SUBSET Posts : d = E'
    BY <1>9, ElemsTyped DEF E
  <2>2. Inner \notin d /\ Outer \in d /\ Same(d, E, Start) /\ Same(d, E, Connected)
        /\ Same(d, E, Wake("task", "caller"))
    BY <1>1, <1>2, <1>8, <1>9, <2>1, WakesDiffer DEF Same, Wakes
  <2>3. Staged(Goes(R, "done", R.result), d, session)
    BY <1>1, <1>2, <1>4, <2>2, StagedInner
  <2>4. Waking(asks'["caller"], "caller", E')
    BY <1>1, <1>6, <2>1, <2>2, ActorsAre DEF Waking, Same
  <2>5. Staged(asks'["reauth"], E', session')
    BY <1>3, <1>6, <2>1, <2>3
  <2> QED BY <1>9, <2>4, <2>5 DEF Scheduled, E
<1>12. Failing' /\ OfSession' /\ Numbered' /\ Closing' /\ Lasting'
  <2>1. \A b \in Actor : Follows(asks'[b], asks[b])
    BY <1>2, <1>6, <1>7 DEF Follows, R
  <2>2. AnswersKept
    BY <1>10 DEF AnswersKept
  <2>3. \A n \in E : n.k = "result" => n \in E'
    BY <1>1, <1>2, <1>9
  <2>4. (Event("lost") \in E => Event("lost") \in E') /\ (Closed \in E' => Closed \in E)
    BY <1>1, <1>2, <1>9, WakesDiffer DEF Wakes
  <2> QED BY <1>1, <1>3, <2>1, <2>2, <2>3, <2>4, ControlFollows
<1>13. Tokens' /\ Inherited
  <2>1. \A b \in Actor : Heirs(E', E, b)
    BY <1>10 DEF Heirs
  <2>2. \A b \in Actor : Weaker(asks'[b], asks[b])
    BY <1>6, <1>7 DEF Weaker, R
  <2>3. \A b \in Actor : Inherits(b)
    BY <2>1, <2>2, WeakerInherits
  <2>4. StartsNone
    BY <1>7 DEF StartsNone
  <2> QED BY <1>1, <1>3, <2>3, <2>4, TokensKept DEF Inherited
<1> QED BY <1>2, <1>11, <1>12, <1>13 DEF Control, R

LEMMA StepReauthStarts ==
  ASSUME Inv, Rest, posts # <<>>, NEW m, NEW ps, m = Head(posts), ps = Tail(posts), ReauthStarts(m, ps)
  PROVE  asks["reauth"].stage # "idle" /\ Control' /\ Tokens' /\ Inherited
<1>1. /\ TypeOK /\ Control /\ Tokens
      /\ m \in Posts /\ ps \in Seq(Posts) /\ Ordered(ps) /\ E = Elems(ps) \cup {m}
      /\ m \in Single => m \notin Elems(ps)
      /\ Staged(R, E, session) /\ Waking(asks["caller"], "caller", E)
  BY Popped
<1>2. /\ m = Start /\ m \notin Elems(ps) /\ R.stage = "started" /\ R.result = "none"
      /\ m.k = "start" /\ m # Closed /\ m # Event("lost")
      /\ \A n \in E : Answer(n, "reauth") => n.seq < R.seq
  <2>1. m = Start
    BY <1>1, PostParts DEF ReauthStarts, Start
  <2>2. m.k = "start"
    BY DEF ReauthStarts
  <2> QED BY <1>1, <2>1, <2>2 DEF Single, Staged, Started, Event, Post, Closed, Wake
<1>3. UNCHANGED <<session, link, epoch, asked, accepted>> /\ posts' = ps /\ E' = Elems(ps)
  BY DEF ReauthStarts, Rest, bounds, history, E
<1>4. "reauth" \in Actor /\ R \in Asks /\ asks \in [Actor -> Asks] /\ E \in SUBSET Posts /\ session \in Nat
  BY <1>1, AskNumbers, ActorsAre DEF R
<1>5. PICK d \in SUBSET Posts : d = E'
  BY <1>1, <1>3, ElemsTyped
<1>6. /\ Start \in E /\ Start \notin d /\ Same(d, E, Inner) /\ Same(d, E, Outer) /\ Same(d, E, Connected)
      /\ Same(d, E, Wake("task", "caller"))
  BY <1>1, <1>2, <1>3, <1>5, WakesDiffer DEF Same, Wakes
<1>7. Staged(Idle, d, session) /\ (~R.cancelled => Staged(Goes(R, "asked", R.result), d, session))
  BY <1>1, <1>4, <1>6, StagedStart
<1>8. \A b : \A n \in E' : Answer(n, b) => n \in E
  BY <1>1, <1>3
<1>9. \A b \in Actor : Heirs(E', E, b)
  BY <1>8 DEF Heirs
<1>10. AnswersKept
  BY <1>8 DEF AnswersKept
<1>11. /\ \A n \in E : n.k = "result" => n \in E'
       /\ (Event("lost") \in E => Event("lost") \in E') /\ (Closed \in E' => Closed \in E)
  BY <1>1, <1>2, <1>3
<1>12. CASE asks' = [asks EXCEPT !["reauth"] = Idle] /\ credit' = credit
            /\ (MarkFailed \/ UNCHANGED <<cache, overtaken>>)
  <2>1. asks'["reauth"] = Idle /\ \A b \in Actor \ {"reauth"} : asks'[b] = asks[b]
    BY <1>4, <1>12
  <2>2. Scheduled(asks', posts', session')
    <3>1. Waking(asks'["caller"], "caller", E')
      BY <1>1, <1>5, <1>6, <2>1, ActorsAre DEF Waking, Same
    <3>2. Staged(asks'["reauth"], E', session')
      BY <1>3, <1>5, <1>7, <2>1
    <3> QED BY <1>1, <1>3, <3>1, <3>2 DEF Scheduled, E
  <2>3. Failing' /\ OfSession' /\ Numbered' /\ Closing' /\ Lasting'
    <3>1. \A b \in Actor : Follows(asks'[b], asks[b])
      BY <2>1 DEF Follows
    <3> QED BY <1>1, <1>3, <1>10, <1>11, <3>1, ControlFollows
  <2>4. Tokens' /\ Inherited
    <3>1. "reauth" \in Task /\ asks["reauth"].stage # "idle" /\ asks["reauth"].session = session
      BY <1>1, <1>2, ActorsAre DEF Control, OfSession, R
    <3> QED BY <1>1, <1>3, <1>9, <1>12, <3>1, TokensEnded
  <2> QED BY <1>2, <2>2, <2>3, <2>4 DEF Control, R
<1>13. CASE /\ link \in {"up", "dead"} /\ ~R.cancelled
            /\ asks' = [asks EXCEPT !["reauth"].stage = "asked"]
            /\ credit' = [credit EXCEPT ![R.pin] = @ - 1]
            /\ UNCHANGED <<cache, overtaken>>
  <2>1. /\ \A b \in Actor \ {"reauth"} : asks'[b] = asks[b]
        /\ asks'["reauth"] = Goes(R, "asked", R.result)
    BY <1>4, <1>13 DEF Goes, Asks, R
  <2>2. /\ R'.stage = "asked" /\ R'.result = "none" /\ R'.pin = R.pin /\ R'.session = R.session
        /\ R'.seq = R.seq /\ R'.epoch = R.epoch /\ R'.cancelled = R.cancelled
    BY <1>2, <1>4, <2>1 DEF Goes, Asks, R
  <2>3. Scheduled(asks', posts', session')
    <3>1. Waking(asks'["caller"], "caller", E')
      BY <1>1, <1>5, <1>6, <2>1, ActorsAre DEF Waking, Same
    <3>2. Staged(asks'["reauth"], E', session')
      BY <1>3, <1>5, <1>7, <1>13, <2>1
    <3> QED BY <1>1, <1>3, <3>1, <3>2 DEF Scheduled, E
  <2>4. Failing'
    BY <1>3, <1>13 DEF Failing
  <2>5. OfSession'
    <3>1. \A a \in Task : asks'[a] = asks[a] \/ (asks[a].stage # "idle" /\ asks'[a].session = asks[a].session)
      BY <1>2, <2>1, <2>2, ActorsAre DEF R
    <3> QED BY <1>1, <1>3, <3>1, OfSessionKept DEF Control
  <2>6. Numbered'
    <3>1. \A a \in Actor : asks'[a].seq = asks[a].seq
      BY <2>1, <2>2 DEF R
    <3>2. asked' \in Nat /\ asked <= asked'
      BY <1>1, <1>3, AskNumbers
    <3> QED BY <1>1, <1>3, <1>10, <3>1, <3>2, NumberedKept DEF Control, AnswersKept
  <2>7. Closing'
    BY <1>1, <1>3, <1>11 DEF Control, Closing
  <2>8. Lasting'
    BY <1>1, <1>3, <1>13, <2>2, LastingKept DEF Control
  <2>9. \A b \in Actor : Inherits(b)
    <3>1. \A n \in E' : Answer(n, "reauth") => n.seq # asks'["reauth"].seq
      <4>1. \A n \in E : n.seq \in Nat
        BY <1>1, AskNumbers
      <4>2. R.seq \in Nat /\ asks'["reauth"].seq = R.seq
        BY <1>4, <2>2 DEF Asks, R
      <4> QED BY <1>2, <1>8, <4>1, <4>2
    <3>2. Inherits("reauth")
      BY <1>4, <2>2, <3>1, NewInherits DEF R
    <3> QED BY <1>9, <2>1, <3>2, SameInherits
  <2>10. Covered'
    <3> SUFFICES ASSUME NEW p \in Pins
                 PROVE  Held(p)' <= credit'[p]
      BY DEF Covered
    <3>1. Cached(p)' = Cached(p)
      BY <1>13 DEF Cached, cache
    <3>2. Starting(p)' = 0
      BY <2>2 DEF Starting, One
    <3>3. /\ Grant("caller", p)' <= Grant("caller", p)
          /\ Grant("thread", p)' <= Grant("thread", p)
          /\ Grant("reauth", p)' <= Grant("reauth", p)
      BY <2>9, GrantKept, ActorsAre
    <3>4. Held(p) <= credit[p] /\ credit[p] \in Int /\ credit'[p] \in Int
      BY <1>1, <1>13 DEF Tokens, Covered, TypeOK, HistoryTyped
    <3>5. credit[p] <= credit'[p] + Starting(p)
      <4>1. CASE R.pin = p
        <5>1. credit'[p] = credit[p] - 1
          BY <1>1, <1>13, <4>1 DEF TypeOK, HistoryTyped
        <5>2. Starting(p) = 1
          BY <1>2, <4>1 DEF Starting, One
        <5> QED BY <3>4, <5>1, <5>2
      <4>2. CASE R.pin # p
        <5>1. credit'[p] = credit[p]
          BY <1>1, <1>13, <4>2 DEF TypeOK, HistoryTyped
        <5> QED BY <3>4, <5>1, PartsAre
      <4> QED BY <4>1, <4>2
    <3> QED BY <3>1, <3>2, <3>3, <3>4, <3>5, PartsAre DEF Held
  <2>11. GrantedIsAccepted' /\ CachedIsAccepted'
    BY <1>1, <1>3, <1>13, <2>9 DEF Tokens, GrantedIsAccepted, CachedIsAccepted, Inherits, cache
  <2> QED BY <1>2, <2>3, <2>4, <2>5, <2>6, <2>7, <2>8, <2>9, <2>10, <2>11 DEF Control, Tokens, R, Inherited
<1> QED BY <1>12, <1>13 DEF ReauthStarts, history, R

LEMMA StepOnDisconnected ==
  ASSUME Inv, Rest, posts # <<>>, NEW m, NEW ps, m = Head(posts), ps = Tail(posts), OnDisconnected(m, ps)
  PROVE  Control' /\ Tokens' /\ Inherited
<1>1. /\ TypeOK /\ Control /\ Tokens
      /\ m \in Posts /\ ps \in Seq(Posts) /\ Ordered(ps) /\ E = Elems(ps) \cup {m}
      /\ Staged(R, E, session) /\ Waking(asks["caller"], "caller", E)
  BY Popped
<1>2. m.k = "disconnected" /\ m # Event("lost") /\ \A x \in Wakes \cup {Wake("task", "caller"), Closed} : x # m
  <2>1. m.k = "disconnected"
    BY DEF OnDisconnected
  <2> QED BY <2>1, WakesDiffer DEF Event, Post
<1>3. UNCHANGED <<session, epoch, asked, credit, accepted, pin, pinSession, overtaken>>
  BY DEF OnDisconnected, Rest, bounds, cache, history
<1> DEFINE z == Event("lost")
<1>4. z \in Posts /\ z.k = "event" /\ z.what = "lost" /\ z \notin Single /\ z \notin Wakes /\ z # Inner
  <2>1. z.k = "event" /\ z.what = "lost"
    BY DEF Event, Post
  <2>2. z \in Posts
    BY PostsAre
  <2> QED BY <2>1, <2>2, WakesDiffer DEF Single, Wakes
<1>5. /\ Fit(Aborted) /\ \A a \in Task : Aborted[a] = asks[a]
      /\ Aborted["thread"] = asks["thread"]
           \/ (Waits("thread") /\ Aborted["thread"] = Goes(asks["thread"], "unheard", asks["thread"].result))
  BY <1>1, AbortedTyped DEF TypeOK
<1>6. /\ posts' \in Seq(Posts) /\ Ordered(posts') /\ Elems(ps) \subseteq E'
      /\ E' \subseteq Elems(ps) \cup Elems(Failures) \cup {z}
      /\ link = "dead" => link' = "lost" /\ Elems(Failures) \subseteq E' /\ z \in E' /\ asks' = Aborted
      /\ link # "dead" => link' = link /\ asks' = asks
  <2>1. CASE link = "dead"
    <3>1. /\ ps \o Failures \in Seq(Posts) /\ Ordered(ps \o Failures)
          /\ Elems(ps \o Failures) = Elems(ps) \cup Elems(Failures)
      BY <1>1, FailuresAre, OrderedConcat
    <3>2. /\ Ordered(Append(ps \o Failures, z)) /\ Append(ps \o Failures, z) \in Seq(Posts)
          /\ Elems(Append(ps \o Failures, z)) = Elems(ps) \cup Elems(Failures) \cup {z}
      BY <1>4, <3>1, OrderedAppend
    <3>3. (ps \o Failures) \o <<z>> = Append(ps \o Failures, z)
      BY <1>4, <3>1
    <3>4. posts' = Append(ps \o Failures, z)
      BY <2>1, <3>3 DEF OnDisconnected
    <3>5. link' = "lost" /\ asks' = Aborted
      BY <2>1 DEF OnDisconnected
    <3> QED BY <2>1, <3>2, <3>4, <3>5 DEF E
  <2>2. CASE link # "dead"
    BY <1>1, <2>2 DEF OnDisconnected, E
  <2> QED BY <2>1, <2>2
<1> HIDE DEF z
<1>7. \A n \in E' : n \in Elems(ps) \/ n = z
                    \/ (n.k = "result" /\ n.to \in Task /\ Waits(n.to) /\ n.seq = asks[n.to].seq /\ n.what = "failed")
  BY <1>1, <1>6, FailuresAre
<1>8. \A x \in Wakes \cup {Wake("task", "caller"), Closed} : Same(E', E, x)
  BY <1>1, <1>2, <1>4, <1>6, <1>7, WakesDiffer DEF Same
<1>9. \A a \in Actor : \A n \in E' : Answer(n, a) =>
            \/ \E o \in E : Answer(o, a) /\ o.seq = n.seq /\ o.what = n.what
            \/ Waits(a) /\ n.seq = asks[a].seq /\ n.what = "failed"
  BY <1>1, <1>4, <1>7 DEF Answer
<1>10. /\ asks'["reauth"] = asks["reauth"] /\ asks'["caller"] = asks["caller"]
       /\ \/ asks'["thread"] = asks["thread"]
          \/ (Waits("thread") /\ asks'["thread"] = Goes(asks["thread"], "unheard", asks["thread"].result))
  BY <1>5, <1>6, ActorsAre
<1>11. /\ asks'["thread"].seq = asks["thread"].seq /\ asks'["thread"].pin = asks["thread"].pin
       /\ asks'["thread"].session = asks["thread"].session /\ asks'["thread"].result = asks["thread"].result
       /\ asks'["thread"].epoch = asks["thread"].epoch
       /\ Waits("thread")' => Waits("thread")
  <2>1. asks["thread"] \in Asks
    BY <1>1, AskNumbers, ActorsAre
  <2> QED BY <1>10, <2>1 DEF Goes, Asks, Waits
<1>12. Scheduled(asks', posts', session')
  <2>1. Accounted(E', E, R)
    BY <1>9, ActorsAre DEF Accounted, Waits, R
  <2>2. Waking(asks'["caller"], "caller", E')
    BY <1>1, <1>8, <1>10 DEF Waking, Same
  <2> QED BY <1>1, <1>3, <1>6, <1>8, <1>10, <2>1, <2>2, ScheduledQuiet DEF Control
<1>13. Failing'
  <2>1. CASE link = "dead"
    BY <1>1, <1>6, <1>10, <2>1, ActorsAre, FailingPosted DEF Waits
  <2>2. CASE link # "dead"
    <3>1. \A n \in E : n.k = "result" => n \in E'
      BY <1>1, <1>2, <1>6
    <3> QED BY <1>1, <1>6, <2>2, <3>1, FailingKept DEF Control, Waits
  <2> QED BY <2>1, <2>2
<1>14. OfSession'
  <2>1. \A a \in Task : asks'[a] = asks[a]
    BY <1>10, ActorsAre
  <2> QED BY <1>1, <1>3, <2>1, OfSessionKept DEF Control
<1>15. Numbered'
  <2>1. \A a \in Actor : asks'[a].seq = asks[a].seq
    BY <1>10, <1>11, ActorsAre
  <2>2. asked' \in Nat /\ asked <= asked'
    BY <1>1, <1>3, AskNumbers
  <2>3. \A a \in Actor : \A n \in E' : Answer(n, a) =>
           (\E o \in E : Answer(o, a) /\ o.seq = n.seq) \/ n.seq = asks[a].seq
    BY <1>9
  <2> QED BY <1>1, <1>3, <2>1, <2>2, <2>3, NumberedKept DEF Control
<1>16. Closing'
  <2>1. Closed \in E' => Closed \in E
    BY <1>8 DEF Same
  <2> QED BY <1>1, <1>6, <2>1 DEF Control, Closing
<1>17. Lasting'
  <2>1. Lasts => Lasts'
    BY <1>1, <1>2, <1>6 DEF Lasts, E, z
  <2> QED BY <1>1, <1>3, <1>10, <2>1, LastingKept DEF Control, R
<1>18. Tokens' /\ Inherited
  <2>1. \A a \in Actor : Heirs(E', E, a)
    BY <1>9 DEF Heirs
  <2>2. \A a \in Actor : Weaker(asks'[a], asks[a])
    BY <1>10, <1>11, ActorsAre DEF Weaker, Waits
  <2>3. \A a \in Actor : Inherits(a)
    BY <2>1, <2>2, WeakerInherits
  <2> QED BY <1>1, <1>3, <1>10, <2>3, TokensKept DEF StartsNone, R, Inherited
<1> QED BY <1>12, <1>13, <1>14, <1>15, <1>16, <1>17, <1>18 DEF Control

LEMMA StepOnClosed ==
  ASSUME Inv, Rest, posts # <<>>, NEW m, NEW ps, m = Head(posts), ps = Tail(posts), OnClosed(m, ps)
  PROVE  Control' /\ Tokens' /\ Inherited
<1>1. /\ TypeOK /\ Control /\ Tokens
      /\ m \in Posts /\ ps \in Seq(Posts) /\ Ordered(ps) /\ E = Elems(ps) \cup {m}
      /\ m \in Single => m \notin Elems(ps)
      /\ Staged(R, E, session) /\ Waking(asks["caller"], "caller", E)
  BY Popped
<1>2. m = Closed /\ m \notin Elems(ps) /\ m.k = "closed" /\ link = "closing"
  <2>1. m = Closed
    BY <1>1, PostParts DEF OnClosed, Closed
  <2>2. m.k = "closed"
    BY DEF OnClosed
  <2> QED BY <1>1, <2>1, <2>2 DEF Single, Control, Closing
<1>3. /\ UNCHANGED <<session, epoch, asked, credit, accepted, pin, pinSession, overtaken, asks>>
      /\ asks' = asks /\ link' = "none"
  BY DEF OnClosed, Rest, bounds, cache, history
<1> DEFINE z == Event("closed")
<1>4. z \in Posts /\ z.k = "event" /\ z.what = "closed" /\ z \notin Single /\ z \notin Wakes /\ z # Inner
      /\ z # Closed
  <2>1. z.k = "event" /\ z.what = "closed"
    BY DEF Event, Post
  <2>2. z \in Posts
    BY PostsAre
  <2> QED BY <2>1, <2>2, WakesDiffer DEF Single, Wakes
<1>5. posts' = Append(ps, z)
  BY DEF OnClosed
<1> HIDE DEF z
<1>6. posts' \in Seq(Posts) /\ Ordered(posts') /\ E' = Elems(ps) \cup {z}
  BY <1>1, <1>4, <1>5, OrderedAppend DEF E
<1>7. (\A x \in Wakes \cup {Wake("task", "caller")} : Same(E', E, x)) /\ Closed \notin E'
  BY <1>1, <1>2, <1>4, <1>6, WakesDiffer DEF Same, Single
<1>8. \A a : \A n \in E' : Answer(n, a) => n \in E
  BY <1>1, <1>4, <1>6 DEF Answer
<1>9. Scheduled(asks', posts', session')
  <2>1. Accounted(E', E, R)
    BY <1>8 DEF Accounted
  <2>2. Waking(asks'["caller"], "caller", E')
    BY <1>1, <1>3, <1>7 DEF Waking, Same
  <2> QED BY <1>1, <1>3, <1>6, <1>7, <2>1, <2>2, ScheduledQuiet DEF Control
<1>10. Failing'
  <2>1. \A n \in E : n.k = "result" => n \in E'
    BY <1>1, <1>2, <1>6
  <2> QED BY <1>1, <1>2, <1>3, <2>1, FailingKept DEF Control, Waits
<1>11. OfSession'
  BY <1>1, <1>3 DEF Control, OfSession
<1>12. Numbered'
  <2>1. asked' \in Nat /\ asked <= asked'
    BY <1>1, <1>3, AskNumbers
  <2> QED BY <1>1, <1>3, <1>8, <2>1, NumberedKept DEF Control
<1>13. Closing' /\ Lasting'
  <2>1. ~Lasts
    BY <1>2 DEF Lasts
  <2>2. Lasting'
    BY <1>1, <1>3, <2>1, LastingKept DEF Control, R
  <2> QED BY <1>7, <2>2 DEF Closing
<1>14. Tokens' /\ Inherited
  <2>1. \A a \in Actor : Heirs(E', E, a)
    BY <1>8 DEF Heirs
  <2>2. \A a \in Actor : Inherits(a)
    BY <1>3, <2>1, SameInherits
  <2> QED BY <1>1, <1>3, <2>2, TokensKept DEF StartsNone, R, Inherited
<1> QED BY <1>9, <1>10, <1>11, <1>12, <1>13, <1>14 DEF Control

LEMMA StepHandleDisconnected ==
  ASSUME Inv, Rest, posts # <<>>, NEW m, NEW ps, m = Head(posts), ps = Tail(posts),
         HandleDisconnected(m, ps)
  PROVE  Control' /\ Tokens' /\ Inherited
<1>1. /\ TypeOK /\ Control /\ Tokens
      /\ m \in Posts /\ ps \in Seq(Posts) /\ Ordered(ps) /\ E = Elems(ps) \cup {m}
  BY Popped
<1>2. m.k = "event" /\ m.what \in {"lost", "closed"} /\ m # Closed
      /\ \A x \in Wakes \cup {Wake("task", "caller")} : x # m
  <2>1. m.k = "event" /\ m.what \in {"lost", "closed"}
    BY DEF HandleDisconnected
  <2>2. Closed.k = "closed"
    BY DEF Closed, Wake, Post
  <2> QED BY <2>1, <2>2, WakesDiffer
<1>3. UNCHANGED <<session, link, asked, credit, accepted, overtaken>> /\ CancelReauth(asks, ps)
      /\ (pin' = NoPin \/ UNCHANGED <<pin, pinSession>>)
  BY DEF HandleDisconnected, Rest, bounds, ForgetPin
<1>4. Fit(asks)
  BY <1>1, FitIsTyped DEF TypeOK
<1>5. \A x \in Wakes \cup {Wake("task", "caller")} : Same(Elems(ps), E, x)
  BY <1>1, <1>2 DEF Same
<1>6. \A a \in Actor : \A n \in Elems(ps) : Answer(n, a) =>
            \/ \E o \in E : Answer(o, a) /\ o.seq = n.seq /\ o.what = n.what
            \/ Waits(a) /\ n.seq = asks[a].seq /\ n.what = "failed"
  BY <1>1
<1>7. UNCHANGED <<session, asked>>
  BY <1>3
<1>8. /\ Scheduled(asks', posts', session') /\ OfSession' /\ Numbered' /\ Lasting'
      /\ \A a \in Actor : Inherits(a)
      /\ StartsNone
      /\ Elems(ps) \subseteq E' /\ E' \subseteq Elems(ps) \cup {Outer}
      /\ \A a \in Task : Waits(a)' => /\ Waits(a) /\ asks'[a].seq = asks[a].seq
                                      /\ asks[a].cancelled => asks'[a].cancelled
  BY <1>1, <1>3, <1>4, <1>5, <1>6, <1>7, Cancelling
<1>9. Failing'
  <2>1. \A n \in E : n.k = "result" => n \in E'
    BY <1>1, <1>2, <1>8
  <2> QED BY <1>1, <1>3, <1>8, <2>1, FailingKept DEF Control
<1>10. Closing'
  <2>1. Closed # Outer
    BY WakesDiffer DEF Wakes
  <2> QED BY <1>1, <1>3, <1>8, <2>1 DEF Control, Closing
<1>11. Tokens' /\ Inherited
  BY <1>1, <1>3, <1>8, TokensKept DEF Inherited
<1> QED BY <1>8, <1>9, <1>10, <1>11 DEF Control

LEMMA StepHandleConnected ==
  ASSUME Inv, Rest, posts # <<>>, NEW m, NEW ps, m = Head(posts), ps = Tail(posts),
         HandleConnected(m, ps)
  PROVE  Control' /\ Tokens' /\ Inherited
<1>1. /\ TypeOK /\ Control /\ Tokens
      /\ m \in Posts /\ ps \in Seq(Posts) /\ Ordered(ps) /\ E = Elems(ps) \cup {m}
      /\ m \in Single => m \notin Elems(ps)
      /\ Staged(R, E, session) /\ Waking(asks["caller"], "caller", E)
  BY Popped
<1>2. m = Connected /\ m \notin Elems(ps) /\ m.k = "event" /\ m # Event("lost") /\ m # Closed
  <2>1. m.k = "event" /\ m.what = "connected"
    BY DEF HandleConnected
  <2>2. m = Connected
    BY <1>1, <2>1, PostParts DEF Connected
  <2> QED BY <1>1, <2>1, <2>2 DEF Single, Event, Post, Closed, Wake
<1>3. UNCHANGED <<session, link, epoch, asked, credit, accepted, overtaken>>
  BY DEF HandleConnected, Rest, bounds
<1>4. /\ R.stage = "idle" /\ Start \notin E
      /\ \A n \in E : Answer(n, "reauth") => n.seq < MaxAsks + session
  BY <1>1, <1>2 DEF Staged, Announced
<1>5. "reauth" \in Actor /\ R \in Asks /\ asks \in [Actor -> Asks] /\ E \in SUBSET Posts /\ session \in Nat
  BY <1>1, AskNumbers, ActorsAre DEF R
<1>6. \/ asks' = asks /\ posts' = ps /\ (pin' = NoPin \/ UNCHANGED <<pin, pinSession>>)
      \/ /\ asks' = [asks EXCEPT !["reauth"] = Resent] /\ posts' = Append(ps, Start)
         /\ pin # NoPin /\ pin' = NoPin
  BY DEF HandleConnected, TakeReauthPin, ForgetPin, Resent, Start
<1>7. CASE asks' = asks /\ posts' = ps /\ (pin' = NoPin \/ UNCHANGED <<pin, pinSession>>)
  <2>1. E' = Elems(ps)
    BY <1>7 DEF E
  <2>2. PICK d \in SUBSET Posts : d = E'
    BY <1>1, <2>1, ElemsTyped
  <2>3. /\ Connected \notin d /\ Connected \in E
        /\ \A x \in {Inner, Outer, Start, Wake("task", "caller")} : Same(d, E, x)
    BY <1>1, <1>2, <2>1, <2>2, WakesDiffer DEF Same, Wakes
  <2>4. Accounted(d, E, R)
    BY <1>1, <2>1, <2>2 DEF Accounted
  <2>5. Scheduled(asks', posts', session')
    <3>1. Same(d, E, Inner) /\ Same(d, E, Outer) /\ Same(d, E, Start)
      BY <2>3
    <3>2. Staged(R, d, session)
      BY <1>1, <1>5, <2>3, <2>4, <3>1, StagedConnected
    <3>3. Waking(asks'["caller"], "caller", E')
      BY <1>1, <1>7, <2>2, <2>3 DEF Waking, Same
    <3>4. Staged(asks'["reauth"], E', session')
      BY <1>3, <1>7, <2>2, <3>2 DEF R
    <3> QED BY <1>1, <1>7, <3>3, <3>4 DEF Scheduled, E
  <2>6. Failing' /\ OfSession' /\ Numbered' /\ Closing' /\ Lasting'
    <3>1. \A b \in Actor : Follows(asks'[b], asks[b])
      BY <1>7 DEF Follows
    <3>2. AnswersKept
      BY <1>1, <2>1 DEF AnswersKept
    <3>3. \A n \in E : n.k = "result" => n \in E'
      BY <1>1, <1>2, <2>1
    <3>4. (Event("lost") \in E => Event("lost") \in E') /\ (Closed \in E' => Closed \in E)
      BY <1>1, <1>2, <2>1
    <3> QED BY <1>1, <1>3, <3>1, <3>2, <3>3, <3>4, ControlFollows
  <2>7. Tokens' /\ Inherited
    <3>1. \A b \in Actor : Heirs(E', E, b)
      BY <1>1, <2>1 DEF Heirs
    <3>2. \A b \in Actor : Inherits(b)
      BY <1>7, <3>1, SameInherits
    <3> QED BY <1>1, <1>3, <1>7, <3>2, TokensKept DEF StartsNone, R, Inherited
  <2> QED BY <2>5, <2>6, <2>7 DEF Control
<1>8. CASE /\ asks' = [asks EXCEPT !["reauth"] = Resent] /\ posts' = Append(ps, Start)
           /\ pin # NoPin /\ pin' = NoPin
  <2>1. /\ pin \in Pins /\ Resent \in Asks
        /\ Resent.stage = "started" /\ Resent.cancelled = FALSE /\ Resent.pin = pin
        /\ Resent.seq = MaxAsks + session /\ Resent.epoch = epoch /\ Resent.session = session
        /\ Resent.result = "none"
    BY <1>1, <1>8, ResentIs DEF TypeOK, CacheTyped
  <2>2. asks'["reauth"] = Resent /\ \A b \in Actor \ {"reauth"} : asks'[b] = asks[b]
    BY <1>5, <1>8
  <2>3. Start \in Posts /\ Start # Inner /\ Start # Closed /\ Start.k = "start" /\ Start # Event("lost")
    <3>1. Start.k = "start"
      BY DEF Start, Wake, Post
    <3> QED BY <3>1, PostsAre, WakesDiffer DEF Start, Wakes, Event, Post
  <2>4. posts' \in Seq(Posts) /\ Ordered(posts') /\ E' = Elems(ps) \cup {Start}
    <3>1. Start \notin Elems(ps)
      BY <1>1, <1>4
    <3> QED BY <1>1, <1>8, <2>3, <3>1, OrderedAppend DEF E
  <2>5. \A b : \A n \in E' : Answer(n, b) => n \in E
    BY <1>1, <2>3, <2>4 DEF Answer
  <2>6. Scheduled(asks', posts', session')
    <3>1. PICK d \in SUBSET Posts : d = E'
      BY <2>4, ElemsTyped DEF E
    <3>2. /\ Connected \notin d /\ Connected \in E /\ Start \in d
          /\ Same(d, E, Inner) /\ Same(d, E, Outer) /\ Same(d, E, Wake("task", "caller"))
      BY <1>1, <1>2, <2>4, <3>1, WakesDiffer DEF Same, Wakes
    <3>3. Accounted(d, E, R)
      BY <2>5, <3>1 DEF Accounted
    <3>4. Staged(Resent, d, session)
      BY <1>1, <1>5, <2>1, <3>2, <3>3, StagedConnected
    <3>5. Waking(asks'["caller"], "caller", E')
      BY <1>1, <2>2, <3>1, <3>2, ActorsAre DEF Waking, Same
    <3>6. Staged(asks'["reauth"], E', session')
      BY <1>3, <2>2, <3>1, <3>4
    <3> QED BY <2>4, <3>5, <3>6 DEF Scheduled, E
  <2>7. Failing'
    <3>1. ASSUME NEW a \in Task, Waits(a)', link' \notin {"up", "dead"}
          PROVE  asks'[a] = asks[a]
      BY <2>1, <2>2, <3>1, ActorsAre DEF Waits
    <3>2. \A n \in E : n.k = "result" => n \in E'
      BY <1>1, <1>2, <2>4
    <3> QED BY <1>1, <1>3, <3>1, <3>2, FailingKept DEF Control, Waits
  <2>8. OfSession'
    <3>1. \A a \in Task : asks'[a] = asks[a] \/ asks'[a].session = session
      BY <2>1, <2>2, ActorsAre
    <3> QED BY <1>1, <1>3, <3>1, OfSessionKept DEF Control
  <2>9. Numbered'
    <3>1. asked' \in Nat /\ asked <= asked'
      BY <1>1, <1>3, AskNumbers
    <3>2. \A a \in Actor : asks'[a].seq = asks[a].seq \/ asks'[a].seq = Bound(a)'
      BY <1>3, <2>1, <2>2 DEF Bound
    <3>3. \A a \in Actor : \A n \in E' : Answer(n, a) =>
             (\E o \in E : Answer(o, a) /\ o.seq = n.seq) \/ n.seq = asks[a].seq
      BY <2>5
    <3> QED BY <1>1, <1>3, <3>1, <3>2, <3>3, NumberedKept DEF Control
  <2>10. Closing'
    BY <1>1, <1>3, <2>3, <2>4 DEF Control, Closing
  <2>11. Lasting'
    <3>1. R'.epoch = epoch /\ R'.stage = "started"
      BY <2>1, <2>2 DEF R
    <3> QED BY <1>1, <1>3, <3>1, LastingKept DEF Control
  <2>12. (\A b \in Actor : Inherits(b)) /\ ~Granted("reauth")'
    <3>1. \A n \in E' : Answer(n, "reauth") => n.seq # asks'["reauth"].seq
      <4>1. \A n \in E : n.seq \in Nat
        BY <1>1, AskNumbers
      <4>2. MaxAsks + session \in Nat
        BY <1>1, AskNumbers
      <4> QED BY <1>4, <2>1, <2>2, <2>5, <4>1, <4>2
    <3>2. Inherits("reauth") /\ ~Granted("reauth")'
      BY <1>5, <2>1, <2>2, <3>1, NewInherits
    <3>3. \A b \in Actor : Heirs(E', E, b)
      BY <2>5 DEF Heirs
    <3> QED BY <2>2, <3>2, <3>3, SameInherits
  <2>13. Covered'
    <3> SUFFICES ASSUME NEW p \in Pins
                 PROVE  Held(p)' <= credit'[p]
      BY DEF Covered
    <3>1. Cached(p)' = 0
      BY <1>8, ClientSessionBounds DEF Cached, One
    <3>2. Starting(p)' = Cached(p)
      <4>1. R'.stage = "started" /\ R'.pin = pin
        BY <2>1, <2>2 DEF R
      <4>2. CASE pin = p
        BY <4>1, <4>2 DEF Starting, Cached, One
      <4>3. CASE pin # p
        BY <4>1, <4>3 DEF Starting, Cached, One
      <4> QED BY <4>2, <4>3
    <3>3. /\ Grant("caller", p)' <= Grant("caller", p)
          /\ Grant("thread", p)' <= Grant("thread", p)
          /\ Grant("reauth", p)' <= Grant("reauth", p)
      BY <2>12, GrantKept, ActorsAre
    <3>4. Held(p) <= credit[p] /\ credit[p] \in Int /\ credit'[p] = credit[p]
      BY <1>1, <1>3 DEF Tokens, Covered, TypeOK, HistoryTyped
    <3> QED BY <3>1, <3>2, <3>3, <3>4, PartsAre DEF Held
  <2>14. GrantedIsAccepted' /\ CachedIsAccepted'
    BY <1>1, <1>3, <1>8, <2>12 DEF Tokens, GrantedIsAccepted, CachedIsAccepted, Inherits
  <2> QED BY <2>6, <2>7, <2>8, <2>9, <2>10, <2>11, <2>12, <2>13, <2>14 DEF Control, Tokens, Inherited
<1> QED BY <1>6, <1>7, <1>8
-----------------------------------------------------------------------------
(* The theorems.                                                           *)

LEMMA InvInit == Init => Inv
<1> SUFFICES ASSUME Init PROVE Inv
  OBVIOUS
<1>1. TypeOK
  BY TypeInit
<1>2. posts = <<>> /\ E = {} /\ \A a \in Actor : asks[a] = Idle
  BY DEF Init, E, Elems
<1>3. Ordered(posts)
  BY <1>2 DEF Ordered, Once, Before
<1>4. R = Idle /\ asks["caller"] = Idle
  BY <1>2, ActorsAre DEF R
<1>5. Scheduled(asks, posts, session)
  <2>1. Staged(Idle, {}, session)
    BY ActorsAre DEF Staged, Announced, Started, Ending, Waking
  <2>2. Waking(Idle, "caller", {})
    BY ActorsAre DEF Waking
  <2> QED BY <1>2, <1>3, <1>4, <2>1, <2>2 DEF Scheduled, E, R
<1>6. \A a \in Actor : asks[a].stage = "idle" /\ asks[a].result = "none" /\ asks[a].seq = 0
  BY <1>2, ActorsAre
<1>7. Failing /\ OfSession /\ Closing
  BY <1>2, <1>6, ActorsAre DEF Failing, OfSession, Closing, Waits
<1>8. Numbered
  <2>1. \A a \in Actor : Bound(a) \in Nat
    BY <1>1, AskNumbers DEF Bound
  <2> QED BY <1>2, <1>6, <2>1 DEF Numbered
<1>9. Lasting
  BY <1>4, ActorsAre DEF Lasting, Init
<1>10. \A a \in Actor : ~Granted(a)
  BY <1>6 DEF Granted, Waits
<1>11. Covered
  <2> SUFFICES ASSUME NEW p \in Pins
               PROVE  Held(p) <= credit[p]
    BY DEF Covered
  <2>1. Cached(p) = 0
    BY ClientSessionBounds DEF Cached, One, Init
  <2>2. Starting(p) = 0
    BY <1>4, ActorsAre DEF Starting, One
  <2>3. \A a \in Actor : Grant(a, p) = 0
    BY <1>10 DEF Grant, One
  <2>4. credit[p] = 0
    BY DEF Init
  <2> QED BY <2>1, <2>2, <2>3, <2>4, ActorsAre DEF Held
<1>12. GrantedIsAccepted /\ CachedIsAccepted
  BY <1>10 DEF GrantedIsAccepted, CachedIsAccepted, Init
<1> QED BY <1>1, <1>5, <1>7, <1>8, <1>9, <1>11, <1>12 DEF Inv, Control, Tokens

LEMMA InvCallback ==
  ASSUME Inv, Callback
  PROVE  Inv'
<1>1. PICK m, ps : m = Head(posts) /\ ps = Tail(posts)
  OBVIOUS
<1>2. posts # <<>> /\ Rest
  BY DEF Callback, Rest
<1>3. m \in Posts /\ ps \in Seq(Posts) /\ TypeOK
  BY <1>1, <1>2, Popped
<1>4. CASE OnMessage(m, ps)
  BY <1>1, <1>2, <1>3, <1>4, StepOnMessage, TypeOnMessage DEF Inv
<1>5. CASE SetResult(m, ps)
  BY <1>1, <1>2, <1>3, <1>5, StepSetResult, TypeSetResult DEF Inv
<1>6. CASE CallerWakes(m, ps)
  BY <1>1, <1>2, <1>3, <1>6, StepCallerWakes, TypeCallerWakes DEF Inv
<1>7. CASE InnerWakes(m, ps)
  BY <1>1, <1>2, <1>3, <1>7, StepInnerWakes, TypeInnerWakes DEF Inv
<1>8. CASE ReauthWakes(m, ps)
  BY <1>1, <1>2, <1>3, <1>8, StepReauthWakes, TypeReauthWakes DEF Inv
<1>9. CASE ReauthStarts(m, ps)
  BY <1>1, <1>2, <1>3, <1>9, StepReauthStarts, TypeReauthStarts DEF Inv
<1>10. CASE OnDisconnected(m, ps)
  BY <1>1, <1>2, <1>3, <1>10, StepOnDisconnected, TypeOnDisconnected DEF Inv
<1>11. CASE OnClosed(m, ps)
  BY <1>1, <1>2, <1>3, <1>11, StepOnClosed, TypeOnClosed DEF Inv
<1>12. CASE HandleConnected(m, ps)
  BY <1>1, <1>2, <1>3, <1>12, StepHandleConnected, TypeHandleConnected DEF Inv
<1>13. CASE HandleDisconnected(m, ps)
  BY <1>1, <1>2, <1>3, <1>13, StepHandleDisconnected, TypeHandleDisconnected DEF Inv
<1> QED BY <1>1, <1>4, <1>5, <1>6, <1>7, <1>8, <1>9, <1>10, <1>11, <1>12, <1>13 DEF Callback

LEMMA InvNext ==
  ASSUME Inv, [Next]_vars
  PROVE  Inv'
<1>1. TypeOK
  BY DEF Inv
<1>2. ASSUME NEW p \in Pins, AsyncAuthenticate(p) \/ RequestAuthenticate(p)
      PROVE  Inv'
  BY <1>1, <1>2, StepAsk, TypeAsyncAuthenticate, TypeRequestAuthenticate DEF Inv
<1>3. CASE ThreadReturns \/ ThreadTimesOut
  BY <1>1, <1>3, StepThread, TypeThreadReturns, TypeThreadTimesOut DEF Inv
<1>4. CASE RefreshCsm
  BY <1>1, <1>4, StepRefreshCsm, TypeRefreshCsm DEF Inv
<1>5. CASE Connect
  BY <1>1, <1>5, StepConnect, TypeConnect DEF Inv
<1>6. CASE Disconnect \/ DisconnectAgain
  BY <1>1, <1>6, StepDisconnect, TypeDisconnect DEF Inv
<1>7. CASE LinkDies
  BY <1>1, <1>7, StepLinkDies, TypeLinkDies DEF Inv
<1>8. ASSUME NEW a \in Actor, NEW result \in {"ok", "failed"}, PanelAnswers(a, result)
      PROVE  Inv'
  BY <1>1, <1>8, StepPanelAnswers, TypePanelAnswers DEF Inv, Results
<1>9. ASSUME NEW a \in Task, NEW o \in {"failed", "none"}, WaitEnds(a, o)
      PROVE  Inv'
  BY <1>1, <1>9, StepWaitEnds, TypeWaitEnds DEF Inv
<1>10. CASE Callback
  BY <1>10, InvCallback
<1>11. CASE UNCHANGED vars
  <2>1. UNCHANGED <<asks, posts, session, link, epoch, asked, credit, accepted, pin, pinSession, overtaken>>
        /\ asks' = asks /\ E' = E
    BY <1>11 DEF vars, cache, history, bounds, E
  <2>2. Control /\ Tokens
    BY DEF Inv
  <2>3. TypeOK'
    <3>1. AsksTyped' /\ PostsTyped'
      BY <1>1, <2>1, FitIsTyped DEF TypeOK, PostsTyped
    <3>2. LinkTyped' /\ HistoryTyped'
      BY <1>1, <1>11 DEF TypeOK, LinkTyped, HistoryTyped, vars, history
    <3>3. CacheTyped' /\ CountsTyped'
      BY <1>1, <1>11, ForgottenTyped DEF TypeOK, CountsTyped, vars, history, bounds
    <3> QED BY <3>1, <3>2, <3>3 DEF TypeOK
  <2>4. Scheduled(asks', posts', session')
    BY <1>1, <2>1, <2>2, ScheduledStill DEF Control
  <2>5. Failing' /\ OfSession' /\ Numbered' /\ Closing' /\ Lasting'
    BY <1>1, <2>1, <2>2, ControlFollows DEF Follows, AnswersKept
  <2>6. Tokens'
    <3>1. \A a \in Actor : Inherits(a)
      BY <2>1, SameInherits DEF Heirs
    <3> QED BY <1>1, <2>1, <2>2, <3>1, TokensKept DEF StartsNone, R
  <2> QED BY <2>3, <2>4, <2>5, <2>6 DEF Inv, Control
<1>12. ASSUME NEW a \in Task, TaskTimesOut(a)
       PROVE  Inv'
  BY <1>9, <1>12 DEF TaskTimesOut
<1>13. CASE CallerCancelled
  BY <1>9, <1>13, ActorsAre DEF CallerCancelled
<1> QED BY <1>2, <1>3, <1>4, <1>5, <1>6, <1>7, <1>8, <1>10, <1>11, <1>12, <1>13 DEF Next

\* In every reachable state the variables have the types, and each actor is in a stage it can
\* be in (TypeOK), for any PINs and any number of sessions and authenticates.
THEOREM TypeCorrect == Spec => []TypeOK
<1>1. Inv => TypeOK
  BY DEF Inv
<1> QED BY <1>1, InvInit, InvNext, PTL DEF Spec

\* The client re-sends a PIN at most once for each authenticate the panel accepted with it
\* (client.py, _take_reauth_pin and _remember_auth_pin): whatever is cached, about to be sent
\* or still on its way to an actor is covered by an acceptance no re-send has used up.
THEOREM ResendsAreCovered == Spec => []ResentOnce
<1>1. Inv => ResentOnce
  <2> SUFFICES ASSUME Inv, NEW p \in Pins
               PROVE  credit[p] >= 0
    BY DEF ResentOnce
  <2>1. Held(p) <= credit[p] /\ credit[p] \in Int
    BY DEF Inv, Tokens, Covered, TypeOK, HistoryTyped
  <2> QED BY <2>1, PartsAre DEF Held
<1> QED BY <1>1, InvInit, InvNext, PTL DEF Spec

\* A CSM refresh carries a PIN only when the panel accepted it in this session
\* (client.py, _session_auth_pin), but for one whose answer a thread took back late.
THEOREM RefreshPinIsOwn == Spec => []OnlyOwnPin
<1>1. Inv => OnlyOwnPin
  BY DEF Inv, Tokens, CachedIsAccepted, OnlyOwnPin, SessionAuthPin
<1> QED BY <1>1, InvInit, InvNext, PTL DEF Spec

\* A re-authentication is sent, or ends, in a callback of its own.
LEMMA OwnCallbacks ==
  ASSUME Inv, Next, asks'["reauth"].stage \in {"idle", "asked"} \ {R.stage}
  PROVE  \E m, ps : /\ m = Head(posts) /\ ps = Tail(posts) /\ posts # <<>> /\ Rest
                    /\ ReauthWakes(m, ps) \/ ReauthStarts(m, ps)
<1>1. TypeOK /\ asks \in [Actor -> Asks] /\ R \in Asks
  BY AskNumbers, ActorsAre DEF Inv, R
<1>2. asks' # asks /\ asks'["reauth"].stage # R.stage
  BY DEF R
<1>3. ASSUME NEW f, f["reauth"] = asks["reauth"], NEW ps, CancelReauth(f, ps), f \in [Actor -> Asks]
      PROVE  FALSE
  <2>1. asks'["reauth"].stage = R.stage
    BY <1>1, <1>3, ActorsAre DEF CancelReauth, R, Asks
  <2> QED BY <1>2, <2>1
<1>4. Aborted["reauth"] = asks["reauth"] /\ Aborted \in [Actor -> Asks]
  BY <1>1, AbortedTyped, ActorsAre DEF TypeOK, Fit
<1>5. CASE Callback
  <2>1. PICK m, ps : m = Head(posts) /\ ps = Tail(posts)
    OBVIOUS
  <2>2. posts # <<>> /\ Rest
    BY <1>5 DEF Callback, Rest
  <2>3. ~OnMessage(m, ps)
    BY <1>1, <1>2, ActorsAre DEF OnMessage, R
  <2>4. ~SetResult(m, ps)
    BY <1>1, <1>2, ActorsAre, SMTT(40) DEF SetResult, R, Asks
  <2>5. ~CallerWakes(m, ps)
    BY <1>1, <1>2, ActorsAre DEF CallerWakes, R
  <2>6. ~InnerWakes(m, ps)
    BY <1>1, ActorsAre DEF InnerWakes, R, Asks
  <2>7. ~OnDisconnected(m, ps)
    BY <1>2, <1>4 DEF OnDisconnected, R
  <2>8. ~OnClosed(m, ps)
    BY <1>2 DEF OnClosed
  <2>9. ~HandleConnected(m, ps)
    <3>1. asks' = asks \/ asks' = [asks EXCEPT !["reauth"] = Resent] \/ ~HandleConnected(m, ps)
      BY DEF HandleConnected, Resent
    <3> QED BY <1>1, <1>2, <3>1, ActorsAre, ResentIs
  <2>10. ~HandleDisconnected(m, ps)
    BY <1>1, <1>3 DEF HandleDisconnected
  <2> QED BY <1>5, <2>1, <2>2, <2>3, <2>4, <2>5, <2>6, <2>7, <2>8, <2>9, <2>10 DEF Callback
<1>6. ASSUME NEW p \in Pins
      PROVE  ~AsyncAuthenticate(p) /\ ~RequestAuthenticate(p)
  BY <1>1, <1>2, ActorsAre DEF AsyncAuthenticate, RequestAuthenticate, R
<1>7. ~ThreadReturns /\ ~ThreadTimesOut
  BY <1>1, <1>2, ActorsAre DEF ThreadReturns, ThreadTimesOut, R
<1>8. ~RefreshCsm /\ ~Connect /\ ~LinkDies
  BY <1>2 DEF RefreshCsm, Connect, LinkDies
<1>9. ~Disconnect /\ ~DisconnectAgain
  BY <1>3, <1>4 DEF Disconnect, DisconnectAgain
<1>10. ASSUME NEW a \in Actor, NEW result \in {"ok", "failed"}
       PROVE  ~PanelAnswers(a, result)
  BY <1>1, <1>2, ActorsAre, SMTT(40) DEF PanelAnswers, R, Asks
<1>11. ASSUME NEW a \in Task, NEW o
       PROVE  ~WaitEnds(a, o)
  BY <1>1, <1>2, ActorsAre, SMTT(40) DEF WaitEnds, R, Asks
<1>12. \A a \in Task : ~TaskTimesOut(a)
  BY <1>11 DEF TaskTimesOut
<1>13. ~CallerCancelled
  BY <1>11, ActorsAre DEF CallerCancelled
<1> QED BY <1>5, <1>6, <1>7, <1>8, <1>9, <1>10, <1>12, <1>13 DEF Next

LEMMA OnlyOuterEnds ==
  ASSUME Inv, Next, R.stage \notin {"idle", "started"}, asks'["reauth"].stage = "idle"
  PROVE  \E m, ps : ReauthWakes(m, ps) /\ Rest
<1>1. PICK m, ps : /\ m = Head(posts) /\ ps = Tail(posts) /\ posts # <<>> /\ Rest
                   /\ ReauthWakes(m, ps) \/ ReauthStarts(m, ps)
  BY OwnCallbacks
<1>2. ~ReauthStarts(m, ps)
  <2> SUFFICES ASSUME ReauthStarts(m, ps) PROVE FALSE
    OBVIOUS
  <2>1. m \in Posts /\ m \in E /\ Staged(R, E, session)
    BY <1>1, Popped
  <2>2. m = Start
    BY <2>1, PostParts DEF ReauthStarts, Start
  <2> QED BY <2>1, <2>2 DEF Staged, Started
<1> QED BY <1>1, <1>2

\* A re-authentication that a disconnect, a close or a loss of the link overtook leaves the
\* cached PIN and the flag alone when it ends (client.py, _async_reauth_after_reconnect).
THEOREM OvertakenIsHarmless == Spec => OvertakenRestoresNothing
<1>1. ASSUME Inv, [Next]_vars
      PROVE  [asks["reauth"].stage \notin {"idle", "started"} /\ asks'["reauth"].stage = "idle"
                /\ ~(Lasts /\ session = asks["reauth"].session) => UNCHANGED cache]_vars
  <2> SUFFICES ASSUME Next, R.stage \notin {"idle", "started"}, asks'["reauth"].stage = "idle",
                      ~(Lasts /\ session = R.session)
               PROVE  UNCHANGED cache
    BY <1>1 DEF R
  <2>1. PICK m, ps : ReauthWakes(m, ps)
    BY <1>1, OnlyOuterEnds
  <2>2. R.session = session
    BY <1>1, ActorsAre DEF Inv, Control, OfSession, R
  <2>3. epoch # R.epoch
    BY <1>1, <2>2 DEF Inv, Control, Lasting
  <2> QED BY <2>1, <2>3 DEF ReauthWakes, ReauthEnds, R
<1>2. Spec => []Inv
  BY InvInit, InvNext, PTL DEF Spec
<1> QED BY <1>1, <1>2, PTL DEF Spec, OvertakenRestoresNothing

-----------------------------------------------------------------------------
(* What a disconnect of the application forgets: the invariant.            *)

Told == Event("closed")
CallerWake == Wake("task", "caller")

\* In q, a result for the caller's authenticate n stands before the end of a close.
ResultFor(m, n) == m.k = "result" /\ m.to = "caller" /\ m.seq = n
Ahead(q, n) == \E i, j \in 1..Len(q) : i < j /\ ResultFor(q[i], n) /\ q[j] = Closed

\* The caller of async_execute does not wait when its session has been closed: a close fails
\* its request first, and reports itself last.
Sequenced(c, q, l) ==
    /\ c.result = "ok" => c.stage = "waking"
    /\ c.stage \in {"asked", "answered"} =>
          l # "none" /\ (Closed \in Elems(q) => Ahead(q, c.seq))
    /\ Told \in Elems(q) => l = "none"
    /\ Before(q, CallerWake, Told)
    /\ l = "none" /\ CallerWake \in Elems(q) => Told \in Elems(q)
    /\ Connected \in Elems(q) => Head(q) = Connected

Over(l) == l \in {"closing", "none"}

\* What is cached, granted or about to be sent was accepted since the application last
\* disconnected, or will be forgotten: by its epoch, by the close that is under way, or by the
\* report of that.
Freshened ==
    /\ \A a \in Actor : asks[a].epoch <= epoch
    /\ \A a \in Actor : Granted(a) /\ asks[a].epoch = epoch => asks[a].pin \in fresh
    /\ Granted("caller") => asks["caller"].pin \in fresh \/ Over(link)
    /\ pin # NoPin /\ overtaken # "thread" => pin \in fresh \/ link = "closing" \/ Told \in E
    /\ Connected \in E /\ pin # NoPin /\ overtaken # "thread" => pin \in fresh
    /\ R.stage = "started" /\ ~R.cancelled => R.pin \in fresh \/ R.late

Forgetting == Inv /\ Sequenced(asks["caller"], posts, link) /\ Freshened

-----------------------------------------------------------------------------
(* The caller, from one sequence of callbacks to the next.                 *)

\* The callbacks that Sequenced names.
Marks == {CallerWake, Told, Closed, Connected}

LEMMA MarksDiffer ==
  /\ CallerWake # Told /\ CallerWake # Closed /\ CallerWake # Connected
  /\ Told # Closed /\ Told # Connected /\ Closed # Connected
  /\ CallerWake \in Posts /\ Told \in Posts /\ Closed \in Posts /\ Connected \in Posts
  /\ \A x \in Marks : x.k \in {"task", "event", "closed"} /\ x.k # "result"
  /\ Start \notin Marks /\ Inner \notin Marks /\ Outer \notin Marks /\ Event("lost") \notin Marks
  /\ Wake("disconnected", "kernel") \notin Marks
<1>1. /\ Told = Event("closed") /\ Connected = Event("connected") /\ Closed = Wake("closed", "kernel")
      /\ CallerWake = Wake("task", "caller")
  BY DEF Told, Connected, Closed, CallerWake
<1>2. /\ CallerWake \in Posts /\ Told \in Posts /\ Closed \in Posts /\ Connected \in Posts
  BY <1>1, PostsAre, ActorsAre
<1> QED BY <1>1, <1>2 DEF Marks, Start, Inner, Outer, Event, Wake, Post

LEMMA AheadConcat ==
  ASSUME NEW q \in Seq(Posts), NEW r \in Seq(Posts), NEW n, Ahead(q, n)
  PROVE  Ahead(q \o r, n)
<1>1. PICK i, j \in 1..Len(q) : i < j /\ ResultFor(q[i], n) /\ q[j] = Closed
  BY DEF Ahead
<1>2. /\ Len(q) \in Nat /\ Len(r) \in Nat /\ Len(q \o r) = Len(q) + Len(r)
      /\ (q \o r)[i] = q[i] /\ (q \o r)[j] = q[j]
  BY ConcatProperties
<1>3. i \in 1..Len(q \o r) /\ j \in 1..Len(q \o r)
  BY <1>2
<1> QED BY <1>1, <1>2, <1>3 DEF Ahead

LEMMA AheadCloses ==
  ASSUME NEW q \in Seq(Posts), NEW n, NEW m \in Elems(q), ResultFor(m, n)
  PROVE  Ahead(Append(q, Closed), n)
<1>1. PICK i \in 1..Len(q) : q[i] = m
  BY DEF Elems
<1> DEFINE r == Append(q, Closed)
<1>2. /\ Len(q) \in Nat /\ Len(r) = Len(q) + 1 /\ r[i] = m /\ r[Len(q) + 1] = Closed
  BY <1>1, MarksDiffer, AppendProperties
<1> HIDE DEF r
<1>3. i \in 1..Len(r) /\ Len(q) + 1 \in 1..Len(r) /\ i < Len(q) + 1
  BY <1>2
<1>4. Ahead(r, n)
  BY <1>2, <1>3 DEF Ahead
<1> QED BY <1>4 DEF r

LEMMA AheadTail ==
  ASSUME NEW q \in Seq(Posts), q # <<>>, NEW n, Ahead(q, n)
  PROVE  /\ ~ResultFor(Head(q), n) => Ahead(Tail(q), n)
         /\ Once(q, Closed) => Head(q) # Closed
<1>1. PICK i, j \in 1..Len(q) : i < j /\ ResultFor(q[i], n) /\ q[j] = Closed
  BY DEF Ahead
<1>2. /\ Len(q) \in Nat \ {0} /\ Head(q) = q[1] /\ Len(Tail(q)) = Len(q) - 1
      /\ \A k \in 1..Len(Tail(q)) : Tail(q)[k] = q[k + 1]
  OBVIOUS
<1>3. Once(q, Closed) => Head(q) # Closed
  BY <1>1, <1>2 DEF Once
<1>4. ASSUME ~ResultFor(Head(q), n)
      PROVE  Ahead(Tail(q), n)
  <2>1. i # 1
    BY <1>1, <1>2, <1>4
  <2>2. i - 1 \in 1..Len(Tail(q)) /\ j - 1 \in 1..Len(Tail(q)) /\ i - 1 < j - 1
    BY <1>1, <1>2, <2>1
  <2>3. Tail(q)[i - 1] = q[i] /\ Tail(q)[j - 1] = q[j]
    BY <1>2, <2>2
  <2> QED BY <1>1, <2>2, <2>3 DEF Ahead
<1> QED BY <1>3, <1>4

LEMMA HeadConcat ==
  ASSUME NEW q \in Seq(Posts), NEW r \in Seq(Posts), Elems(q) # {}
  PROVE  Head(q \o r) = Head(q)
<1>1. Len(q) \in Nat /\ Len(q) # 0
  BY DEF Elems
<1>2. Len(r) \in Nat /\ Len(q \o r) = Len(q) + Len(r) /\ (q \o r)[1] = q[1] /\ q \o r \in Seq(Posts)
  BY <1>1, ConcatProperties
<1>3. q # <<>> /\ q \o r # <<>>
  BY <1>1, <1>2
<1> QED BY <1>2, <1>3

\* Callbacks come that Sequenced does not name.
LEMMA SequencedGrows ==
  ASSUME NEW c, NEW q \in Seq(Posts), NEW l, Sequenced(c, q, l),
         NEW r \in Seq(Posts), Elems(r) \cap Marks = {}
  PROVE  Sequenced(c, q \o r, l)
<1>1. /\ q \o r \in Seq(Posts) /\ Elems(q \o r) = Elems(q) \cup Elems(r)
      /\ Before(q, CallerWake, Told) /\ CallerWake \notin Elems(r) => Before(q \o r, CallerWake, Told)
  BY ElemsConcat
<1>2. \A x \in Marks : x \in Elems(q \o r) <=> x \in Elems(q)
  BY <1>1
<1>3. Closed \in Elems(q) /\ Ahead(q, c.seq) => Ahead(q \o r, c.seq)
  BY AheadConcat
<1>4. Connected \in Elems(q) => Head(q \o r) = Head(q)
  BY HeadConcat
<1>5. Before(q \o r, CallerWake, Told)
  BY <1>1 DEF Sequenced, Marks
<1> QED BY <1>2, <1>3, <1>4, <1>5 DEF Sequenced, Marks

LEMMA OneMore ==
  ASSUME NEW q \in Seq(Posts), NEW z \in Posts
  PROVE  Append(q, z) = q \o <<z>> /\ <<z>> \in Seq(Posts) /\ Elems(<<z>>) = {z}
  BY DEF Elems

LEMMA OneElem ==
  ASSUME NEW q \in Seq(Posts), NEW z \in Posts
  PROVE  Elems(Append(q, z)) = Elems(q) \cup {z}
  BY ElemsAppend

LEMMA SequencedPosted ==
  ASSUME NEW c, NEW q \in Seq(Posts), NEW l, Sequenced(c, q, l), NEW z \in Posts, z \notin Marks
  PROVE  Sequenced(c, Append(q, z), l)
<1>1. Append(q, z) = q \o <<z>> /\ <<z>> \in Seq(Posts) /\ Elems(<<z>>) \cap Marks = {}
  BY OneMore
<1>2. Sequenced(c, q \o <<z>>, l)
  BY <1>1, SequencedGrows
<1> QED BY <1>1, <1>2

\* The ask of the caller changes, or the link.
LEMMA SequencedAs ==
  ASSUME NEW c, NEW q, NEW l, Sequenced(c, q, l), NEW d, NEW k, k = "none" <=> l = "none",
         d.result = "ok" => d.stage = "waking",
         d.stage \in {"asked", "answered"} =>
            \/ c.stage \in {"asked", "answered"} /\ d.seq = c.seq
            \/ l # "none" /\ Closed \notin Elems(q)
  PROVE  Sequenced(d, q, k)
  BY DEF Sequenced

\* The first callback is taken.
LEMMA SequencedTail ==
  ASSUME NEW c, NEW q \in Seq(Posts), NEW l, Sequenced(c, q, l), q # <<>>, Ordered(q),
         c.stage \in {"asked", "answered"} => ~ResultFor(Head(q), c.seq)
  PROVE  /\ Sequenced(c, Tail(q), l) /\ Connected \notin Elems(Tail(q))
         /\ Head(q) = Closed => c.stage \notin {"asked", "answered"}
         /\ Head(q) = Told => CallerWake \notin Elems(q)
<1>1. /\ Tail(q) \in Seq(Posts) /\ Elems(q) = Elems(Tail(q)) \cup {Head(q)}
  BY ElemsHeadTail
<1>2. /\ Before(Tail(q), CallerWake, Told) /\ Once(q, Closed)
      /\ Head(q) = Told => CallerWake \notin Elems(q)
      /\ Head(q) = Connected => Connected \notin Elems(Tail(q))
  BY TailKeeps DEF Sequenced, Ordered
<1>3. Connected \notin Elems(Tail(q))
  BY <1>1, <1>2 DEF Sequenced
<1>4. ASSUME c.stage \in {"asked", "answered"}, Closed \in Elems(q)
      PROVE  Ahead(Tail(q), c.seq) /\ Head(q) # Closed
  <2>1. Ahead(q, c.seq)
    BY <1>4 DEF Sequenced
  <2> QED BY <1>2, <1>4, <2>1, AheadTail
<1>5. Closed \in Elems(Tail(q)) => Closed \in Elems(q)
  BY <1>1
<1>6. Head(q) = Closed => Closed \in Elems(q)
  BY <1>1
<1>7. Sequenced(c, Tail(q), l)
  BY <1>1, <1>2, <1>3, <1>4, <1>5 DEF Sequenced
<1> QED BY <1>2, <1>3, <1>4, <1>6, <1>7

\* The future of the caller is set.
LEMMA SequencedWakes ==
  ASSUME NEW c, NEW q \in Seq(Posts), NEW l, Sequenced(c, q, l), c.stage = "waking", l # "none"
  PROVE  Sequenced(c, Append(q, CallerWake), l)
<1> DEFINE r == Append(q, CallerWake)
<1>1. /\ r = q \o <<CallerWake>> /\ <<CallerWake>> \in Seq(Posts) /\ Elems(<<CallerWake>>) = {CallerWake}
  BY MarksDiffer, OneMore
<1>2. r \in Seq(Posts) /\ Elems(r) = Elems(q) \cup {CallerWake}
  BY MarksDiffer, ElemsAppend
<1>3. Told \notin Elems(r)
  BY <1>2, MarksDiffer DEF Sequenced
<1>4. Before(r, CallerWake, Told)
  BY <1>3 DEF Before, Elems
<1>5. Connected \in Elems(q) => Head(r) = Head(q)
  BY <1>1, HeadConcat
<1> HIDE DEF r
<1>6. Sequenced(c, r, l)
  BY <1>2, <1>3, <1>4, <1>5, MarksDiffer DEF Sequenced
<1> QED BY <1>6 DEF r

\* A disconnect asks for the end of the session.
LEMMA SequencedCloses ==
  ASSUME NEW c, NEW q \in Seq(Posts), NEW l, Sequenced(c, q, l), l # "none",
         c.stage \in {"asked", "answered"} => \E m \in Elems(q) : ResultFor(m, c.seq)
  PROVE  Sequenced(c, Append(q, Closed), "closing")
<1> DEFINE r == Append(q, Closed)
<1>1. /\ r = q \o <<Closed>> /\ <<Closed>> \in Seq(Posts) /\ Elems(<<Closed>>) = {Closed}
  BY MarksDiffer, OneMore
<1>2. r \in Seq(Posts) /\ Elems(r) = Elems(q) \cup {Closed}
  BY MarksDiffer, ElemsAppend
<1>3. Told \notin Elems(r)
  BY <1>2, MarksDiffer DEF Sequenced
<1>4. Before(r, CallerWake, Told)
  BY <1>3 DEF Before, Elems
<1>5. Connected \in Elems(q) => Head(r) = Head(q)
  BY <1>1, HeadConcat
<1>6. c.stage \in {"asked", "answered"} => Ahead(r, c.seq)
  BY AheadCloses
<1> HIDE DEF r
<1>7. Sequenced(c, r, "closing")
  BY <1>2, <1>3, <1>4, <1>5, <1>6, MarksDiffer DEF Sequenced
<1> QED BY <1>7 DEF r

\* The session has ended, and the application is to be told.
LEMMA SequencedTold ==
  ASSUME NEW c, NEW q \in Seq(Posts), NEW l, Sequenced(c, q, l), l # "none",
         c.stage \notin {"asked", "answered"}, Connected \notin Elems(q)
  PROVE  Sequenced(c, Append(q, Told), "none")
<1> DEFINE r == Append(q, Told)
<1>1. r \in Seq(Posts) /\ Elems(r) = Elems(q) \cup {Told}
  BY MarksDiffer, ElemsAppend
<1>2. Told \notin Elems(q) /\ Before(q, CallerWake, Told)
  BY DEF Sequenced
<1>3. Before(r, CallerWake, Told)
  BY <1>2, MarksDiffer, BeforeAppend
<1> HIDE DEF r
<1>4. Sequenced(c, r, "none")
  BY <1>1, <1>3, MarksDiffer DEF Sequenced
<1> QED BY <1>4 DEF r
-----------------------------------------------------------------------------
(* What is fresh, from one state to the next.                              *)

LEMMA FreshKept ==
  ASSUME TypeOK, Freshened, epoch' = epoch, fresh \subseteq fresh',
         \A a \in Actor : Inherits(a) \/ asks'[a].pin \in fresh',
         \A a \in Actor : asks'[a].epoch \in {asks[a].epoch, epoch, 0},
         Over(link) => Over(link') \/ ~Granted("caller")',
         link = "closing" => link' = "closing" \/ Told \in E',
         Told \in E => Told \in E',
         Connected \in E' => \/ Connected \in E
                             \/ link # "closing" /\ Told \notin E /\ UNCHANGED <<pin, overtaken>>,
         \/ pin' = NoPin \/ overtaken' = "thread" \/ pin' \in fresh' \/ UNCHANGED <<pin, overtaken>>
         \/ /\ Granted("caller") /\ pin' = asks["caller"].pin /\ Connected \notin E'
            /\ Over(link) => link' = "closing" \/ Told \in E',
         R'.stage = "started" /\ ~R'.cancelled =>
            \/ R'.pin \in fresh' \/ R'.late
            \/ R.stage = "started" /\ ~R.cancelled /\ R'.pin = R.pin /\ R'.late = R.late
  PROVE  Freshened'
<1>1. \A a \in Actor : asks'[a].epoch <= epoch'
  BY AskNumbers DEF Freshened
<1>2. \A a \in Actor : Granted(a)' /\ asks'[a].epoch = epoch' => asks'[a].pin \in fresh'
  BY DEF Freshened, Inherits
<1>3. Granted("caller")' => asks'["caller"].pin \in fresh' \/ Over(link')
  BY ActorsAre DEF Freshened, Inherits
<1>4. pin' # NoPin /\ overtaken' # "thread" => pin' \in fresh' \/ link' = "closing" \/ Told \in E'
  BY DEF Freshened
<1>5. Connected \in E' /\ pin' # NoPin /\ overtaken' # "thread" => pin' \in fresh'
  BY DEF Freshened
<1>6. R'.stage = "started" /\ ~R'.cancelled => R'.pin \in fresh' \/ R'.late
  BY DEF Freshened
<1> QED BY <1>1, <1>2, <1>3, <1>4, <1>5, <1>6 DEF Freshened, Told

LEMMA FreshCancelled ==
  ASSUME TypeOK, Freshened, epoch' = epoch + 1, Inherits("caller"),
         \A a \in Actor : asks'[a].epoch = asks[a].epoch,
         Over(link') \/ UNCHANGED <<link, fresh>>,
         pin' = NoPin \/ (UNCHANGED <<pin, overtaken, link, fresh>> /\ (Told \in E => Told \in E')),
         Connected \in E' => Connected \in E,
         R'.stage = "started" => R'.cancelled
  PROVE  Freshened'
<1>1. \A a \in Actor : asks'[a].epoch <= epoch' /\ asks'[a].epoch # epoch'
  BY AskNumbers DEF Freshened
<1>2. Granted("caller")' => asks'["caller"].pin \in fresh' \/ Over(link')
  BY DEF Freshened, Inherits
<1>3. pin' # NoPin /\ overtaken' # "thread" => pin' \in fresh' \/ link' = "closing" \/ Told \in E'
  BY DEF Freshened
<1>4. Connected \in E' /\ pin' # NoPin /\ overtaken' # "thread" => pin' \in fresh'
  BY DEF Freshened
<1> QED BY <1>1, <1>2, <1>3, <1>4 DEF Freshened, Told

-----------------------------------------------------------------------------
(* Each step preserves what a disconnect forgets.                          *)

Caller == asks["caller"]
Sequel == Sequenced(Caller, posts, link)

LEMMA SequelIs ==
  /\ Forgetting <=> Inv /\ Sequel /\ Freshened
  /\ Sequel' <=> Sequenced(asks'["caller"], posts', link')
  BY DEF Forgetting, Sequel, Caller

LEMMA ForgetAsk ==
  ASSUME Forgetting, NEW p \in Pins, AsyncAuthenticate(p) \/ RequestAuthenticate(p)
  PROVE  Sequel' /\ Freshened'
<1>1. TypeOK /\ Control /\ Sequel /\ Freshened /\ Inv
  BY SequelIs DEF Inv
<1>2. /\ UNCHANGED <<posts, link, epoch, fresh>> /\ E' = E
      /\ pin' = NoPin \/ UNCHANGED <<pin, overtaken>>
  BY DEF AsyncAuthenticate, RequestAuthenticate, E, history, cache, MarkFailed, ForgetPin
<1>3. \A b \in Actor : \/ asks'[b] = asks[b]
                       \/ b \in {"caller", "thread"} /\ asks'[b] = Ask(p) /\ link \in {"up", "dead"}
  BY <1>1, AskNumbers DEF AsyncAuthenticate, RequestAuthenticate
<1>4. /\ Ask(p).stage = "asked" /\ Ask(p).result = "none" /\ Ask(p).epoch = epoch
  BY DEF Ask, Idle
<1>5. Sequel'
  <2>1. CASE asks'["caller"] = Caller
    BY <1>1, <1>2, <2>1, SequelIs DEF Sequel
  <2>2. CASE asks'["caller"] = Ask(p) /\ link \in {"up", "dead"}
    <3>1. Closed \notin Elems(posts)
      BY <1>1, <2>2 DEF Control, Closing, E
    <3>2. Sequenced(Ask(p), posts, link)
      BY <1>1, <1>4, <2>2, <3>1, SequencedAs DEF Sequel
    <3> QED BY <1>2, <2>2, <3>2, SequelIs
  <2> QED BY <1>3, <2>1, <2>2, ActorsAre DEF Caller
<1>6. Freshened'
  <2>1. \A a \in Actor : Inherits(a)
    BY <1>1, StepAsk DEF Inherited
  <2>2. \A a \in Actor : asks'[a].epoch \in {asks[a].epoch, epoch, 0}
    BY <1>3, <1>4
  <2>3. R' = R
    BY <1>3, ActorsAre DEF R
  <2> QED BY <1>1, <1>2, <2>1, <2>2, <2>3, FreshKept
<1> QED BY <1>5, <1>6

LEMMA ForgetThread ==
  ASSUME Forgetting, ThreadReturns \/ ThreadTimesOut
  PROVE  Sequel' /\ Freshened'
<1>1. TypeOK /\ Sequel /\ Freshened /\ Inv
  BY SequelIs DEF Inv
<1>2. /\ UNCHANGED <<posts, link, epoch, fresh>> /\ E' = E /\ asks' = [asks EXCEPT !["thread"] = Idle]
  BY DEF ThreadReturns, ThreadTimesOut, E, history
<1>3. /\ asks'["thread"] = Idle /\ Idle.epoch = 0 /\ \A b \in Actor \ {"thread"} : asks'[b] = asks[b]
  BY <1>1, <1>2, AskNumbers, ActorsAre
<1>4. Sequel' /\ R' = R
  BY <1>1, <1>2, <1>3, SequelIs, ActorsAre DEF Sequel, Caller, R
<1>5. pin' = NoPin \/ UNCHANGED <<pin, overtaken>> \/ overtaken' = "thread" \/ pin' \in fresh'
  <2>1. CASE ThreadReturns /\ asks["thread"].result = "ok" /\ epoch = asks["thread"].epoch
    <3>1. asks["thread"].pin \in fresh
      BY <1>1, <2>1, ActorsAre DEF Freshened, Granted
    <3> QED BY <1>2, <2>1, <3>1 DEF ThreadReturns, Remember
  <2>2. CASE ThreadReturns /\ asks["thread"].result = "ok" /\ epoch # asks["thread"].epoch
    BY <2>2 DEF ThreadReturns, Remember
  <2>3. CASE ThreadReturns /\ asks["thread"].result # "ok"
    BY <2>3 DEF ThreadReturns, MarkFailed, ForgetPin
  <2>4. CASE ThreadTimesOut
    BY <2>4 DEF ThreadTimesOut, cache, history
  <2> QED BY <2>1, <2>2, <2>3, <2>4
<1>6. Freshened'
  <2>1. \A a \in Actor : Inherits(a)
    BY <1>1, StepThread DEF Inherited
  <2>2. \A a \in Actor : asks'[a].epoch \in {asks[a].epoch, epoch, 0}
    BY <1>3
  <2> QED BY <1>1, <1>2, <1>4, <1>5, <2>1, <2>2, FreshKept
<1> QED BY <1>4, <1>6

LEMMA ForgetRefreshCsm ==
  ASSUME Forgetting, RefreshCsm
  PROVE  Sequel' /\ Freshened'
<1>1. TypeOK /\ Sequel /\ Freshened /\ Inv
  BY SequelIs DEF Inv
<1>2. /\ UNCHANGED <<posts, link, epoch, fresh, asks>> /\ E' = E /\ R' = R
      /\ pin' = NoPin \/ UNCHANGED <<pin, overtaken>>
  BY DEF RefreshCsm, E, R, ForgetPin
<1>3. Sequel'
  BY <1>1, <1>2, SequelIs DEF Sequel, Caller
<1>4. \A a \in Actor : Inherits(a)
  BY <1>1, StepRefreshCsm DEF Inherited
<1> QED BY <1>1, <1>2, <1>3, <1>4, FreshKept

LEMMA ForgetConnect ==
  ASSUME Forgetting, Connect
  PROVE  Sequel' /\ Freshened'
<1>1. TypeOK /\ Sequel /\ Freshened /\ Inv
  BY SequelIs DEF Inv
<1>2. /\ UNCHANGED <<epoch, fresh, asks, pin, overtaken>> /\ R' = R
      /\ link \in {"none", "lost"} /\ link' = "up" /\ posts = <<>> /\ posts' = <<Connected>>
  BY DEF Connect, R, Connected, cache, history
<1>3. E = {} /\ Caller.stage = "idle"
  BY <1>1, <1>2, Idled, ActorsAre DEF Caller
<1>4. Caller.result # "ok"
  BY <1>1, <1>3 DEF Sequel, Sequenced
<1>5. E' = {Connected} /\ Elems(posts') = {Connected} /\ Head(posts') = Connected
  <2>1. Len(posts') = 1 /\ posts'[1] = Connected /\ Head(posts') = Connected
    BY <1>2
  <2> QED BY <2>1 DEF E, Elems
<1>6. Sequel'
  <2>1. Before(posts', CallerWake, Told)
    BY <1>5, MarksDiffer DEF Before, Elems
  <2>2. Sequenced(Caller, posts', link')
    BY <1>2, <1>3, <1>4, <1>5, <2>1, MarksDiffer DEF Sequenced
  <2> QED BY <1>2, <2>2, SequelIs DEF Caller
<1>7. Freshened'
  <2>1. \A a \in Actor : Inherits(a)
    BY <1>1, StepConnect DEF Inherited
  <2>2. ~Granted("caller")'
    BY <1>2, <1>3, <1>4 DEF Granted, Waits, Caller
  <2> QED BY <1>1, <1>2, <1>3, <1>5, <2>1, <2>2, FreshKept
<1> QED BY <1>6, <1>7

LEMMA ForgetLinkDies ==
  ASSUME Forgetting, LinkDies
  PROVE  Sequel' /\ Freshened'
<1>1. TypeOK /\ Sequel /\ Freshened /\ Inv
  BY SequelIs DEF Inv
<1> DEFINE z == Wake("disconnected", "kernel")
<1>2. /\ UNCHANGED <<epoch, fresh, asks, pin, overtaken>> /\ R' = R
      /\ link = "up" /\ link' = "dead" /\ posts' = Append(posts, z)
  BY DEF LinkDies, R, cache, history
<1>3. z \in Posts /\ z \notin Marks /\ posts \in Seq(Posts)
  BY <1>1, PostsAre, MarksDiffer, AskNumbers
<1> HIDE DEF z
<1>4. Sequel'
  <2>1. Sequenced(Caller, posts, "dead")
    BY <1>1, <1>2, SequencedAs DEF Sequel, Sequenced
  <2>2. Sequenced(Caller, posts', "dead")
    BY <1>2, <1>3, <2>1, SequencedPosted
  <2> QED BY <1>2, <2>2, SequelIs DEF Caller
<1>5. E' = E \cup {z}
  BY <1>2, <1>3, ElemsAppend DEF E
<1>6. \A a \in Actor : Inherits(a)
  BY <1>1, StepLinkDies DEF Inherited
<1>7. Freshened'
  BY <1>1, <1>2, <1>3, <1>5, <1>6, FreshKept DEF Over, Marks
<1> QED BY <1>4, <1>7

LEMMA ForgetPanelAnswers ==
  ASSUME Forgetting, NEW a \in Actor, NEW result \in Results, PanelAnswers(a, result)
  PROVE  Sequel' /\ Freshened'
<1>1. TypeOK /\ Sequel /\ Freshened /\ Inv
  BY SequelIs DEF Inv
<1> DEFINE z == Post("message", a, asks[a].seq, result)
<1>2. /\ UNCHANGED <<epoch, link, pin, overtaken>> /\ fresh \subseteq fresh'
      /\ result = "ok" => asks[a].pin \in fresh'
      /\ link = "up" /\ posts' = Append(posts, z) /\ asks[a].stage = "asked"
  BY DEF PanelAnswers, cache
<1>3. z \in Posts /\ z \notin Marks /\ posts \in Seq(Posts)
  <2>1. z.k = "message" /\ z \in Posts
    BY <1>1, PostsAre, AskNumbers DEF Post
  <2> QED BY <1>1, <2>1, MarksDiffer, AskNumbers
<1> HIDE DEF z
<1>4. /\ \A b \in Actor \ {a} : asks'[b] = asks[b]
      /\ asks'[a] = Goes(asks[a], "answered", asks[a].result)
  BY <1>1, AskNumbers, GoesFields DEF PanelAnswers
<1>5. /\ asks'[a].stage = "answered" /\ asks'[a].seq = asks[a].seq /\ asks'[a].result = asks[a].result
      /\ asks'[a].epoch = asks[a].epoch
  <2>1. asks[a] \in Asks
    BY <1>1, AskNumbers
  <2> QED BY <1>4, <2>1 DEF Goes, Asks
<1>6. Sequel'
  <2>1. /\ asks'["caller"].result = Caller.result /\ asks'["caller"].seq = Caller.seq
        /\ Caller.result = "ok" => asks'["caller"].stage = "waking"
        /\ asks'["caller"].stage \in {"asked", "answered"} => Caller.stage \in {"asked", "answered"}
    BY <1>1, <1>2, <1>4, <1>5, ActorsAre DEF Caller, Sequel, Sequenced
  <2>2. Sequenced(asks'["caller"], posts, link)
    BY <1>1, <2>1, SequencedAs DEF Sequel
  <2>3. Sequenced(asks'["caller"], posts', link)
    BY <1>2, <1>3, <2>2, SequencedPosted
  <2> QED BY <1>2, <2>3, SequelIs
<1>7. E' = E \cup {z}
  BY <1>2, <1>3, ElemsAppend DEF E
<1>8. \A b \in Actor : Inherits(b) \/ asks'[b].pin \in fresh'
  BY <1>1, <1>2, StepPanelAnswers
<1>9. R'.stage # "started" \/ R' = R
  BY <1>4, <1>5, ActorsAre DEF R
<1>10. \A b \in Actor : asks'[b].epoch = asks[b].epoch
  BY <1>4, <1>5
<1>11. Freshened'
  BY <1>1, <1>2, <1>3, <1>7, <1>8, <1>9, <1>10, FreshKept DEF Marks
<1> QED BY <1>6, <1>11

LEMMA ForgetWaitEnds ==
  ASSUME Forgetting, NEW a \in Task, NEW o \in {"failed", "none"}, WaitEnds(a, o)
  PROVE  Sequel' /\ Freshened'
<1>1. TypeOK /\ Sequel /\ Freshened /\ Inv
  BY SequelIs DEF Inv
<1> DEFINE z == Wake("task", a)
<1>2. /\ UNCHANGED <<epoch, link, fresh, pin, overtaken>>
      /\ \/ asks[a].stage \in {"asked", "answered"} /\ posts' = Append(posts, z)
         \/ asks[a].stage = "waking" /\ posts' = posts
  BY DEF WaitEnds, Waits, cache, history
<1>3. /\ a \in Actor /\ z \in Posts /\ posts \in Seq(Posts) /\ z.k = "task"
      /\ a = "caller" => z = CallerWake
      /\ a = "reauth" => z = Inner /\ z \notin Marks
  BY <1>1, PostsAre, AskNumbers, ActorsAre, MarksDiffer DEF Wake, Post, CallerWake, Inner
<1> HIDE DEF z
<1>4. asks' = [asks EXCEPT ![a] = Goes(asks[a], "waking", o)]
  BY <1>1, <1>3, AskNumbers, WaitEndsGoes
<1>5. /\ \A b \in Actor \ {a} : asks'[b] = asks[b]
      /\ asks'[a].stage = "waking" /\ asks'[a].result = o /\ asks'[a].epoch = asks[a].epoch
  <2>1. asks \in [Actor -> Asks] /\ asks[a] \in Asks
    BY <1>1, <1>3, AskNumbers
  <2>2. asks'[a] = Goes(asks[a], "waking", o)
    BY <1>3, <1>4, <2>1
  <2> QED BY <1>3, <1>4, <2>1, <2>2 DEF Goes, Asks
<1>6. Sequel'
  <2>1. CASE a = "caller"
    <3>1. Sequenced(asks'["caller"], posts, link)
      BY <1>1, <1>5, <2>1, SequencedAs DEF Sequel
    <3>2. asks[a].stage \in {"asked", "answered"} => link # "none"
      BY <1>1, <2>1 DEF Sequel, Sequenced, Caller
    <3>3. Sequenced(asks'["caller"], posts', link)
      BY <1>2, <1>3, <1>5, <2>1, <3>1, <3>2, SequencedWakes
    <3> QED BY <1>2, <3>3, SequelIs
  <2>2. CASE a = "reauth"
    <3>1. asks'["caller"] = Caller
      BY <1>5, <2>2, ActorsAre DEF Caller
    <3>2. Sequenced(Caller, posts', link)
      BY <1>1, <1>2, <1>3, <2>2, SequencedPosted DEF Sequel
    <3> QED BY <1>2, <3>1, <3>2, SequelIs
  <2> QED BY <2>1, <2>2, ActorsAre
<1>7. E \subseteq E' /\ E' \subseteq E \cup {z} /\ z # Connected
  <2>1. Elems(Append(posts, z)) = E \cup {z}
    BY <1>3, ElemsAppend DEF E
  <2>2. Connected.k = "event"
    BY DEF Connected, Event, Post
  <2> QED BY <1>2, <1>3, <2>1, <2>2 DEF E
<1>8. \A b \in Actor : Inherits(b)
  BY <1>1, StepWaitEnds DEF Inherited
<1>9. R'.stage # "started" \/ R' = R
  BY <1>3, <1>5, ActorsAre DEF R
<1>10. \A b \in Actor : asks'[b].epoch = asks[b].epoch
  BY <1>5
<1>11. Freshened'
  BY <1>1, <1>2, <1>7, <1>8, <1>9, <1>10, FreshKept
<1> QED BY <1>6, <1>11

LEMMA CancelIs ==
  ASSUME TypeOK, NEW f, Fit(f), f["reauth"] = R, NEW q, CancelReauth(f, q)
  PROVE  /\ posts' = q \/ posts' = Append(q, Outer)
         /\ epoch' = epoch + 1
         /\ \A b \in Actor \ {"reauth"} : asks'[b] = f[b]
         /\ R'.epoch = R.epoch /\ (R'.stage = "started" => R'.cancelled)
<1>1. f \in [Actor -> Asks] /\ "reauth" \in Actor /\ R \in Asks
  BY AskNumbers, ActorsAre DEF Fit, R
<1>2. posts' = q \/ posts' = Append(q, Outer)
  BY DEF CancelReauth, Outer
<1>3. /\ \A b \in Actor \ {"reauth"} : asks'[b] = f[b]
      /\ IF R.stage = "idle" THEN R' = R ELSE R' = [R EXCEPT !.cancelled = TRUE]
  BY <1>1 DEF CancelReauth, R
<1>4. R'.epoch = R.epoch /\ (R'.stage = "started" => R'.cancelled)
  BY <1>1, <1>3 DEF Asks
<1> QED BY <1>2, <1>3, <1>4 DEF CancelReauth

LEMMA SequencedCancelled ==
  ASSUME NEW c, NEW q \in Seq(Posts), NEW l, Sequenced(c, q, l),
         posts' = q \/ posts' = Append(q, Outer)
  PROVE  /\ Sequenced(c, posts', l)
         /\ Elems(q) \subseteq E' /\ E' \subseteq Elems(q) \cup {Outer}
<1>1. Outer \in Posts /\ Outer \notin Marks
  BY PostsAre, MarksDiffer DEF Outer
<1>2. CASE posts' = q
  BY <1>2 DEF E
<1>3. CASE posts' = Append(q, Outer)
  <2>1. Sequenced(c, Append(q, Outer), l)
    BY <1>1, SequencedPosted
  <2>2. Elems(Append(q, Outer)) = Elems(q) \cup {Outer}
    BY <1>1, ElemsAppend
  <2> QED BY <1>3, <2>1, <2>2 DEF E
<1> QED BY <1>2, <1>3

LEMMA ForgetDisconnect ==
  ASSUME Forgetting, Disconnect \/ DisconnectAgain
  PROVE  Sequel' /\ Freshened'
<1>1. TypeOK /\ Control /\ Sequel /\ Freshened /\ Inv /\ posts \in Seq(Posts)
  BY SequelIs, AskNumbers DEF Inv
<1>2. /\ pin' = NoPin /\ Over(link')
      /\ Disconnect => link' = "closing" /\ link # "none"
      /\ DisconnectAgain => link' = link
  BY DEF Disconnect, DisconnectAgain, ForgetPin, Over
<1>3. /\ Fit(Aborted) /\ Aborted["reauth"] = R /\ Aborted["caller"] = Caller
      /\ Aborted["thread"].epoch = asks["thread"].epoch
  <2>1. /\ Fit(Aborted) /\ \A a \in Task : Aborted[a] = asks[a]
        /\ \/ Aborted["thread"] = asks["thread"]
           \/ Aborted["thread"] = Goes(asks["thread"], "unheard", asks["thread"].result)
    BY <1>1, AbortedTyped DEF TypeOK
  <2>2. asks["thread"] \in Asks
    BY <1>1, AskNumbers, ActorsAre
  <2> QED BY <2>1, <2>2, ActorsAre DEF R, Caller, Goes, Asks
<1> DEFINE q == posts \o Failures
<1>4. /\ q \in Seq(Posts) /\ Elems(q) = E \cup Elems(Failures) /\ Elems(Failures) \cap Marks = {}
      /\ \A m \in Elems(Failures) : m.k = "result"
      /\ Waits("caller") => \E m \in Elems(Failures) : ResultFor(m, Caller.seq)
  <2>1. Failures \in Seq(Posts) /\ \A m \in Elems(Failures) : m.k = "result"
    BY <1>1, FailuresAre
  <2>2. Waits("caller") => \E m \in Elems(Failures) : ResultFor(m, Caller.seq)
    BY <1>1, FailuresAre, ActorsAre DEF ResultFor, Caller
  <2> QED BY <1>1, <2>1, <2>2, ElemsConcat, MarksDiffer DEF E
<1>5. Sequenced(Caller, q, link)
  BY <1>1, <1>4, FailuresAre, SequencedGrows DEF Sequel
<1>6. PICK r \in Seq(Posts) : /\ CancelReauth(Aborted, r) /\ Sequenced(Caller, r, link')
                              /\ \A x \in Elems(r) : x \in Elems(q) \/ x = Closed
  <2>1. CASE DisconnectAgain
    <3>1. CancelReauth(Aborted, q)
      BY <2>1 DEF DisconnectAgain
    <3> QED BY <1>2, <1>4, <1>5, <2>1, <3>1
  <2>2. CASE Disconnect
    <3>1. CancelReauth(Aborted, q \o <<Closed>>)
      BY <2>2 DEF Disconnect, Closed
    <3> HIDE DEF q
    <3>2. Append(q, Closed) = q \o <<Closed>>
      BY <1>4, MarksDiffer, OneMore
    <3>3. CancelReauth(Aborted, Append(q, Closed))
      BY <3>1, <3>2
    <3>4. Caller.stage \in {"asked", "answered"} => \E m \in Elems(q) : ResultFor(m, Caller.seq)
      BY <1>4 DEF Waits, Caller
    <3>5. Sequenced(Caller, Append(q, Closed), "closing")
      BY <1>2, <1>4, <1>5, <2>2, <3>4, SequencedCloses
    <3>6. Append(q, Closed) \in Seq(Posts) /\ Elems(Append(q, Closed)) = Elems(q) \cup {Closed}
      BY <1>4, MarksDiffer, ElemsAppend
    <3> QED BY <1>2, <2>2, <3>3, <3>5, <3>6
  <2> QED BY <2>1, <2>2
<1> HIDE DEF q
<1>7. /\ posts' = r \/ posts' = Append(r, Outer)
      /\ epoch' = epoch + 1
      /\ \A b \in Actor \ {"reauth"} : asks'[b] = Aborted[b]
      /\ R'.epoch = R.epoch /\ (R'.stage = "started" => R'.cancelled)
  BY <1>1, <1>3, <1>6, CancelIs
<1>8. Sequenced(Caller, posts', link') /\ E' \subseteq Elems(r) \cup {Outer}
  BY <1>6, <1>7, SequencedCancelled
<1>9. Sequel'
  BY <1>3, <1>7, <1>8, SequelIs, ActorsAre
<1>10. Freshened'
  <2>1. Inherits("caller")
    BY <1>1, StepDisconnect, ActorsAre DEF Inherited
  <2>2. \A a \in Actor : asks'[a].epoch = asks[a].epoch
    BY <1>3, <1>7, ActorsAre DEF Caller, R
  <2>3. Connected \in E' => Connected \in E
    <3>1. Connected \notin Elems(Failures) /\ Connected # Closed /\ Connected # Outer
      BY <1>4, MarksDiffer DEF Marks
    <3> QED BY <1>4, <1>6, <1>8, <3>1
  <2> QED BY <1>1, <1>2, <1>7, <2>1, <2>2, <2>3, FreshCancelled
<1> QED BY <1>9, <1>10

\* The first callback is taken; m is no result that the caller waits for.
LEMMA Taken ==
  ASSUME Forgetting, posts # <<>>, NEW m, NEW ps, m = Head(posts), ps = Tail(posts)
  PROVE  /\ TypeOK /\ Control /\ Sequel /\ Freshened /\ Inv
         /\ m \in Posts /\ ps \in Seq(Posts) /\ E = Elems(ps) \cup {m}
         /\ m.k # "result" \/ ~ResultFor(m, Caller.seq) =>
               /\ Sequenced(Caller, ps, link)
               /\ m = Closed => Caller.stage \notin {"asked", "answered"}
               /\ m = Told => CallerWake \notin E
         /\ Connected \notin Elems(ps)
<1>1. TypeOK /\ Control /\ Sequel /\ Freshened /\ Inv
  BY SequelIs DEF Inv
<1>2. posts \in Seq(Posts) /\ Ordered(posts)
  BY <1>1, AskNumbers DEF Control, Scheduled
<1>3. m \in Posts /\ ps \in Seq(Posts) /\ E = Elems(ps) \cup {m}
  BY <1>1, Popped
<1>4. ASSUME m.k # "result" \/ ~ResultFor(m, Caller.seq)
      PROVE  /\ Sequenced(Caller, ps, link)
             /\ m = Closed => Caller.stage \notin {"asked", "answered"}
             /\ m = Told => CallerWake \notin E
  <2>1. ~ResultFor(m, Caller.seq)
    BY <1>4 DEF ResultFor
  <2> QED BY <1>1, <1>2, <2>1, SequencedTail DEF Sequel, E
<1>5. Connected \notin Elems(ps)
  <2>1. Connected \in E => m = Connected
    BY <1>1 DEF Sequel, Sequenced, E
  <2>2. m = Connected => m \notin Elems(ps)
    BY <1>1, Popped DEF Single
  <2> QED BY <1>3, <2>1, <2>2
<1> QED BY <1>1, <1>3, <1>4, <1>5

LEMMA ForgetOnMessage ==
  ASSUME Forgetting, Rest, posts # <<>>, NEW m, NEW ps, m = Head(posts), ps = Tail(posts), OnMessage(m, ps)
  PROVE  Sequel' /\ Freshened'
<1>1. /\ TypeOK /\ Freshened /\ Inv /\ m \in Posts /\ ps \in Seq(Posts) /\ E = Elems(ps) \cup {m}
      /\ Connected \notin Elems(ps) /\ m.k = "message" /\ Sequenced(Caller, ps, link)
  BY Taken DEF OnMessage
<1>2. /\ UNCHANGED <<link, epoch, fresh, pin, overtaken>> /\ m.to \in Actor /\ m.seq \in Nat /\ m.what \in Results
  BY <1>1, PostParts DEF OnMessage, cache, history
<1> DEFINE z == Post("result", m.to, m.seq, m.what)
<1>3. m.to # "thread" => z \in Posts /\ z \notin Marks
  <2>1. z.k = "result"
    BY DEF Post
  <2> QED BY <1>2, <2>1, PostsAre, MarksDiffer DEF Task
<1>4. \/ m.to # "thread" /\ posts' = Append(ps, z)
      \/ posts' = ps
  BY DEF OnMessage
<1> HIDE DEF z
<1>5. Sequenced(Caller, posts', link) /\ Elems(ps) \subseteq E' /\ Connected \notin E'
  <2>1. CASE posts' = ps
    BY <1>1, <2>1 DEF E
  <2>2. CASE m.to # "thread" /\ posts' = Append(ps, z)
    <3>1. Sequenced(Caller, Append(ps, z), link)
      BY <1>1, <1>3, <2>2, SequencedPosted
    <3>2. Elems(Append(ps, z)) = Elems(ps) \cup {z}
      BY <1>1, <1>3, <2>2, OneElem
    <3>3. z # Connected
      BY <1>3, <2>2 DEF Marks
    <3> QED BY <1>1, <2>2, <3>1, <3>2, <3>3 DEF E
  <2> QED BY <1>4, <2>1, <2>2
<1>6. /\ \A b \in Actor \ {"thread"} : asks'[b] = asks[b]
      /\ asks'["thread"].epoch = asks["thread"].epoch
  <2>1. asks \in [Actor -> Asks] /\ "thread" \in Actor /\ asks["thread"] \in Asks
    BY <1>1, AskNumbers DEF Actor
  <2>2. asks' = asks \/ asks' = [asks EXCEPT !["thread"].stage = "told", !["thread"].result = m.what]
    BY DEF OnMessage
  <2> QED BY <2>1, <2>2 DEF Asks
<1>7. Sequel'
  BY <1>2, <1>5, <1>6, SequelIs, ActorsAre DEF Caller
<1>8. Freshened'
  <2>1. \A a \in Actor : Inherits(a)
    BY <1>1, StepOnMessage DEF Inherited
  <2>2. R' = R
    BY <1>6, ActorsAre DEF R
  <2>3. Told \in E => Told \in E'
    BY <1>1, <1>5, MarksDiffer DEF Told, Event, Post
  <2> QED BY <1>1, <1>2, <1>5, <1>6, <2>1, <2>2, <2>3, FreshKept
<1> QED BY <1>7, <1>8

LEMMA ForgetSetResult ==
  ASSUME Forgetting, Rest, posts # <<>>, NEW m, NEW ps, m = Head(posts), ps = Tail(posts), SetResult(m, ps)
  PROVE  Sequel' /\ Freshened'
<1>1. /\ TypeOK /\ Control /\ Sequel /\ Freshened /\ Inv
      /\ m \in Posts /\ ps \in Seq(Posts) /\ E = Elems(ps) \cup {m}
      /\ Connected \notin Elems(ps) /\ m.k = "result"
      /\ ~ResultFor(m, Caller.seq) => Sequenced(Caller, ps, link)
  BY Taken DEF SetResult
<1>2. UNCHANGED <<link, epoch, fresh, pin, overtaken>> /\ m.to \in Task /\ m.to \in Actor
  BY <1>1, PostParts, ActorsAre DEF SetResult, cache, history
<1> DEFINE a == m.to
           z == Wake("task", a)
<1>3. /\ z \in Posts /\ z.k = "task"
      /\ a = "caller" => z = CallerWake
      /\ a = "reauth" => z = Inner /\ z \notin Marks
      /\ z # Connected
  BY <1>2, PostsAre, MarksDiffer DEF Wake, Post, CallerWake, Inner, Connected, Event
<1> HIDE DEF z
<1>4. posts \in Seq(Posts) /\ Ordered(posts) /\ asks \in [Actor -> Asks] /\ asks[a] \in Asks
  BY <1>1, <1>2, AskNumbers DEF Control, Scheduled
<1>5. CASE IsFor(m) /\ ~asks[a].cancelled
  <2>1. /\ posts' = Append(ps, z) /\ asks[a].stage \in {"asked", "answered"} /\ asks[a].seq = m.seq
        /\ asks' = [asks EXCEPT ![a].stage = "waking", ![a].result = m.what]
    BY <1>5 DEF SetResult, IsFor, Waits, z
  <2>2. /\ \A b \in Actor \ {a} : asks'[b] = asks[b]
        /\ asks'[a].stage = "waking" /\ asks'[a].epoch = asks[a].epoch
    BY <1>2, <1>4, <2>1 DEF Asks
  <2>3. E' = Elems(ps) \cup {z}
    <3>1. Elems(Append(ps, z)) = Elems(ps) \cup {z}
      BY <1>1, <1>3, OneElem
    <3> QED BY <2>1, <3>1 DEF E
  <2>4. Sequel'
    <3>1. CASE a = "caller"
      <4>1. Sequenced(asks'["caller"], posts, link) /\ link # "none"
        <5>1. link # "none"
          BY <1>1, <2>1, <3>1 DEF Sequel, Sequenced, Caller
        <5>2. asks'["caller"].stage = "waking"
          BY <2>2, <3>1
        <5>3. Sequenced(asks'["caller"], posts, link)
          BY <1>1, <5>2, SequencedAs DEF Sequel
        <5> QED BY <5>1, <5>3
      <4>2. Sequenced(asks'["caller"], ps, link)
        BY <1>4, <2>2, <3>1, <4>1, SequencedTail
      <4>3. Sequenced(asks'["caller"], Append(ps, CallerWake), link)
        BY <1>1, <2>2, <3>1, <4>1, <4>2, SequencedWakes
      <4> QED BY <1>2, <1>3, <2>1, <3>1, <4>3, SequelIs
    <3>2. CASE a = "reauth"
      <4>1. asks'["caller"] = Caller /\ ~ResultFor(m, Caller.seq)
        BY <2>2, <3>2, ActorsAre DEF Caller, ResultFor
      <4>2. Sequenced(Caller, Append(ps, z), link)
        BY <1>1, <1>3, <3>2, <4>1, SequencedPosted
      <4> QED BY <1>2, <2>1, <4>1, <4>2, SequelIs
    <3> QED BY <1>2, <3>1, <3>2, ActorsAre
  <2>5. Freshened'
    <3>1. \A b \in Actor : Inherits(b)
      BY <1>1, StepSetResult DEF Inherited
    <3>2. R'.stage # "started" \/ R' = R
      BY <2>2, ActorsAre DEF R
    <3>3. Told \in E => Told \in E'
      BY <1>1, <2>3 DEF Told, Event, Post
    <3>4. \A b \in Actor : asks'[b].epoch = asks[b].epoch
      BY <2>2
    <3> QED BY <1>1, <1>2, <1>3, <2>3, <3>1, <3>2, <3>3, <3>4, FreshKept
  <2> QED BY <2>4, <2>5
<1>6. CASE ~(IsFor(m) /\ ~asks[a].cancelled)
  <2>1. posts' = ps /\ E' = Elems(ps) /\ asks' = asks /\ R' = R
    BY <1>6 DEF SetResult, E, R
  <2>2. Sequel'
    <3>1. Caller.stage \in {"asked", "answered"} => ~ResultFor(m, Caller.seq)
      <4>1. ~Caller.cancelled
        BY <1>1, ActorsAre DEF TypeOK, AsksTyped, Caller
      <4> QED BY <1>6, <4>1 DEF IsFor, Waits, ResultFor, Caller
    <3>2. Sequenced(Caller, ps, link)
      BY <1>1, <1>4, <3>1, SequencedTail DEF Sequel
    <3> QED BY <1>2, <2>1, <3>2, SequelIs DEF Caller
  <2>3. Freshened'
    <3>1. \A b \in Actor : Inherits(b)
      BY <1>1, StepSetResult DEF Inherited
    <3>2. Told \in E => Told \in E'
      BY <1>1, <2>1 DEF Told, Event, Post
    <3> QED BY <1>1, <1>2, <2>1, <3>1, <3>2, FreshKept
  <2> QED BY <2>2, <2>3
<1> QED BY <1>5, <1>6

LEMMA ForgetCallerWakes ==
  ASSUME Forgetting, Rest, posts # <<>>, NEW m, NEW ps, m = Head(posts), ps = Tail(posts), CallerWakes(m, ps)
  PROVE  Sequel' /\ Freshened'
<1>1. /\ TypeOK /\ Sequel /\ Freshened /\ Inv /\ m \in Posts /\ ps \in Seq(Posts) /\ E = Elems(ps) \cup {m}
      /\ Connected \notin Elems(ps) /\ m.k = "task" /\ Sequenced(Caller, ps, link)
  BY Taken DEF CallerWakes
<1>2. m = CallerWake
  BY <1>1, PostParts DEF CallerWakes, CallerWake
<1>3. /\ UNCHANGED <<link, epoch, fresh>> /\ posts' = ps /\ E' = Elems(ps)
      /\ asks' = [asks EXCEPT !["caller"] = Idle]
  BY DEF CallerWakes, E
<1>4. asks'["caller"] = Idle /\ Idle.epoch = 0 /\ \A b \in Actor \ {"caller"} : asks'[b] = asks[b]
  BY <1>1, <1>3, AskNumbers, ActorsAre
<1>5. Sequel'
  <2>1. Sequenced(Idle, ps, link)
    BY <1>1, ActorsAre, SequencedAs
  <2> QED BY <1>3, <1>4, <2>1, SequelIs
<1>6. Told \in E => Told \in E'
  BY <1>1, <1>2, <1>3, MarksDiffer
<1>7. \/ pin' = NoPin \/ UNCHANGED <<pin, overtaken>>
      \/ /\ Granted("caller") /\ pin' = asks["caller"].pin
         /\ Over(link) => link' = "closing" \/ Told \in E'
  <2>1. CASE asks["caller"].result = "ok"
    <3>1. Granted("caller") /\ pin' = asks["caller"].pin
      BY <2>1 DEF CallerWakes, Remember, Granted
    <3>2. link = "none" => Told \in E
      BY <1>1, <1>2 DEF Sequel, Sequenced, E
    <3> QED BY <1>3, <1>6, <3>1, <3>2 DEF Over
  <2>2. CASE asks["caller"].result = "failed"
    BY <2>2 DEF CallerWakes, MarkFailed, ForgetPin
  <2>3. CASE asks["caller"].result = "none"
    BY <2>3 DEF CallerWakes, cache
  <2> QED BY <2>1, <2>2, <2>3 DEF CallerWakes
<1>8. Freshened'
  <2>1. \A a \in Actor : Inherits(a)
    BY <1>1, StepCallerWakes DEF Inherited
  <2>2. R' = R
    BY <1>4, ActorsAre DEF R
  <2> QED BY <1>1, <1>3, <1>4, <1>6, <1>7, <2>1, <2>2, FreshKept
<1> QED BY <1>5, <1>8

LEMMA ForgetInnerWakes ==
  ASSUME Forgetting, Rest, posts # <<>>, NEW m, NEW ps, m = Head(posts), ps = Tail(posts), InnerWakes(m, ps)
  PROVE  Sequel' /\ Freshened'
<1>1. /\ TypeOK /\ Sequel /\ Freshened /\ Inv /\ m \in Posts /\ ps \in Seq(Posts) /\ E = Elems(ps) \cup {m}
      /\ Connected \notin Elems(ps) /\ m.k = "task" /\ Sequenced(Caller, ps, link)
  BY Taken DEF InnerWakes
<1>2. /\ UNCHANGED <<link, epoch, fresh, pin, overtaken>>
      /\ posts' = ps \/ posts' = Append(ps, Outer)
      /\ asks' = [asks EXCEPT !["reauth"].stage = "done"]
  BY DEF InnerWakes, cache, history, Outer
<1>3. /\ \A b \in Actor \ {"reauth"} : asks'[b] = asks[b]
      /\ R'.stage = "done" /\ R'.epoch = R.epoch
  <2>1. asks \in [Actor -> Asks] /\ R \in Asks /\ "reauth" \in Actor
    BY <1>1, AskNumbers, ActorsAre DEF R
  <2> QED BY <1>2, <2>1 DEF Asks, R
<1>4. /\ Sequenced(Caller, posts', link)
      /\ Elems(ps) \subseteq E' /\ E' \subseteq Elems(ps) \cup {Outer}
  BY <1>1, <1>2, SequencedCancelled
<1>5. Sequel'
  BY <1>2, <1>3, <1>4, SequelIs, ActorsAre DEF Caller
<1>6. Freshened'
  <2>1. \A a \in Actor : Inherits(a)
    BY <1>1, StepInnerWakes DEF Inherited
  <2>2. \A a \in Actor : asks'[a].epoch = asks[a].epoch
    BY <1>3 DEF R
  <2>3. Connected \notin E' /\ (Told \in E => Told \in E')
    <3>1. m = Inner
      BY <1>1, PostParts DEF InnerWakes, Inner
    <3>2. Connected # Outer /\ m # Told
      BY <3>1, MarksDiffer DEF Marks
    <3> QED BY <1>1, <1>4, <3>2
  <2> QED BY <1>1, <1>2, <1>3, <2>1, <2>2, <2>3, FreshKept
<1> QED BY <1>5, <1>6

LEMMA ForgetReauthWakes ==
  ASSUME Forgetting, Rest, posts # <<>>, NEW m, NEW ps, m = Head(posts), ps = Tail(posts), ReauthWakes(m, ps)
  PROVE  Sequel' /\ Freshened'
<1>1. /\ TypeOK /\ Sequel /\ Freshened /\ Inv /\ m \in Posts /\ ps \in Seq(Posts) /\ E = Elems(ps) \cup {m}
      /\ Connected \notin Elems(ps) /\ m.k = "outer" /\ Sequenced(Caller, ps, link)
  BY Taken DEF ReauthWakes
<1>2. /\ UNCHANGED <<link, epoch, fresh>> /\ posts' = ps /\ E' = Elems(ps)
      /\ asks' = [asks EXCEPT !["reauth"] = Idle]
  BY DEF ReauthWakes, E
<1>3. asks'["reauth"] = Idle /\ Idle.epoch = 0 /\ \A b \in Actor \ {"reauth"} : asks'[b] = asks[b]
  BY <1>1, <1>2, AskNumbers, ActorsAre
<1>4. Sequel'
  BY <1>1, <1>2, <1>3, SequelIs, ActorsAre DEF Caller
<1>5. pin' = NoPin \/ UNCHANGED <<pin, overtaken>> \/ pin' \in fresh'
  <2>1. CASE R.stage = "done" /\ epoch = R.epoch /\ R.result = "ok"
    <3>1. R.pin \in fresh
      BY <1>1, <2>1, ActorsAre DEF Freshened, Granted, R
    <3>2. pin' = R.pin
      BY <2>1 DEF ReauthWakes, ReauthEnds, Remember, R
    <3> QED BY <1>2, <3>1, <3>2
  <2>2. CASE ~(R.stage = "done" /\ epoch = R.epoch /\ R.result = "ok")
    BY <2>2 DEF ReauthWakes, ReauthEnds, MarkFailed, ForgetPin, cache, R
  <2> QED BY <2>1, <2>2
<1>6. Freshened'
  <2>1. \A a \in Actor : Inherits(a)
    BY <1>1, StepReauthWakes DEF Inherited
  <2>2. R'.stage # "started"
    BY <1>3, ActorsAre DEF R
  <2>3. Told \in E => Told \in E'
    BY <1>1, <1>2, MarksDiffer DEF Marks
  <2> QED BY <1>1, <1>2, <1>3, <1>5, <2>1, <2>2, <2>3, FreshKept
<1> QED BY <1>4, <1>6

LEMMA ForgetReauthStarts ==
  ASSUME Forgetting, Rest, posts # <<>>, NEW m, NEW ps, m = Head(posts), ps = Tail(posts), ReauthStarts(m, ps)
  PROVE  Sequel' /\ Freshened'
<1>1. /\ TypeOK /\ Sequel /\ Freshened /\ Inv /\ m \in Posts /\ ps \in Seq(Posts) /\ E = Elems(ps) \cup {m}
      /\ Connected \notin Elems(ps) /\ m.k = "start" /\ Sequenced(Caller, ps, link)
  BY Taken DEF ReauthStarts
<1>2. /\ UNCHANGED <<link, epoch, fresh>> /\ posts' = ps /\ E' = Elems(ps)
      /\ pin' = NoPin \/ UNCHANGED <<pin, overtaken>>
      /\ \/ asks' = [asks EXCEPT !["reauth"] = Idle]
         \/ asks' = [asks EXCEPT !["reauth"].stage = "asked"]
  BY DEF ReauthStarts, MarkFailed, ForgetPin, cache, history, E
<1>3. /\ \A b \in Actor \ {"reauth"} : asks'[b] = asks[b]
      /\ R'.stage \in {"idle", "asked"} /\ R'.epoch \in {R.epoch, 0}
  <2>1. asks \in [Actor -> Asks] /\ R \in Asks /\ "reauth" \in Actor
    BY <1>1, AskNumbers, ActorsAre DEF R
  <2> QED BY <1>2, <2>1, ActorsAre DEF Asks, R
<1>4. Sequel'
  BY <1>1, <1>2, <1>3, SequelIs, ActorsAre DEF Caller
<1>5. Freshened'
  <2>1. \A a \in Actor : Inherits(a)
    BY <1>1, StepReauthStarts DEF Inherited
  <2>2. \A a \in Actor : asks'[a].epoch \in {asks[a].epoch, epoch, 0}
    BY <1>3 DEF R
  <2>3. Told \in E => Told \in E'
    BY <1>1, <1>2, MarksDiffer DEF Marks
  <2> QED BY <1>1, <1>2, <1>3, <2>1, <2>2, <2>3, FreshKept
<1> QED BY <1>4, <1>5

LEMMA ForgetOnDisconnected ==
  ASSUME Forgetting, Rest, posts # <<>>, NEW m, NEW ps, m = Head(posts), ps = Tail(posts), OnDisconnected(m, ps)
  PROVE  Sequel' /\ Freshened'
<1>1. /\ TypeOK /\ Sequel /\ Freshened /\ Inv /\ m \in Posts /\ ps \in Seq(Posts) /\ E = Elems(ps) \cup {m}
      /\ Connected \notin Elems(ps) /\ m.k = "disconnected" /\ Sequenced(Caller, ps, link)
  BY Taken DEF OnDisconnected
<1> DEFINE z == Event("lost")
           q == ps \o Failures
<1>2. UNCHANGED <<epoch, fresh, pin, overtaken>>
  BY DEF OnDisconnected, cache, history
<1>3. /\ Aborted["reauth"] = R /\ Aborted["caller"] = Caller
      /\ Aborted["thread"].epoch = asks["thread"].epoch
  <2>1. /\ \A a \in Task : Aborted[a] = asks[a]
        /\ \/ Aborted["thread"] = asks["thread"]
           \/ Aborted["thread"] = Goes(asks["thread"], "unheard", asks["thread"].result)
    BY <1>1, AbortedTyped DEF TypeOK
  <2>2. asks["thread"] \in Asks
    BY <1>1, AskNumbers, ActorsAre
  <2> QED BY <2>1, <2>2, ActorsAre DEF R, Caller, Goes, Asks
<1>4. z \in Posts /\ z \notin Marks /\ m \notin Marks
  BY <1>1, PostsAre, MarksDiffer
<1>5. /\ q \in Seq(Posts) /\ Elems(q) = Elems(ps) \cup Elems(Failures) /\ Elems(Failures) \cap Marks = {}
      /\ Sequenced(Caller, q, link)
  <2>1. Failures \in Seq(Posts) /\ \A n \in Elems(Failures) : n.k = "result"
    BY <1>1, FailuresAre
  <2>2. Elems(Failures) \cap Marks = {}
    BY <2>1, MarksDiffer
  <2>3. Sequenced(Caller, q, link)
    BY <1>1, <2>1, <2>2, SequencedGrows
  <2> QED BY <1>1, <2>1, <2>2, <2>3, ElemsConcat
<1> HIDE DEF z, q
<1>6. CASE link = "dead"
  <2>1. link' = "lost" /\ asks' = Aborted /\ posts' = Append(q, z)
    <3>1. link' = "lost" /\ asks' = Aborted /\ posts' = q \o <<z>>
      BY <1>6 DEF OnDisconnected, q, z
    <3> QED BY <1>4, <1>5, <3>1, OneMore
  <2>2. Sequenced(Caller, q, "lost")
    BY <1>5, <1>6, SequencedAs DEF Sequenced
  <2>3. Sequenced(Caller, Append(q, z), "lost")
    BY <1>4, <1>5, <2>2, SequencedPosted
  <2>4. Sequel' /\ R' = R /\ \A a \in Actor : asks'[a].epoch = asks[a].epoch
    BY <1>3, <2>1, <2>3, SequelIs, ActorsAre DEF R, Caller
  <2>5. E' = Elems(q) \cup {z}
    <3>1. Elems(Append(q, z)) = Elems(q) \cup {z}
      BY <1>4, <1>5, ElemsAppend
    <3> QED BY <2>1, <3>1 DEF E
  <2>6. Connected \notin E' /\ (Told \in E => Told \in E')
    BY <1>1, <1>4, <1>5, <2>5 DEF Marks
  <2>7. \A a \in Actor : Inherits(a)
    BY <1>1, StepOnDisconnected DEF Inherited
  <2>8. Freshened'
    BY <1>1, <1>2, <1>6, <2>1, <2>4, <2>6, <2>7, FreshKept DEF Over
  <2> QED BY <2>4, <2>8
<1>7. CASE link # "dead"
  <2>1. UNCHANGED <<link, asks>> /\ posts' = ps /\ E' = Elems(ps) /\ R' = R
    BY <1>7 DEF OnDisconnected, E, R
  <2>2. Sequel'
    BY <1>1, <2>1, SequelIs DEF Caller
  <2>3. Connected \notin E' /\ (Told \in E => Told \in E')
    BY <1>1, <1>4, <2>1 DEF Marks
  <2>4. \A a \in Actor : Inherits(a)
    BY <1>1, StepOnDisconnected DEF Inherited
  <2> QED BY <1>1, <1>2, <2>1, <2>2, <2>3, <2>4, FreshKept
<1> QED BY <1>6, <1>7

LEMMA ForgetOnClosed ==
  ASSUME Forgetting, Rest, posts # <<>>, NEW m, NEW ps, m = Head(posts), ps = Tail(posts), OnClosed(m, ps)
  PROVE  Sequel' /\ Freshened'
<1>1. /\ TypeOK /\ Control /\ Sequel /\ Freshened /\ Inv /\ m \in Posts /\ ps \in Seq(Posts)
      /\ E = Elems(ps) \cup {m} /\ Connected \notin Elems(ps) /\ m.k = "closed"
      /\ Sequenced(Caller, ps, link) /\ (m = Closed => Caller.stage \notin {"asked", "answered"})
  BY Taken DEF OnClosed
<1>2. m = Closed /\ link = "closing"
  <2>1. m = Closed
    BY <1>1, PostParts DEF Closed
  <2> QED BY <1>1, <2>1 DEF Control, Closing
<1>3. /\ UNCHANGED <<epoch, fresh, pin, overtaken, asks>> /\ R' = R
      /\ link' = "none" /\ posts' = Append(ps, Told)
  BY DEF OnClosed, cache, history, R, Told
<1>4. E' = Elems(ps) \cup {Told}
  <2>1. Elems(Append(ps, Told)) = Elems(ps) \cup {Told}
    BY <1>1, MarksDiffer, OneElem
  <2> QED BY <1>3, <2>1 DEF E
<1>5. Sequel'
  <2>1. Sequenced(Caller, Append(ps, Told), "none")
    BY <1>1, <1>2, SequencedTold
  <2> QED BY <1>3, <2>1, SequelIs DEF Caller
<1>6. Freshened'
  <2>1. \A a \in Actor : Inherits(a)
    BY <1>1, StepOnClosed DEF Inherited
  <2>2. Connected \notin E' /\ Told \in E'
    BY <1>1, <1>4, MarksDiffer
  <2> QED BY <1>1, <1>2, <1>3, <2>1, <2>2, FreshKept DEF Over
<1> QED BY <1>5, <1>6

LEMMA ForgetHandleConnected ==
  ASSUME Forgetting, Rest, posts # <<>>, NEW m, NEW ps, m = Head(posts), ps = Tail(posts), HandleConnected(m, ps)
  PROVE  Sequel' /\ Freshened'
<1>1. /\ TypeOK /\ Sequel /\ Freshened /\ Inv /\ m \in Posts /\ ps \in Seq(Posts) /\ E = Elems(ps) \cup {m}
      /\ Connected \notin Elems(ps) /\ m.k = "event" /\ m.what = "connected" /\ Sequenced(Caller, ps, link)
  BY Taken DEF HandleConnected
<1>2. m = Connected /\ Connected \in E /\ Connected # Told
  <2>1. m = Connected
    BY <1>1, PostParts DEF Connected
  <2> QED BY <1>1, <2>1, MarksDiffer
<1>3. /\ UNCHANGED <<link, epoch, fresh, overtaken>>
      /\ pin' = NoPin \/ pin' = pin
      /\ \/ posts' = ps /\ asks' = asks
         \/ posts' = Append(ps, Start) /\ pin # NoPin /\ asks' = [asks EXCEPT !["reauth"] = Resent]
  BY DEF HandleConnected, TakeReauthPin, ForgetPin, Resent, Start
<1>4. /\ Sequenced(Caller, posts', link)
      /\ Elems(ps) \subseteq E' /\ E' \subseteq Elems(ps) \cup {Start}
  <2>1. Start \in Posts /\ Start \notin Marks
    BY PostsAre, MarksDiffer DEF Start
  <2>2. CASE posts' = ps
    BY <1>1, <2>2 DEF E
  <2>3. CASE posts' = Append(ps, Start)
    <3>1. Sequenced(Caller, Append(ps, Start), link)
      BY <1>1, <2>1, SequencedPosted
    <3>2. Elems(Append(ps, Start)) = Elems(ps) \cup {Start}
      BY <1>1, <2>1, OneElem
    <3> QED BY <2>3, <3>1, <3>2 DEF E
  <2> QED BY <1>3, <2>2, <2>3
<1>5. /\ \A b \in Actor \ {"reauth"} : asks'[b] = asks[b]
      /\ R' = R \/ (R' = Resent /\ pin # NoPin)
  <2>1. asks \in [Actor -> Asks] /\ "reauth" \in Actor
    BY <1>1, AskNumbers, ActorsAre
  <2> QED BY <1>3, <2>1 DEF R
<1>6. Sequel'
  BY <1>3, <1>4, <1>5, SequelIs, ActorsAre DEF Caller
<1>7. Freshened'
  <2>1. \A a \in Actor : Inherits(a)
    BY <1>1, StepHandleConnected DEF Inherited
  <2>2. Resent.epoch = epoch /\ Resent.pin = pin /\ Resent.late = (overtaken = "thread")
    BY <1>1, ResentIs
  <2>3. \A a \in Actor : asks'[a].epoch \in {asks[a].epoch, epoch, 0}
    BY <1>5, <2>2 DEF R
  <2>4. R'.stage = "started" /\ ~R'.cancelled =>
           \/ R'.pin \in fresh' \/ R'.late
           \/ R.stage = "started" /\ ~R.cancelled /\ R'.pin = R.pin /\ R'.late = R.late
    <3>1. pin # NoPin /\ overtaken # "thread" => pin \in fresh
      BY <1>1, <1>2 DEF Freshened
    <3> QED BY <1>3, <1>5, <2>2, <3>1
  <2>5. Connected \notin E' /\ (Told \in E => Told \in E')
    <3>1. Connected # Start
      BY MarksDiffer DEF Marks
    <3> QED BY <1>1, <1>2, <1>4, <3>1
  <2> QED BY <1>1, <1>3, <2>1, <2>3, <2>4, <2>5, FreshKept
<1> QED BY <1>6, <1>7

LEMMA ForgetHandleDisconnected ==
  ASSUME Forgetting, Rest, posts # <<>>, NEW m, NEW ps, m = Head(posts), ps = Tail(posts), HandleDisconnected(m, ps)
  PROVE  Sequel' /\ Freshened'
<1>1. /\ TypeOK /\ Sequel /\ Freshened /\ Inv /\ m \in Posts /\ ps \in Seq(Posts) /\ E = Elems(ps) \cup {m}
      /\ Connected \notin Elems(ps) /\ m.k = "event" /\ m.what \in {"lost", "closed"} /\ Sequenced(Caller, ps, link)
  BY Taken DEF HandleDisconnected
<1>2. m = Event(m.what)
  BY <1>1, PostParts
<1>3. /\ UNCHANGED <<link, fresh, overtaken>> /\ CancelReauth(asks, ps)
      /\ pin' = NoPin \/ (pin' = pin /\ m.what = "lost")
  BY <1>1 DEF HandleDisconnected, Forgets, ForgetPin
<1>4. /\ posts' = ps \/ posts' = Append(ps, Outer)
      /\ epoch' = epoch + 1
      /\ \A b \in Actor \ {"reauth"} : asks'[b] = asks[b]
      /\ R'.epoch = R.epoch /\ (R'.stage = "started" => R'.cancelled)
  BY <1>1, <1>3, CancelIs, FitIsTyped DEF R, TypeOK
<1>5. /\ Sequenced(Caller, posts', link)
      /\ Elems(ps) \subseteq E' /\ E' \subseteq Elems(ps) \cup {Outer}
  BY <1>1, <1>4, SequencedCancelled
<1>6. Sequel'
  BY <1>3, <1>4, <1>5, SequelIs, ActorsAre DEF Caller
<1>7. Freshened'
  <2>1. Inherits("caller")
    BY <1>1, StepHandleDisconnected, ActorsAre DEF Inherited
  <2>2. \A a \in Actor : asks'[a].epoch = asks[a].epoch
    BY <1>4 DEF R
  <2>3. Connected \notin E'
    <3>1. Connected # Outer
      BY MarksDiffer DEF Marks
    <3> QED BY <1>1, <1>5, <3>1
  <2>4. pin' = NoPin \/ (UNCHANGED <<pin, overtaken, link, fresh>> /\ (Told \in E => Told \in E'))
    <3>1. m.what = "lost" => m # Told
      BY <1>2, MarksDiffer DEF Marks
    <3> QED BY <1>1, <1>3, <1>5, <3>1
  <2> QED BY <1>1, <1>3, <1>4, <2>1, <2>2, <2>3, <2>4, FreshCancelled
<1> QED BY <1>6, <1>7

-----------------------------------------------------------------------------
(* The theorem.                                                            *)

LEMMA ForgettingInit == Init => Forgetting
<1> SUFFICES ASSUME Init PROVE Forgetting
  OBVIOUS
<1>1. /\ posts = <<>> /\ link = "none" /\ pin = NoPin /\ epoch = 0
      /\ Elems(posts) = {} /\ E = {} /\ \A a \in Actor : asks[a] = Idle
  BY DEF Init, E, Elems
<1>2. \A a \in Actor : /\ asks[a].stage = "idle" /\ asks[a].result = "none" /\ asks[a].epoch = 0
                       /\ ~Granted(a)
  BY <1>1, ActorsAre DEF Granted, Waits
<1>3. Sequel
  <2>1. Before(posts, CallerWake, Told)
    BY <1>1 DEF Before
  <2> QED BY <1>1, <1>2, <2>1, ActorsAre DEF Sequel, Sequenced, Caller
<1>4. Freshened
  BY <1>1, <1>2, ActorsAre DEF Freshened, R
<1> QED BY <1>3, <1>4, InvInit, SequelIs

LEMMA ForgettingCallback ==
  ASSUME Forgetting, Callback
  PROVE  Sequel' /\ Freshened'
<1>1. PICK m, ps : m = Head(posts) /\ ps = Tail(posts)
  OBVIOUS
<1>2. posts # <<>> /\ Rest
  BY DEF Callback, Rest
<1>3. CASE OnMessage(m, ps)
  BY <1>1, <1>2, <1>3, ForgetOnMessage
<1>4. CASE SetResult(m, ps)
  BY <1>1, <1>2, <1>4, ForgetSetResult
<1>5. CASE CallerWakes(m, ps)
  BY <1>1, <1>2, <1>5, ForgetCallerWakes
<1>6. CASE InnerWakes(m, ps)
  BY <1>1, <1>2, <1>6, ForgetInnerWakes
<1>7. CASE ReauthWakes(m, ps)
  BY <1>1, <1>2, <1>7, ForgetReauthWakes
<1>8. CASE ReauthStarts(m, ps)
  BY <1>1, <1>2, <1>8, ForgetReauthStarts
<1>9. CASE OnDisconnected(m, ps)
  BY <1>1, <1>2, <1>9, ForgetOnDisconnected
<1>10. CASE OnClosed(m, ps)
  BY <1>1, <1>2, <1>10, ForgetOnClosed
<1>11. CASE HandleConnected(m, ps)
  BY <1>1, <1>2, <1>11, ForgetHandleConnected
<1>12. CASE HandleDisconnected(m, ps)
  BY <1>1, <1>2, <1>12, ForgetHandleDisconnected
<1> QED BY <1>1, <1>3, <1>4, <1>5, <1>6, <1>7, <1>8, <1>9, <1>10, <1>11, <1>12 DEF Callback

LEMMA ForgettingNext ==
  ASSUME Forgetting, [Next]_vars
  PROVE  Forgetting'
<1>1. Inv' /\ Inv /\ Sequel /\ Freshened /\ TypeOK
  BY SequelIs, InvNext DEF Inv
<1>2. Sequel' /\ Freshened'
  <2>1. ASSUME NEW p \in Pins, AsyncAuthenticate(p) \/ RequestAuthenticate(p)
        PROVE  Sequel' /\ Freshened'
    BY <2>1, ForgetAsk
  <2>2. CASE ThreadReturns \/ ThreadTimesOut
    BY <2>2, ForgetThread
  <2>3. CASE RefreshCsm
    BY <2>3, ForgetRefreshCsm
  <2>4. CASE Connect
    BY <2>4, ForgetConnect
  <2>5. CASE Disconnect \/ DisconnectAgain
    BY <2>5, ForgetDisconnect
  <2>6. CASE LinkDies
    BY <2>6, ForgetLinkDies
  <2>7. ASSUME NEW a \in Actor, NEW result \in {"ok", "failed"}, PanelAnswers(a, result)
        PROVE  Sequel' /\ Freshened'
    BY <2>7, ForgetPanelAnswers DEF Results
  <2>8. ASSUME NEW a \in Task, TaskTimesOut(a)
        PROVE  Sequel' /\ Freshened'
    BY <2>8, ForgetWaitEnds DEF TaskTimesOut
  <2>11. CASE CallerCancelled
    BY <2>11, ForgetWaitEnds, ActorsAre DEF CallerCancelled
  <2>9. CASE Callback
    BY <2>9, ForgettingCallback
  <2>10. CASE UNCHANGED vars
    <3>1. UNCHANGED <<asks, posts, link, epoch, pin, fresh, overtaken>> /\ E' = E /\ R' = R
      BY <2>10 DEF vars, cache, history, E, R
    <3>2. Sequel'
      BY <1>1, <3>1, SequelIs DEF Sequel, Caller
    <3>3. \A a \in Actor : Inherits(a)
      BY <3>1, SameInherits DEF Heirs
    <3> QED BY <1>1, <3>1, <3>2, <3>3, FreshKept
  <2> QED BY <2>1, <2>2, <2>3, <2>4, <2>5, <2>6, <2>7, <2>8, <2>9, <2>10, <2>11 DEF Next
<1>3. Sequel' => Sequenced(asks["caller"], posts, link)'
  BY SequelIs
<1> QED BY <1>1, <1>2, <1>3 DEF Forgetting

LEMMA OnlyStartAsks ==
  ASSUME Inv, Next, R.stage = "started", asks'["reauth"].stage = "asked"
  PROVE  ~R.cancelled
<1>1. PICK m, ps : ReauthWakes(m, ps) \/ ReauthStarts(m, ps)
  BY OwnCallbacks
<1>2. asks \in [Actor -> Asks] /\ "reauth" \in Actor
  BY AskNumbers, ActorsAre DEF Inv
<1>3. asks' # [asks EXCEPT !["reauth"] = Idle]
  BY <1>2, ActorsAre
<1> QED BY <1>1, <1>3 DEF ReauthWakes, ReauthStarts, R

\* The client does not send a PIN again after the application disconnected, unless the panel
\* accepted it once more (client.py, _cancel_reauth and _forget_auth_pin); except one whose
\* answer a thread in request() took back late.
THEOREM DisconnectForgets == Spec => NotResentAfterDisconnect
<1>1. ASSUME Forgetting, [Next]_vars
      PROVE  [asks["reauth"].stage = "started" /\ asks'["reauth"].stage = "asked"
                => asks["reauth"].pin \in fresh \/ asks["reauth"].late]_vars
  <2> SUFFICES ASSUME Next, R.stage = "started", asks'["reauth"].stage = "asked"
               PROVE  R.pin \in fresh \/ R.late
    BY <1>1 DEF R
  <2>1. Inv /\ Freshened
    BY <1>1 DEF Forgetting
  <2>2. ~R.cancelled
    BY <2>1, OnlyStartAsks
  <2> QED BY <2>1, <2>2 DEF Freshened
<1> QED BY <1>1, ForgettingInit, ForgettingNext, PTL DEF Spec, NotResentAfterDisconnect
=============================================================================
