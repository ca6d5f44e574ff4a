---------------------------- MODULE LinkProofs -----------------------------
(***************************************************************************)
(* Theorems about the session under the commands: SessionLifecycle, for any *)
(* number of sessions; Keepalive, for every number of misses and every      *)
(* bound (a session that is up is watched, and traffic after the probe      *)
(* rescues it); and the receiver of Framing, well formed whatever arrives.  *)
(* Keepalive's inductive invariant, Inv, is in that module, where TLC       *)
(* checks its parts; here every action is shown to preserve each of them.   *)
(***************************************************************************)
EXTENDS SessionLifecycle, Keepalive, QueueProofs

-----------------------------------------------------------------------------
(* SessionLifecycle: the types.                                            *)

\* What the actions post are callbacks of the loop.
LEMMA PostedIsPost ==
    ASSUME NEW s \in Session
    PROVE  /\ \A err \in Error : Posted("disconnected", s, err) \in Post
           /\ \A w \in {"ok", "failed"} : Posted("connectDone", s, w) \in Post
           /\ Posted("closeDone", s, "ok") \in Post
           /\ Posted("closeLate", s, "ok") \in Post
           /\ \A e \in Event : Emitted(e) \in Post
BY DEF Posted, Post, Error, Emitted, Event

\* The loop's next callback, and the rest.
LEMMA HeadIsPost ==
    ASSUME posts \in Seq(Post), posts # <<>>
    PROVE  Head(posts) \in Post /\ Tail(posts) \in Seq(Post)
OBVIOUS

\* The steps of a session's threads, and the connect() that starts them, keep the types.
LEMMA ThreadsTyped ==
    ASSUME TypeOK, NEW s \in Session,
           \/ Connect(s) \/ HelloEnds(s) \/ WorkerReturns(s) \/ LinkBreaks(s) \/ RecvGoesOn(s)
    PROVE  TypeOK'
<1> USE DEF TypeOK, kernel, calls, threads, sess, app
<1>1. CASE Connect(s)
    BY <1>1 DEF Connect
<1>2. CASE ConnectRefusedByTcp(s)
    BY <1>2 DEF ConnectRefusedByTcp
<1>3. CASE HelloDies(s)
    BY <1>3 DEF HelloDies
<1>4. CASE HelloSucceeds(s)
    BY <1>4 DEF HelloSucceeds
<1>5. CASE WorkerReturns(s)
    BY <1>5, PostedIsPost DEF WorkerReturns
<1>6. CASE LinkBreaks(s)
    BY <1>6 DEF LinkBreaks
<1>7. CASE RecvFails(s)
    BY <1>7 DEF RecvFails
<1>8. CASE RecvStops(s)
    BY <1>8 DEF RecvStops
<1>9. CASE RecvDecides(s)
    BY <1>9 DEF RecvDecides
<1>10. CASE RecvBeginsTeardown(s)
    BY <1>10 DEF RecvBeginsTeardown
<1>11. CASE RecvCloses(s)
    BY <1>11 DEF RecvCloses, CloseSession
<1>12. ASSUME NEW err \in {"refused", "protocol"}, HelloFails(s, err)
      PROVE  TypeOK'
    BY <1>12, PostedIsPost DEF HelloFails, Error
<1>13. ASSUME NEW err \in {"io", "protocol"}, RecvNotifies(s, err)
      PROVE  TypeOK'
    BY <1>13, PostedIsPost DEF RecvNotifies, Error
<1> QED BY <1>1, <1>2, <1>3, <1>4, <1>5, <1>6, <1>7, <1>8, <1>9, <1>10, <1>11, <1>12, <1>13
        DEF HelloEnds, RecvGoesOn

\* So do the callbacks of the loop.
LEMMA LoopTyped ==
    ASSUME TypeOK, LoopGoesOn
    PROVE  TypeOK'
<1> USE DEF TypeOK, kernel, calls, threads, sess, app
<1>0. posts # <<>> => Head(posts) \in Post /\ Tail(posts) \in Seq(Post)
    BY HeadIsPost
<1>1. CASE FutureIsSet
    <2>1. Head(posts) \in Post /\ Head(posts).kind \in {"connectDone", "closeDone"}
        BY <1>0, <1>1 DEF FutureIsSet, Runs
    <2>2. [Head(posts) EXCEPT !.kind = IF Head(posts).kind = "connectDone" THEN "connectWakes"
                                       ELSE "closeWakes"] \in Post
        BY <2>1 DEF Post
    <2>3. posts' \in Seq(Post)
        BY <1>0, <1>1, <2>2 DEF FutureIsSet, Runs
    <2> QED BY <1>1, <2>3 DEF FutureIsSet
<1>2. CASE ConnectGoesOn
    BY <1>0, <1>2 DEF ConnectGoesOn, Runs
<1>3. CASE ConnectAnnounces
    <2>1. Emitted("up") \in Post
        BY DEF Emitted, Posted, Post, Event
    <2>2. posts' \in Seq(Post)
        BY <1>3, <2>1 DEF ConnectAnnounces
    <2> QED BY <1>3, <2>2 DEF ConnectAnnounces
<1>4. CASE ConnectRaises
    BY <1>0, <1>4 DEF ConnectRaises, Runs
<1>5. CASE CloseLate
    BY <1>0, <1>5 DEF CloseLate, Runs, CloseSession, Post
<1>6. CASE CloseEnds
    <2>1. Emitted("closed") \in Post
        BY DEF Emitted, Posted, Post, Event
    <2>2. posts' \in Seq(Post)
        BY <1>0, <1>6, <2>1 DEF CloseEnds, Runs
    <2> QED BY <1>6, <2>2 DEF CloseEnds
<1>7. CASE SessionDisconnected
    <2>1. \A err : Emitted(EventFor(err)) \in Post
        BY DEF EventFor, Emitted, Posted, Post, Event
    <2>2. posts' \in Seq(Post) /\ connected' \in BOOLEAN
        BY <1>0, <1>7, <2>1 DEF SessionDisconnected, Runs
    <2> QED BY <1>7, <2>2 DEF SessionDisconnected
<1>8. CASE EventDelivered
    BY <1>0, <1>8 DEF EventDelivered, Runs, Post
<1> QED BY <1>1, <1>2, <1>3, <1>4, <1>5, <1>6, <1>7, <1>8, LoopGoesOn DEF LoopGoesOn

\* So do the other calls, the thread of close() and a teardown on the loop.
LEMMA CallsTyped ==
    ASSUME TypeOK,
           \/ Cancel \/ Close \/ CloserCloses \/ CloserReturns
           \/ \E err \in {"io", "protocol"} : LoopTearsDown(err)
    PROVE  TypeOK'
<1> USE DEF TypeOK, kernel, calls, threads, sess, app
<1>1. CASE Cancel
    BY <1>1, PostedIsPost DEF Cancel
<1>2. CASE Close
    BY <1>2 DEF Close
<1>3. CASE CloserCloses
    BY <1>3 DEF CloserCloses, CloseSession
<1>4. CASE CloserReturns
    BY <1>4, PostedIsPost DEF CloserReturns
<1>5. ASSUME NEW err \in {"io", "protocol"}, LoopTearsDown(err)
      PROVE  TypeOK'
    <2>1. current \in Session /\ Posted("disconnected", current, err) \in Post
        BY <1>5, PostedIsPost DEF LoopTearsDown, Error
    <2> QED BY <1>5, <2>1 DEF LoopTearsDown, CloseSession
<1> QED BY <1>1, <1>2, <1>3, <1>4, <1>5

\* Every step keeps the types.
LEMMA StepTyped ==
    ASSUME TypeOK, [Next]_vars
    PROVE  TypeOK'
<1>1. CASE UNCHANGED vars
    BY <1>1 DEF TypeOK, vars, kernel, calls, threads, sess, app
<1>2. CASE Next
    BY <1>2, ThreadsTyped, CallsTyped, LoopTyped DEF Next
<1> QED BY <1>1, <1>2

\* Every variable keeps its type, for any number of connects.
THEOREM TypeCorrect == Spec => []TypeOK
<1>1. Init => TypeOK
    <2>1. <<>> \in Seq(Post)
        OBVIOUS
    <2> QED BY <2>1 DEF Init, TypeOK
<1> QED BY <1>1, StepTyped, PTL DEF Spec

-----------------------------------------------------------------------------
(* The inductive invariant *)

\* Every callback but an event names its session.
LEMMA ThreadPosts ==
    ASSUME TypeOK
    PROVE  /\ \A i \in 1 .. Len(posts) : posts[i].kind # "event" => posts[i].session \in Session
           /\ posts # <<>> => Len(posts) > 0 /\ Head(posts) = posts[1]
           /\ None \notin Session
BY DEF TypeOK, Post, Session, None

\* One call at a time.
LEMMA OneCallKept ==
    ASSUME TypeOK, LifecycleInv, Next
    PROVE  OneCall'
<1> USE DEF TypeOK, LifecycleInv, kernel, calls, threads, sess, app, LoopIsFree,
            OneCall, ResultsAreFinal
<1>1. ASSUME NEW s \in Session, Connect(s) PROVE OneCall'
    BY <1>1 DEF Connect
<1>2. ASSUME NEW s \in Session, ConnectRefusedByTcp(s) PROVE OneCall'
    BY <1>2 DEF ConnectRefusedByTcp
<1>3. ASSUME NEW s \in Session, HelloDies(s) PROVE OneCall'
    BY <1>3 DEF HelloDies
<1>4. ASSUME NEW s \in Session, HelloSucceeds(s) PROVE OneCall'
    BY <1>4 DEF HelloSucceeds
<1>5. ASSUME NEW s \in Session, WorkerReturns(s) PROVE OneCall'
    BY <1>5 DEF WorkerReturns, Posted
<1>6. ASSUME NEW s \in Session, LinkBreaks(s) PROVE OneCall'
    BY <1>6 DEF LinkBreaks
<1>7. ASSUME NEW s \in Session, RecvFails(s) PROVE OneCall'
    BY <1>7 DEF RecvFails
<1>8. ASSUME NEW s \in Session, RecvStops(s) PROVE OneCall'
    BY <1>8 DEF RecvStops, MayReport
<1>9. ASSUME NEW s \in Session, RecvDecides(s) PROVE OneCall'
    BY <1>9 DEF RecvDecides, MayReport
<1>10. ASSUME NEW s \in Session, RecvBeginsTeardown(s) PROVE OneCall'
    BY <1>10 DEF RecvBeginsTeardown
<1>11. ASSUME NEW s \in Session, RecvCloses(s) PROVE OneCall'
    BY <1>11 DEF RecvCloses, CloseSession
<1>12. ASSUME NEW s \in Session, NEW err \in Error, HelloFails(s, err) PROVE OneCall'
    BY <1>12 DEF HelloFails, Posted
<1>13. ASSUME NEW s \in Session, NEW err \in Error, RecvNotifies(s, err) PROVE OneCall'
    BY <1>13 DEF RecvNotifies, Posted
<1>14. ASSUME NEW err \in Error, LoopTearsDown(err) PROVE OneCall'
    BY <1>14 DEF LoopTearsDown, CloseSession, Posted
<1>15. CASE FutureIsSet
    BY <1>15 DEF FutureIsSet, Runs
<1>16. CASE ConnectGoesOn
    BY <1>16, ThreadPosts DEF ConnectGoesOn, Runs, MayStillReport, Alive, Reported
<1>17. CASE ConnectAnnounces
    BY <1>17 DEF ConnectAnnounces, Emitted, Posted
<1>18. CASE ConnectRaises
    BY <1>18 DEF ConnectRaises, Runs
<1>19. CASE CloseLate
    BY <1>19 DEF CloseLate, Runs, CloseSession
<1>20. CASE CloseEnds
    BY <1>20 DEF CloseEnds, Runs, Emitted, Posted
<1>21. CASE SessionDisconnected
    BY <1>21 DEF SessionDisconnected, Runs, Emitted, Posted, EventFor
<1>22. CASE EventDelivered
    BY <1>22 DEF EventDelivered, Runs
<1>23. CASE Cancel
    BY <1>23 DEF Cancel, Posted
<1>24. CASE Close
    BY <1>24 DEF Close
<1>25. CASE CloserCloses
    BY <1>25 DEF CloserCloses, CloseSession
<1>26. CASE CloserReturns
    BY <1>26 DEF CloserReturns, Posted, Joined
<1> HIDE DEF TypeOK, LifecycleInv, OneCall, ResultsAreFinal
<1> QED BY <1>1, <1>2, <1>3, <1>4, <1>5, <1>6, <1>7, <1>8, <1>9, <1>10, <1>11, <1>12, <1>13,
           <1>14, <1>15, <1>16, <1>17, <1>18, <1>19, <1>20, <1>21, <1>22, <1>23, <1>24, <1>25, <1>26
        DEF Next, HelloEnds, RecvGoesOn, LoopGoesOn, Error

\* Whoever lets a session go has its report behind it, or disowns it.
LEMMA OwnersKept ==
    ASSUME TypeOK, LifecycleInv, Next
    PROVE  ReportersAreOwned'
<1> USE DEF TypeOK, LifecycleInv, kernel, calls, threads, sess, app, LoopIsFree,
            OneCall, ReportersAreOwned, ReportsComeFirst, ResultsAreFinal, LastWord, Owned,
            MayStillReport, Alive, Reported
<1>1. ASSUME NEW s \in Session, Connect(s) PROVE ReportersAreOwned'
    BY <1>1 DEF Connect
<1>2. ASSUME NEW s \in Session, ConnectRefusedByTcp(s) PROVE ReportersAreOwned'
    BY <1>2 DEF ConnectRefusedByTcp
<1>3. ASSUME NEW s \in Session, HelloDies(s) PROVE ReportersAreOwned'
    BY <1>3 DEF HelloDies
<1>4. ASSUME NEW s \in Session, HelloSucceeds(s) PROVE ReportersAreOwned'
    BY <1>4 DEF HelloSucceeds
<1>5. ASSUME NEW s \in Session, WorkerReturns(s) PROVE ReportersAreOwned'
    BY <1>5 DEF WorkerReturns, Posted
<1>6. ASSUME NEW s \in Session, LinkBreaks(s) PROVE ReportersAreOwned'
    BY <1>6 DEF LinkBreaks
<1>7. ASSUME NEW s \in Session, RecvFails(s) PROVE ReportersAreOwned'
    BY <1>7 DEF RecvFails
<1>8. ASSUME NEW s \in Session, RecvStops(s) PROVE ReportersAreOwned'
    BY <1>8 DEF RecvStops, MayReport
<1>9. ASSUME NEW s \in Session, RecvDecides(s) PROVE ReportersAreOwned'
    BY <1>9 DEF RecvDecides, MayReport
<1>10. ASSUME NEW s \in Session, RecvBeginsTeardown(s) PROVE ReportersAreOwned'
    BY <1>10 DEF RecvBeginsTeardown
<1>11. ASSUME NEW s \in Session, RecvCloses(s) PROVE ReportersAreOwned'
    BY <1>11 DEF RecvCloses, CloseSession
<1>12. ASSUME NEW s \in Session, NEW err \in Error, HelloFails(s, err) PROVE ReportersAreOwned'
    BY <1>12 DEF HelloFails, Posted
<1>13. ASSUME NEW s \in Session, NEW err \in Error, RecvNotifies(s, err) PROVE ReportersAreOwned'
    BY <1>13 DEF RecvNotifies, Posted
<1>14. ASSUME NEW err \in Error, LoopTearsDown(err) PROVE ReportersAreOwned'
    BY <1>14 DEF LoopTearsDown, CloseSession, Posted
<1>15. CASE FutureIsSet
    BY <1>15 DEF FutureIsSet, Runs
<1>16. CASE ConnectGoesOn
    BY <1>16 DEF ConnectGoesOn, Runs
<1>17. CASE ConnectAnnounces
    BY <1>17 DEF ConnectAnnounces, Emitted, Posted
<1>18. CASE ConnectRaises
    BY <1>18 DEF ConnectRaises, Runs
<1>19. CASE CloseLate
    BY <1>19 DEF CloseLate, Runs, CloseSession
<1>20. CASE CloseEnds
    BY <1>20 DEF CloseEnds, Runs, Emitted, Posted
<1>21. CASE SessionDisconnected
    BY <1>21 DEF SessionDisconnected, Runs, Emitted, Posted, EventFor
<1>22. CASE EventDelivered
    BY <1>22 DEF EventDelivered, Runs
<1>23. CASE Cancel
    BY <1>23 DEF Cancel, Posted
<1>24. CASE Close
    BY <1>24 DEF Close
<1>25. CASE CloserCloses
    BY <1>25 DEF CloserCloses, CloseSession
<1>26. CASE CloserReturns
    BY <1>26 DEF CloserReturns, Posted, Joined
<1> HIDE DEF TypeOK, LifecycleInv, OneCall, ReportersAreOwned, ReportsComeFirst, ResultsAreFinal,
             LastWord, Owned, MayStillReport, Alive, Reported
<1> QED BY <1>1, <1>2, <1>3, <1>4, <1>5, <1>6, <1>7, <1>8, <1>9, <1>10, <1>11, <1>12, <1>13,
           <1>14, <1>15, <1>16, <1>17, <1>18, <1>19, <1>20, <1>21, <1>22, <1>23, <1>24, <1>25, <1>26
        DEF Next, HelloEnds, RecvGoesOn, LoopGoesOn, Error

\* A callback that ends, and at most posts an event, leaves the others in their order.
LEMMA EventFollows ==
    ASSUME posts \in Seq(Post), posts # <<>>,
           \/ posts' = Tail(posts)
           \/ \E e : posts' = Append(Tail(posts), Emitted(e))
    PROVE  \A i \in 1 .. Len(posts') :
              \/ posts'[i].kind = "event"
              \/ i + 1 \in 1 .. Len(posts) /\ posts'[i] = posts[i + 1]
<1>1. /\ Tail(posts) \in Seq(Post) /\ Len(Tail(posts)) = Len(posts) - 1 /\ Len(posts) \in Nat
      /\ \A i \in 1 .. Len(Tail(posts)) : i + 1 \in 1 .. Len(posts) /\ Tail(posts)[i] = posts[i + 1]
    OBVIOUS
<1>2. CASE posts' = Tail(posts)
    BY <1>1, <1>2
<1>3. ASSUME NEW e, posts' = Append(Tail(posts), Emitted(e))
      PROVE  \A i \in 1 .. Len(posts') :
                \/ posts'[i].kind = "event"
                \/ i \in 1 .. Len(Tail(posts)) /\ posts'[i] = Tail(posts)[i]
  <2> DEFINE q == Tail(posts)
             f == Emitted(e)
  <2>1. f.kind = "event"
      BY DEF Emitted, Posted
  <2>2. q \in Seq(Post) /\ posts' = Append(q, f)
      BY <1>1, <1>3
  <2> HIDE DEF q, f
  <2>3. q \in Seq(Post \cup {f})
      BY <2>2
  <2>4. /\ Len(q) \in Nat /\ Len(posts') = Len(q) + 1 /\ posts'[Len(q) + 1] = f
        /\ \A i \in 1 .. Len(q) : posts'[i] = q[i]
      BY <2>2, <2>3
  <2> QED BY <2>1, <2>4 DEF q
<1> QED BY <1>1, <1>2, <1>3

\* Such a callback keeps the order, if it leaves the sessions alone.
LEMMA EventKeepsOrder ==
    ASSUME ReportsComeFirst, UNCHANGED <<threads, sess>>, Len(posts) \in Nat, Len(posts') \in Nat,
           \A i \in 1 .. Len(posts') :
              \/ posts'[i].kind = "event"
              \/ i + 1 \in 1 .. Len(posts) /\ posts'[i] = posts[i + 1]
    PROVE  ReportsComeFirst'
<1> SUFFICES ASSUME NEW i \in 1 .. Len(posts'),
                    \/ posts'[i].kind \in {"closeDone", "closeWakes"}
                    \/ posts'[i].kind \in {"connectDone", "connectWakes"} /\ posts'[i].why = "failed"
             PROVE  LastWord(i)'
    BY DEF ReportsComeFirst
<1>0. PICK s : s = posts'[i].session
    OBVIOUS
<1>1. i + 1 \in 1 .. Len(posts) /\ posts'[i] = posts[i + 1]
    OBVIOUS
<1>2. LastWord(i + 1)
    BY <1>1 DEF ReportsComeFirst
<1>3. ~Alive(s)' /\ ~(phase'[s] = "active" /\ ~handled'[s])
    BY <1>0, <1>1, <1>2 DEF LastWord, Alive, threads, sess
<1>4. ASSUME NEW j \in 1 .. Len(posts'), Reported(j, s)' PROVE j < i
  <2>1. j + 1 \in 1 .. Len(posts) /\ Reported(j + 1, s)
      BY <1>4 DEF Reported
  <2> QED BY <1>0, <1>1, <1>2, <2>1 DEF LastWord
<1> QED BY <1>0, <1>3, <1>4 DEF LastWord

\* A session reports before the thread that ends it returns.
LEMMA OrderKept ==
    ASSUME TypeOK, LifecycleInv, Next
    PROVE  ReportsComeFirst'
<1> USE DEF TypeOK, LifecycleInv, kernel, calls, threads, sess, app, LoopIsFree,
            OneCall, ReportsComeFirst, ResultsAreFinal, LastWord, Alive, Reported
<1>1. ASSUME NEW s \in Session, Connect(s) PROVE ReportsComeFirst'
    BY <1>1, ThreadPosts DEF Connect
<1>2. ASSUME NEW s \in Session, ConnectRefusedByTcp(s) PROVE ReportsComeFirst'
    BY <1>2 DEF ConnectRefusedByTcp
<1>3. ASSUME NEW s \in Session, HelloDies(s) PROVE ReportsComeFirst'
    BY <1>3 DEF HelloDies
<1>4. ASSUME NEW s \in Session, HelloSucceeds(s) PROVE ReportsComeFirst'
    BY <1>4 DEF HelloSucceeds
<1>5. ASSUME NEW s \in Session, WorkerReturns(s) PROVE ReportsComeFirst'
    BY <1>5 DEF WorkerReturns, Posted
<1>6. ASSUME NEW s \in Session, LinkBreaks(s) PROVE ReportsComeFirst'
    BY <1>6 DEF LinkBreaks
<1>7. ASSUME NEW s \in Session, RecvFails(s) PROVE ReportsComeFirst'
    BY <1>7 DEF RecvFails
<1>8. ASSUME NEW s \in Session, RecvStops(s) PROVE ReportsComeFirst'
    BY <1>8 DEF RecvStops, MayReport
<1>9. ASSUME NEW s \in Session, RecvDecides(s) PROVE ReportsComeFirst'
    BY <1>9 DEF RecvDecides, MayReport
<1>10. ASSUME NEW s \in Session, RecvBeginsTeardown(s) PROVE ReportsComeFirst'
    BY <1>10 DEF RecvBeginsTeardown
<1>11. ASSUME NEW s \in Session, RecvCloses(s) PROVE ReportsComeFirst'
    BY <1>11 DEF RecvCloses, CloseSession
<1>12. ASSUME NEW s \in Session, NEW err \in Error, HelloFails(s, err) PROVE ReportsComeFirst'
    BY <1>12 DEF HelloFails, Posted
<1>13. ASSUME NEW s \in Session, NEW err \in Error, RecvNotifies(s, err) PROVE ReportsComeFirst'
    BY <1>13 DEF RecvNotifies, Posted
<1>14. ASSUME NEW err \in Error, LoopTearsDown(err) PROVE ReportsComeFirst'
    BY <1>14 DEF LoopTearsDown, CloseSession, Posted
<1>15. CASE FutureIsSet
    BY <1>15 DEF FutureIsSet, Runs
<1>16. CASE ConnectGoesOn
    BY <1>16 DEF ConnectGoesOn, Runs, MayStillReport
<1>17. CASE ConnectAnnounces
    BY <1>17 DEF ConnectAnnounces, Emitted, Posted
<1>18. CASE ConnectRaises
    BY <1>18 DEF ConnectRaises, Runs
<1>19. CASE CloseLate
    BY <1>19 DEF CloseLate, Runs, CloseSession
<1>20. CASE CloseEnds
  <2>1. UNCHANGED <<threads, sess>> /\ posts \in Seq(Post) /\ posts # <<>>
      BY <1>20 DEF CloseEnds, Runs
  <2>2. posts' = Append(Tail(posts), Emitted("closed"))
      BY <1>20 DEF CloseEnds
  <2>3. Len(posts) \in Nat /\ Len(posts') \in Nat
      BY <2>1, <2>2
  <2> HIDE DEF ReportsComeFirst
  <2> QED BY <2>1, <2>2, <2>3, EventFollows, EventKeepsOrder
<1>21. CASE SessionDisconnected
  <2>1. UNCHANGED <<threads, sess>> /\ posts \in Seq(Post) /\ posts # <<>>
      BY <1>21 DEF SessionDisconnected, Runs
  <2>2. posts' = Tail(posts) \/ \E e : posts' = Append(Tail(posts), Emitted(e))
      BY <1>21, <2>1 DEF SessionDisconnected
  <2>3. Len(posts) \in Nat /\ Len(posts') \in Nat
      BY <2>1, <2>2
  <2> HIDE DEF ReportsComeFirst
  <2> QED BY <2>1, <2>2, <2>3, EventFollows, EventKeepsOrder
<1>22. CASE EventDelivered
    BY <1>22 DEF EventDelivered, Runs
<1>23. CASE Cancel
    BY <1>23 DEF Cancel, Posted
<1>24. CASE Close
    BY <1>24 DEF Close
<1>25. CASE CloserCloses
    BY <1>25 DEF CloserCloses, CloseSession
<1>26. CASE CloserReturns
    BY <1>26 DEF CloserReturns, Posted, Joined
<1> HIDE DEF TypeOK, LifecycleInv, OneCall, ReportsComeFirst, ResultsAreFinal, LastWord, Alive, Reported
<1> QED BY <1>1, <1>2, <1>3, <1>4, <1>5, <1>6, <1>7, <1>8, <1>9, <1>10, <1>11, <1>12, <1>13,
           <1>14, <1>15, <1>16, <1>17, <1>18, <1>19, <1>20, <1>21, <1>22, <1>23, <1>24, <1>25, <1>26
        DEF Next, HelloEnds, RecvGoesOn, LoopGoesOn, Error

\* Results are posted last, and closes once.
LEMMA ResultsKept ==
    ASSUME TypeOK, LifecycleInv, Next
    PROVE  ResultsAreFinal'
<1> USE DEF TypeOK, LifecycleInv, kernel, calls, threads, sess, app, LoopIsFree,
            OneCall, ResultsAreFinal
<1>1. ASSUME NEW s \in Session, Connect(s) PROVE ResultsAreFinal'
    BY <1>1, ThreadPosts DEF Connect
<1>2. ASSUME NEW s \in Session, ConnectRefusedByTcp(s) PROVE ResultsAreFinal'
    BY <1>2 DEF ConnectRefusedByTcp
<1>3. ASSUME NEW s \in Session, HelloDies(s) PROVE ResultsAreFinal'
    BY <1>3 DEF HelloDies
<1>4. ASSUME NEW s \in Session, HelloSucceeds(s) PROVE ResultsAreFinal'
    BY <1>4 DEF HelloSucceeds
<1>5. ASSUME NEW s \in Session, WorkerReturns(s) PROVE ResultsAreFinal'
    BY <1>5 DEF WorkerReturns, Posted
<1>6. ASSUME NEW s \in Session, LinkBreaks(s) PROVE ResultsAreFinal'
    BY <1>6 DEF LinkBreaks
<1>7. ASSUME NEW s \in Session, RecvFails(s) PROVE ResultsAreFinal'
    BY <1>7 DEF RecvFails
<1>8. ASSUME NEW s \in Session, RecvStops(s) PROVE ResultsAreFinal'
    BY <1>8 DEF RecvStops, MayReport
<1>9. ASSUME NEW s \in Session, RecvDecides(s) PROVE ResultsAreFinal'
    BY <1>9 DEF RecvDecides, MayReport
<1>10. ASSUME NEW s \in Session, RecvBeginsTeardown(s) PROVE ResultsAreFinal'
    BY <1>10 DEF RecvBeginsTeardown
<1>11. ASSUME NEW s \in Session, RecvCloses(s) PROVE ResultsAreFinal'
    BY <1>11 DEF RecvCloses, CloseSession
<1>12. ASSUME NEW s \in Session, NEW err \in Error, HelloFails(s, err) PROVE ResultsAreFinal'
    BY <1>12 DEF HelloFails, Posted
<1>13. ASSUME NEW s \in Session, NEW err \in Error, RecvNotifies(s, err) PROVE ResultsAreFinal'
    BY <1>13 DEF RecvNotifies, Posted
<1>14. ASSUME NEW err \in Error, LoopTearsDown(err) PROVE ResultsAreFinal'
    BY <1>14 DEF LoopTearsDown, CloseSession, Posted
<1>15. CASE FutureIsSet
    BY <1>15 DEF FutureIsSet, Runs
<1>16. CASE ConnectGoesOn
    BY <1>16 DEF ConnectGoesOn, Runs, MayStillReport, Alive, Reported
<1>17. CASE ConnectAnnounces
    BY <1>17 DEF ConnectAnnounces, Emitted, Posted
<1>18. CASE ConnectRaises
    BY <1>18 DEF ConnectRaises, Runs
<1>19. CASE CloseLate
    BY <1>19 DEF CloseLate, Runs, CloseSession
<1>20. CASE CloseEnds
    BY SMTT(40), <1>20, ThreadPosts DEF CloseEnds, Runs, Emitted, Posted
<1>21. CASE SessionDisconnected
    BY SMTT(40), <1>21 DEF SessionDisconnected, Runs, Emitted, Posted, EventFor
<1>22. CASE EventDelivered
    BY <1>22 DEF EventDelivered, Runs
<1>23. CASE Cancel
    BY <1>23 DEF Cancel, Posted
<1>24. CASE Close
    BY <1>24, ThreadPosts DEF Close
<1>25. CASE CloserCloses
    BY <1>25 DEF CloserCloses, CloseSession
<1>26. CASE CloserReturns
    BY <1>26 DEF CloserReturns, Posted, Joined
<1> HIDE DEF TypeOK, LifecycleInv, OneCall, ResultsAreFinal
<1> QED BY <1>1, <1>2, <1>3, <1>4, <1>5, <1>6, <1>7, <1>8, <1>9, <1>10, <1>11, <1>12, <1>13,
           <1>14, <1>15, <1>16, <1>17, <1>18, <1>19, <1>20, <1>21, <1>22, <1>23, <1>24, <1>25, <1>26
        DEF Next, HelloEnds, RecvGoesOn, LoopGoesOn, Error

\* Every step keeps the inductive invariant.
LEMMA StepKeepsInv ==
    ASSUME TypeOK, LifecycleInv, [Next]_vars
    PROVE  LifecycleInv'
<1>1. CASE UNCHANGED vars
    BY <1>1 DEF vars, kernel, calls, threads, sess, app, LifecycleInv, OneCall, ReportersAreOwned,
                ReportsComeFirst, ResultsAreFinal, LastWord, Owned, MayStillReport, Alive, Reported
<1>2. CASE Next
    BY <1>2, OneCallKept, OwnersKept, OrderKept, ResultsKept DEF LifecycleInv
<1> QED BY <1>1, <1>2

\* The invariant about who may still report (calls, reports in the order of their posting, results
\* after reports) holds in every reachable state, for any number of connects.
THEOREM InvHolds == Spec => []LifecycleInv
<1>1. Init => LifecycleInv
    BY DEF Init, LifecycleInv, OneCall, ReportersAreOwned, ReportsComeFirst, ResultsAreFinal,
           LastWord, Owned, MayStillReport, Alive, Reported, Session, None
<1> QED BY <1>1, StepKeepsInv, TypeCorrect, PTL DEF Spec

-----------------------------------------------------------------------------
(* The property *)

\* What a session reports changes the state of the kernel only if it is the current session, or
\* one that was let go before it was heard.
THEOREM StrangersDisowned == Spec => StrangersAreDisowned
<1>1. ASSUME TypeOK, LifecycleInv, SessionDisconnected, connected' # connected
      PROVE  Head(posts).session \in {current} \cup disowned
    <2>1. connected /\ call = None /\ closer = None
        BY <1>1 DEF SessionDisconnected, TypeOK, LifecycleInv, OneCall
    <2>2. 1 \in 1 .. Len(posts) /\ Reported(1, Head(posts).session)
        BY <1>1 DEF SessionDisconnected, Runs, Reported, TypeOK
    <2>3. Head(posts).session \in Session
        BY <1>1, <2>2, ThreadPosts DEF Reported
    <2>4. Owned(Head(posts).session)
        BY <1>1, <2>2, <2>3 DEF LifecycleInv, ReportersAreOwned, MayStillReport
    <2> QED BY <2>1, <2>3, <2>4, ThreadPosts, <1>1 DEF Owned
<1>2. TypeOK /\ LifecycleInv =>
      [SessionDisconnected /\ connected' # connected =>
          Head(posts).session \in {current} \cup disowned]_vars
    BY <1>1
<1> QED BY <1>2, TypeCorrect, InvHolds, PTL DEF StrangersAreDisowned

-----------------------------------------------------------------------------
(* The connection events on their way to the application, in order: the      *)
(* application was told t last, and q is what the loop still has to do.       *)

IsEvent(q, i) == i = 0 \/ q[i].kind = "event"
Said(q, t, i) == IF i = 0 THEN t ELSE q[i].why

\* After the event i the next one is j.
NextEvent(q, i, j) ==
    i < j /\ IsEvent(q, i) /\ IsEvent(q, j) /\ \A k \in i + 1 .. j - 1 : ~IsEvent(q, k)
LastEvent(q, i) == IsEvent(q, i) /\ \A k \in i + 1 .. Len(q) : ~IsEvent(q, k)

\* A loss follows "up", and "up" follows something else.
Follows(w, v) == (w = "lost" => v = "up") /\ (w = "up" => v # "up")
Alternates(q, t) ==
    \A i, j \in 0 .. Len(q) : NextEvent(q, i, j) => Follows(Said(q, t, j), Said(q, t, i))

\* What the application will have been told in the end is one of W.
EndsIn(q, t, W) == \A i \in 0 .. Len(q) : LastEvent(q, i) => Said(q, t, i) \in W

\* The events alternate, and the last of them is "up" exactly while the kernel is connected; until
\* close() ends, its own event is still to come.
Words == Event \cup {"none"}
EventsInOrder ==
    /\ Alternates(posts, told)
    /\ connected => EndsIn(posts, told, {"up"})
    /\ ~connected /\ closer = None => EndsIn(posts, told, Words \ {"up"})

\* A callback that is not an event comes and goes without a trace in what the application is told.
LEMMA EventsBehindOther ==
    ASSUME NEW q \in Seq(Post), q # <<>>, Head(q).kind # "event", NEW t, NEW W
    PROVE  /\ Alternates(q, t) => Alternates(Tail(q), t)
           /\ EndsIn(q, t, W) => EndsIn(Tail(q), t, W)
<1> DEFINE r == Tail(q)
           S(i) == IF i = 0 THEN 0 ELSE i + 1
<1>1. r \in Seq(Post) /\ Len(q) \in Nat /\ Len(r) = Len(q) - 1 /\ Len(q) > 0
      /\ \A i \in 1 .. Len(r) : r[i] = q[i + 1]
    OBVIOUS
<1>2. ~IsEvent(q, 1)
    BY <1>1 DEF IsEvent
<1>3. \A i \in 0 .. Len(r) : /\ S(i) \in 0 .. Len(q)
                             /\ IsEvent(r, i) <=> IsEvent(q, S(i))
                             /\ Said(r, t, i) = Said(q, t, S(i))
    BY <1>1 DEF IsEvent, Said
<1> HIDE DEF r
<1>4. \A i \in 0 .. Len(r), n \in 0 .. Len(r) :
          (\A k \in i + 1 .. n : ~IsEvent(r, k)) => \A k \in S(i) + 1 .. n + 1 : ~IsEvent(q, k)
    <2> SUFFICES ASSUME NEW i \in 0 .. Len(r), NEW n \in 0 .. Len(r),
                        \A k \in i + 1 .. n : ~IsEvent(r, k),
                        NEW k \in S(i) + 1 .. n + 1
                 PROVE  ~IsEvent(q, k)
        OBVIOUS
    <2>1. CASE k = 1
        BY <2>1, <1>2
    <2>2. CASE k # 1
        <3>1. k - 1 \in i + 1 .. n /\ k - 1 \in 0 .. Len(r) /\ S(k - 1) = k
            BY <2>2, <1>1
        <3> QED BY <3>1, <1>3
    <2> QED BY <2>1, <2>2
<1>5. ASSUME Alternates(q, t) PROVE Alternates(r, t)
    <2> SUFFICES ASSUME NEW i \in 0 .. Len(r), NEW j \in 0 .. Len(r), NextEvent(r, i, j)
                 PROVE  Follows(Said(r, t, j), Said(r, t, i))
        BY DEF Alternates
    <2>1. j - 1 \in 0 .. Len(r) /\ S(i) < S(j) /\ S(j) = j + 1 /\ S(j) - 1 = (j - 1) + 1
        BY <1>1 DEF NextEvent
    <2>2. NextEvent(q, S(i), S(j))
        BY <2>1, <1>3, <1>4 DEF NextEvent
    <2> QED BY <2>2, <1>3, <1>5 DEF Alternates
<1>6. ASSUME EndsIn(q, t, W) PROVE EndsIn(r, t, W)
    <2> SUFFICES ASSUME NEW i \in 0 .. Len(r), LastEvent(r, i)
                 PROVE  Said(r, t, i) \in W
        BY DEF EndsIn
    <2>1. Len(r) \in 0 .. Len(r) /\ Len(q) = Len(r) + 1
        BY <1>1
    <2>2. LastEvent(q, S(i))
        BY <2>1, <1>3, <1>4 DEF LastEvent
    <2> QED BY <2>2, <1>3, <1>6 DEF EndsIn
<1> QED BY <1>5, <1>6 DEF r

\* The application is given the next event.
LEMMA EventsBehindEvent ==
    ASSUME NEW q \in Seq(Post), q # <<>>, Head(q).kind = "event", NEW t, NEW W
    PROVE  /\ Alternates(q, t) => Alternates(Tail(q), Head(q).why) /\ Follows(Head(q).why, t)
           /\ EndsIn(q, t, W) => EndsIn(Tail(q), Head(q).why, W)
<1> DEFINE r == Tail(q)
           u == Head(q).why
<1>1. r \in Seq(Post) /\ Len(q) \in Nat /\ Len(r) = Len(q) - 1 /\ Len(q) > 0
      /\ q[1].kind = "event" /\ q[1].why = u
      /\ \A i \in 1 .. Len(r) : r[i] = q[i + 1]
    OBVIOUS
<1> HIDE DEF r, u
<1>2. \A i \in 0 .. Len(r) : /\ i + 1 \in 0 .. Len(q)
                             /\ IsEvent(r, i) <=> IsEvent(q, i + 1)
                             /\ Said(r, u, i) = Said(q, t, i + 1)
    BY <1>1 DEF IsEvent, Said
<1>3. \A i \in 0 .. Len(r), n \in 0 .. Len(r) :
          (\A k \in i + 1 .. n : ~IsEvent(r, k)) => \A k \in i + 2 .. n + 1 : ~IsEvent(q, k)
    <2> SUFFICES ASSUME NEW i \in 0 .. Len(r), NEW n \in 0 .. Len(r),
                        \A k \in i + 1 .. n : ~IsEvent(r, k),
                        NEW k \in i + 2 .. n + 1
                 PROVE  ~IsEvent(q, k)
        OBVIOUS
    <2>1. k - 1 \in i + 1 .. n /\ k - 1 \in 0 .. Len(r) /\ (k - 1) + 1 = k
        BY <1>1
    <2> QED BY <2>1, <1>2
<1>4. ASSUME Alternates(q, t) PROVE Alternates(r, u) /\ Follows(u, t)
    <2>1. NextEvent(q, 0, 1) /\ 0 \in 0 .. Len(q) /\ 1 \in 0 .. Len(q)
        BY <1>1 DEF NextEvent, IsEvent
    <2>2. Follows(u, t)
        BY <2>1, <1>1, <1>4 DEF Alternates, Said
    <2>3. ASSUME NEW i \in 0 .. Len(r), NEW j \in 0 .. Len(r), NextEvent(r, i, j)
          PROVE  Follows(Said(r, u, j), Said(r, u, i))
        <3>1. j - 1 \in 0 .. Len(r) /\ i + 1 < j + 1 /\ (j + 1) - 1 = (j - 1) + 1 /\ (i + 1) + 1 = i + 2
            BY <2>3, <1>1 DEF NextEvent
        <3>2. NextEvent(q, i + 1, j + 1)
            BY <3>1, <2>3, <1>2, <1>3 DEF NextEvent
        <3> QED BY <3>2, <1>2, <1>4 DEF Alternates
    <2> QED BY <2>2, <2>3 DEF Alternates
<1>5. ASSUME EndsIn(q, t, W) PROVE EndsIn(r, u, W)
    <2> SUFFICES ASSUME NEW i \in 0 .. Len(r), LastEvent(r, i)
                 PROVE  Said(r, u, i) \in W
        BY DEF EndsIn
    <2>1. Len(r) \in 0 .. Len(r) /\ Len(q) = Len(r) + 1 /\ (i + 1) + 1 = i + 2
        BY <1>1
    <2>2. LastEvent(q, i + 1)
        BY <2>1, <1>2, <1>3 DEF LastEvent
    <2> QED BY <2>2, <1>2, <1>5 DEF EndsIn
<1> QED BY <1>4, <1>5 DEF r, u

\* A callback is posted: an event must follow the last one.
LEMMA EventsAndOne ==
    ASSUME NEW q \in Seq(Post), NEW p \in Post, NEW t, NEW W
    PROVE  /\ p.kind # "event" /\ Alternates(q, t) => Alternates(Append(q, p), t)
           /\ p.kind # "event" /\ EndsIn(q, t, W) => EndsIn(Append(q, p), t, W)
           /\ p.kind = "event" => EndsIn(Append(q, p), t, {p.why})
           /\ p.kind = "event" /\ Alternates(q, t) /\ EndsIn(q, t, W)
              /\ (\A w \in W : Follows(p.why, w)) => Alternates(Append(q, p), t)
<1> DEFINE r == Append(q, p)
           n == Len(q) + 1
<1>1. r \in Seq(Post) /\ Len(q) \in Nat /\ Len(r) = n /\ n > 0 /\ n \in Nat /\ r[n] = p
      /\ \A i \in 1 .. Len(q) : r[i] = q[i]
    OBVIOUS
<1>2. \A i \in 0 .. Len(r) : i \in 0 .. Len(q) \/ i = n
    BY <1>1
<1>3. \A i \in 0 .. Len(q) : /\ i \in 0 .. Len(r) /\ i # n
                             /\ IsEvent(r, i) <=> IsEvent(q, i)
                             /\ Said(r, t, i) = Said(q, t, i)
    BY <1>1 DEF IsEvent, Said
<1>4. (IsEvent(r, n) <=> p.kind = "event") /\ Said(r, t, n) = p.why /\ n \in 0 .. Len(r)
    BY <1>1 DEF IsEvent, Said
<1> HIDE DEF r
<1>5. ASSUME NEW i \in 0 .. Len(q), NEW j \in 0 .. Len(q), NextEvent(r, i, j)
      PROVE  NextEvent(q, i, j)
    BY <1>5, <1>1, <1>3 DEF NextEvent
<1>6. ASSUME NEW i \in 0 .. Len(q), NextEvent(r, i, n) \/ (p.kind # "event" /\ LastEvent(r, i))
      PROVE  LastEvent(q, i)
    BY <1>6, <1>1, <1>3 DEF NextEvent, LastEvent
<1>7. ASSUME p.kind # "event", Alternates(q, t) PROVE Alternates(r, t)
    <2> SUFFICES ASSUME NEW i \in 0 .. Len(r), NEW j \in 0 .. Len(r), NextEvent(r, i, j)
                 PROVE  Follows(Said(r, t, j), Said(r, t, i))
        BY DEF Alternates
    <2>1. i \in 0 .. Len(q) /\ j \in 0 .. Len(q)
        BY <1>2, <1>4, <1>7 DEF NextEvent
    <2> QED BY <2>1, <1>3, <1>5, <1>7 DEF Alternates
<1>8. ASSUME p.kind # "event", EndsIn(q, t, W) PROVE EndsIn(r, t, W)
    <2> SUFFICES ASSUME NEW i \in 0 .. Len(r), LastEvent(r, i)
                 PROVE  Said(r, t, i) \in W
        BY DEF EndsIn
    <2>1. i \in 0 .. Len(q)
        BY <1>2, <1>4, <1>8 DEF LastEvent
    <2> QED BY <2>1, <1>3, <1>6, <1>8 DEF EndsIn
<1>9. ASSUME p.kind = "event" PROVE EndsIn(r, t, {p.why})
    <2> SUFFICES ASSUME NEW i \in 0 .. Len(r), LastEvent(r, i)
                 PROVE  Said(r, t, i) = p.why
        BY DEF EndsIn
    <2>1. i = n
        <3> SUFFICES ASSUME i # n PROVE FALSE
            OBVIOUS
        <3>1. i \in 0 .. Len(q) /\ n \in i + 1 .. Len(r)
            BY <1>1, <1>2
        <3> QED BY <3>1, <1>4, <1>9 DEF LastEvent
    <2> QED BY <2>1, <1>4
<1>10. ASSUME p.kind = "event", Alternates(q, t), EndsIn(q, t, W), \A w \in W : Follows(p.why, w)
       PROVE  Alternates(r, t)
    <2> SUFFICES ASSUME NEW i \in 0 .. Len(r), NEW j \in 0 .. Len(r), NextEvent(r, i, j)
                 PROVE  Follows(Said(r, t, j), Said(r, t, i))
        BY DEF Alternates
    <2>1. i \in 0 .. Len(q)
        BY <1>1, <1>2 DEF NextEvent
    <2>2. CASE j = n
        BY <2>1, <2>2, <1>3, <1>4, <1>6, <1>10 DEF EndsIn
    <2>3. CASE j \in 0 .. Len(q)
        BY <2>1, <2>3, <1>3, <1>5, <1>10 DEF Alternates
    <2> QED BY <2>2, <2>3, <1>2
<1> QED BY <1>7, <1>8, <1>9, <1>10 DEF r

\* What an action does to the loop's queue without a word to the application.
NothingSaid ==
    /\ told' = told /\ connected' = connected /\ closer' = closer
    /\ \/ posts' = posts
       \/ \E p \in Post : p.kind # "event" /\ posts' = Append(posts, p)
       \/ posts # <<>> /\ Head(posts).kind # "event" /\ posts' = Tail(posts)
       \/ \E p \in Post : /\ posts # <<>> /\ Head(posts).kind # "event" /\ p.kind # "event"
                          /\ posts' = Append(Tail(posts), p)

LEMMA SilenceKeepsOrder ==
    ASSUME TypeOK, EventsInOrder, NothingSaid
    PROVE  EventsInOrder'
<1>1. posts \in Seq(Post) /\ (posts # <<>> => Tail(posts) \in Seq(Post))
    BY HeadIsPost DEF TypeOK
<1> DEFINE Kept == \A t : /\ Alternates(posts, t) => Alternates(posts', t)
                         /\ \A W : EndsIn(posts, t, W) => EndsIn(posts', t, W)
<1>2. Kept
    <2>1. CASE posts' = posts
        BY <2>1
    <2>2. ASSUME NEW p \in Post, p.kind # "event", posts' = Append(posts, p)
          PROVE  Kept
        BY <2>2, <1>1, EventsAndOne
    <2>3. CASE posts # <<>> /\ Head(posts).kind # "event" /\ posts' = Tail(posts)
        BY <2>3, <1>1, EventsBehindOther
    <2>4. ASSUME NEW p \in Post, posts # <<>>, Head(posts).kind # "event", p.kind # "event",
                 posts' = Append(Tail(posts), p)
          PROVE  Kept
        <3> DEFINE q == Tail(posts)
        <3>1. \A t : /\ Alternates(posts, t) => Alternates(q, t)
                     /\ \A W : EndsIn(posts, t, W) => EndsIn(q, t, W)
            BY <2>4, <1>1, EventsBehindOther
        <3>2. q \in Seq(Post) /\ posts' = Append(q, p)
            BY <2>4, <1>1
        <3> HIDE DEF q
        <3> QED BY <3>1, <3>2, <2>4, EventsAndOne
    <2> QED BY <2>1, <2>2, <2>3, <2>4 DEF NothingSaid
<1> QED BY <1>2 DEF EventsInOrder, NothingSaid

\* Most actions say nothing.
LEMMA MostSayNothing ==
    ASSUME TypeOK, Next
    PROVE  \/ NothingSaid \/ Close \/ ConnectAnnounces \/ CloseEnds \/ SessionDisconnected
           \/ EventDelivered
<1> USE DEF kernel, calls, threads, sess, app
<1>0. \A s \in Session : /\ \A err \in Error : Posted("disconnected", s, err) \in Post
                         /\ \A w \in {"ok", "failed"} : Posted("connectDone", s, w) \in Post
                         /\ Posted("closeDone", s, "ok") \in Post
                         /\ Posted("closeLate", s, "ok") \in Post
    BY PostedIsPost
<1>1. \A k, s, w : Posted(k, s, w).kind = k
    BY DEF Posted
<1>2. ASSUME NEW s \in Session, Connect(s) PROVE NothingSaid
    BY <1>2 DEF Connect, NothingSaid
<1>3. ASSUME NEW s \in Session, HelloEnds(s) PROVE NothingSaid
    <2>1. ASSUME NEW err \in {"refused", "protocol"}, HelloFails(s, err) PROVE NothingSaid
        <3>1. Posted("disconnected", s, err) \in Post
            BY <1>0 DEF Error
        <3> QED BY <2>1, <3>1, <1>1 DEF HelloFails, NothingSaid
    <2> QED BY <1>3, <2>1
            DEF HelloEnds, ConnectRefusedByTcp, HelloDies, HelloSucceeds, NothingSaid
<1>4. ASSUME NEW s \in Session, WorkerReturns(s) PROVE NothingSaid
    <2>1. PICK p : /\ p = IF s \in cancelled THEN Posted("closeLate", s, "ok")
                                         ELSE Posted("connectDone", s, worker[s])
        OBVIOUS
    <2>2. p \in Post /\ p.kind # "event" /\ posts' = Append(posts, p)
        BY <1>0, <1>1, <1>4, <2>1 DEF WorkerReturns
    <2> QED BY <1>4, <2>2 DEF WorkerReturns, NothingSaid
<1>5. ASSUME NEW s \in Session, LinkBreaks(s) PROVE NothingSaid
    BY <1>5 DEF LinkBreaks, NothingSaid
<1>6. ASSUME NEW s \in Session, RecvGoesOn(s) PROVE NothingSaid
    <2>1. ASSUME NEW err \in {"io", "protocol"}, RecvNotifies(s, err) PROVE NothingSaid
        <3>1. Posted("disconnected", s, err) \in Post
            BY <1>0 DEF Error
        <3> QED BY <2>1, <3>1, <1>1 DEF RecvNotifies, NothingSaid
    <2> QED BY <1>6, <2>1 DEF RecvGoesOn, RecvFails, RecvStops, RecvDecides, RecvBeginsTeardown,
                               RecvCloses, NothingSaid
<1>7. CASE Cancel
    <2>1. call \in Session
        BY <1>7 DEF Cancel, TypeOK
    <2> QED BY <1>7, <2>1, <1>0, <1>1 DEF Cancel, NothingSaid
<1>8. CASE CloserCloses
    BY <1>8 DEF CloserCloses, NothingSaid
<1>9. CASE CloserReturns
    <2>1. closer \in Session
        BY <1>9 DEF CloserReturns, TypeOK
    <2> QED BY <1>9, <2>1, <1>0, <1>1 DEF CloserReturns, NothingSaid
<1>10. ASSUME NEW err \in {"io", "protocol"}, LoopTearsDown(err) PROVE NothingSaid
    <2>1. current \in Session /\ err \in Error
        BY <1>10 DEF LoopTearsDown, TypeOK, Error
    <2>2. Posted("disconnected", current, err) \in Post
        BY <2>1, <1>0
    <2> QED BY <1>10, <2>2, <1>1 DEF LoopTearsDown, NothingSaid
<1>11. CASE FutureIsSet
    <2>1. Head(posts) \in Post /\ Head(posts).kind \in {"connectDone", "closeDone"} /\ posts # <<>>
        BY <1>11, HeadIsPost DEF FutureIsSet, Runs, TypeOK
    <2>2. PICK p : p = [Head(posts) EXCEPT !.kind = IF Head(posts).kind = "connectDone"
                                                    THEN "connectWakes" ELSE "closeWakes"]
        OBVIOUS
    <2>3. p \in Post /\ p.kind # "event"
        BY <2>1, <2>2 DEF Post
    <2>4. posts' = Append(Tail(posts), p)
        BY <1>11, <2>2 DEF FutureIsSet
    <2> QED BY <1>11, <2>1, <2>3, <2>4 DEF FutureIsSet, NothingSaid
<1>12. CASE ConnectGoesOn
    BY <1>12 DEF ConnectGoesOn, Runs, NothingSaid
<1>13. CASE ConnectRaises
    BY <1>13 DEF ConnectRaises, Runs, NothingSaid
<1>14. CASE CloseLate
    BY <1>14 DEF CloseLate, Runs, NothingSaid
<1> QED BY <1>2, <1>3, <1>4, <1>5, <1>6, <1>7, <1>8, <1>9, <1>10, <1>11, <1>12, <1>13, <1>14
        DEF Next, LoopGoesOn

\* Every step keeps the events in order.
LEMMA StepKeepsOrder ==
    ASSUME TypeOK, LifecycleInv, EventsInOrder, [Next]_vars
    PROVE  EventsInOrder'
<1> USE DEF kernel, calls, threads, sess, app
<1>0. posts \in Seq(Post) /\ (posts # <<>> => Tail(posts) \in Seq(Post))
    BY HeadIsPost DEF TypeOK
<1>1. CASE UNCHANGED vars
    BY <1>1 DEF vars, EventsInOrder
<1>2. CASE NothingSaid
    BY <1>2, SilenceKeepsOrder
<1>3. CASE Close
    <2>1. UNCHANGED <<posts, told>> /\ ~connected' /\ closer' # None
        BY <1>3 DEF Close
    <2> QED BY <2>1 DEF EventsInOrder
<1>4. CASE ConnectAnnounces
    <2>1. ~connected /\ closer = None /\ connected' /\ told' = told
        BY <1>4 DEF ConnectAnnounces, LifecycleInv, OneCall
    <2>2. Emitted("up") \in Post /\ Emitted("up").kind = "event" /\ Emitted("up").why = "up"
        BY DEF Emitted, Posted, Post, Event
    <2>3. posts' = Append(posts, Emitted("up"))
        BY <1>4 DEF ConnectAnnounces
    <2>4. \A w \in Words \ {"up"} : Follows("up", w)
        BY DEF Follows
    <2>5. Alternates(posts', told) /\ EndsIn(posts', told, {"up"})
        BY <1>0, <2>1, <2>2, <2>3, <2>4, EventsAndOne DEF EventsInOrder
    <2> QED BY <2>1, <2>5 DEF EventsInOrder
<1>5. CASE CloseEnds
    <2>1. posts # <<>> /\ Head(posts).kind # "event" /\ told' = told /\ connected' = connected
        BY <1>5 DEF CloseEnds, Runs
    <2>2. ~connected
        <3>1. 1 \in 1 .. Len(posts) /\ posts[1].kind = "closeWakes"
            BY <1>5, <1>0 DEF CloseEnds, Runs
        <3>2. posts[1].session = closer /\ closer # None
            BY <3>1, ThreadPosts DEF LifecycleInv, ResultsAreFinal
        <3> QED BY <3>2 DEF LifecycleInv, OneCall
    <2>3. PICK p : p = Emitted("closed")
        OBVIOUS
    <2>4. p \in Post /\ p.kind = "event" /\ p.why = "closed"
        BY <2>3 DEF Emitted, Posted, Post, Event
    <2>5. PICK q : q = Tail(posts)
        OBVIOUS
    <2>6. q \in Seq(Post) /\ posts' = Append(q, p)
        BY <1>5, <2>1, <2>3, <2>5, <1>0 DEF CloseEnds
    <2>7. Alternates(q, told) /\ EndsIn(q, told, Words)
        <3>1. EndsIn(posts, told, Words)
            BY <1>0 DEF EndsIn, Said, IsEvent, LastEvent, TypeOK, Words, Post
        <3> QED BY <3>1, <2>1, <2>5, <1>0, EventsBehindOther DEF EventsInOrder
    <2>8. \A w \in Words : Follows("closed", w)
        BY DEF Follows
    <2>9. Alternates(posts', told) /\ EndsIn(posts', told, {"closed"})
        BY <2>4, <2>6, <2>7, <2>8, EventsAndOne
    <2>10. EndsIn(posts', told, Words \ {"up"})
        BY <2>9 DEF EndsIn, Words, Event
    <2> QED BY <2>1, <2>2, <2>9, <2>10 DEF EventsInOrder
<1>6. CASE SessionDisconnected
    <2> DEFINE err == Head(posts).why
               emits == ~Ignored(err) /\ (connected \/ err = "refused")
    <2>1. posts # <<>> /\ Head(posts).kind # "event" /\ told' = told /\ closer' = closer
        BY <1>6 DEF SessionDisconnected, Runs
    <2>2. connected' = (connected /\ Ignored(err))
        BY <1>6 DEF SessionDisconnected
    <2>3. PICK q : q = Tail(posts)
        OBVIOUS
    <2>4. q \in Seq(Post) /\ Alternates(q, told) /\ \A W : EndsIn(posts, told, W) => EndsIn(q, told, W)
        BY <2>1, <2>3, <1>0, EventsBehindOther DEF EventsInOrder
    <2>5. CASE ~emits
        <3>1. posts' = q
            BY <1>6, <2>3, <2>4, <2>5 DEF SessionDisconnected
        <3>2. connected' = connected
            BY <2>2, <2>5 DEF TypeOK
        <3> QED BY <3>1, <3>2, <2>1, <2>4 DEF EventsInOrder
    <2>6. CASE emits
        <3>1. PICK p : p = Emitted(EventFor(err))
            OBVIOUS
        <3>2. p \in Post /\ p.kind = "event" /\ p.why \in {"lost", "refused"}
              /\ (p.why = "lost" => connected)
            BY <3>1, <2>6 DEF Emitted, EventFor, Posted, Post, Event
        <3>3. posts' = Append(q, p)
            BY <1>6, <2>3, <2>4, <2>6, <3>1 DEF SessionDisconnected
        <3>4. ~connected' /\ closer = None
            BY <2>2, <2>6 DEF LifecycleInv, OneCall, Ignored
        <3>5. Alternates(posts', told)
            <4>1. PICK W : W = IF connected THEN {"up"} ELSE Words \ {"up"}
                OBVIOUS
            <4>2. EndsIn(q, told, W)
                BY <4>1, <2>4, <3>4 DEF EventsInOrder
            <4>3. \A w \in W : Follows(p.why, w)
                BY <4>1, <3>2 DEF Follows
            <4>4. Alternates(Append(q, p), told)
                BY <4>2, <4>3, <2>4, <3>2, EventsAndOne
            <4> QED BY <4>4, <3>3
        <3>6. EndsIn(posts', told, {p.why})
            BY <2>4, <3>2, <3>3, EventsAndOne
        <3>7. EndsIn(posts', told, Words \ {"up"})
            BY <3>2, <3>6 DEF EndsIn, Words, Event
        <3> QED BY <2>1, <3>4, <3>5, <3>7 DEF EventsInOrder
    <2> QED BY <2>5, <2>6
<1>7. CASE EventDelivered
    <2>1. /\ posts # <<>> /\ Head(posts).kind = "event" /\ posts' = Tail(posts)
          /\ told' = Head(posts).why /\ UNCHANGED <<connected, closer>>
        BY <1>7 DEF EventDelivered, Runs
    <2>2. Alternates(posts', told') /\ \A W : EndsIn(posts, told, W) => EndsIn(posts', told', W)
        BY <2>1, <1>0, EventsBehindEvent DEF EventsInOrder
    <2> QED BY <2>1, <2>2 DEF EventsInOrder
<1> QED BY <1>1, <1>2, <1>3, <1>4, <1>5, <1>6, <1>7, MostSayNothing

\* The events that wait for the application alternate, and end as the kernel says.
THEOREM OrderHolds == Spec => []EventsInOrder
<1>1. Init => EventsInOrder
    <2> SUFFICES ASSUME Init PROVE EventsInOrder
        OBVIOUS
    <2>1. posts = <<>> /\ told = "none" /\ ~connected
        BY DEF Init
    <2>2. \A i \in 0 .. Len(posts) : i = 0
        BY <2>1
    <2>3. Alternates(posts, told)
        BY <2>2 DEF Alternates, NextEvent
    <2>4. EndsIn(posts, told, Words \ {"up"})
        BY <2>1, <2>2 DEF EndsIn, Said, Words
    <2> QED BY <2>1, <2>3, <2>4 DEF EventsInOrder
<1> QED BY <1>1, StepKeepsOrder, TypeCorrect, InvHolds, PTL DEF Spec

\* The application is told of a lost link only after it was told that the link is up, and of
\* neither twice, for any number of connects, whichever of them are cancelled.
THEOREM EventsComeInPairs == Spec => EventsPair
<1>1. ASSUME TypeOK, EventsInOrder, Runs("event"), posts' = Tail(posts)
      PROVE  /\ Head(posts).why = "lost" => told = "up"
             /\ Head(posts).why = "up" => told # "up"
    <2>1. posts \in Seq(Post) /\ posts # <<>> /\ Head(posts).kind = "event"
        BY <1>1 DEF Runs, TypeOK
    <2> QED BY <1>1, <2>1, EventsBehindEvent DEF EventsInOrder, Follows
<1>2. TypeOK /\ EventsInOrder =>
      [Runs("event") /\ posts' = Tail(posts) =>
          /\ Head(posts).why = "lost" => told = "up"
          /\ Head(posts).why = "up" => told # "up"]_vars
    BY <1>1
<1> QED BY <1>2, TypeCorrect, OrderHolds, PTL DEF EventsPair

-----------------------------------------------------------------------------
(* What the kernel, its session and the application agree on *)

\* A session that reports has closed; a teardown that began and has not closed yet is the receive
\* thread's; the flag of the last close() does not outlive the next connect().
ClosedFirst ==
    /\ \A i \in 1 .. Len(posts) :
          posts[i].kind = "disconnected" => phase[posts[i].session] = "closed"
    /\ \A s \in Session :
          /\ phase[s] = "active" /\ handled[s] => recv[s] = "closing"
          /\ recv[s] = "notifying" => phase[s] = "closed"
          /\ phase[s] \in {"new", "hello"} => ~handled[s] /\ recv[s] = "none"
    /\ explicit => call = None /\ ~connected

\* The current session has closed, and the loop will hear of it.
LossIsComing ==
    recv[current] = "notifying" \/ \E i \in 1 .. Len(posts) : Reported(i, current)

\* As long as no connect() was given up: the kernel is connected, or about to be, exactly with a
\* current session that is ACTIVE or whose loss is on its way; no other session is ACTIVE but those
\* that a call is about.
FaithfulKernel ==
    disowned = {} =>
        /\ current # None /\ phase[current] = "active" => connected \/ announcing
        /\ connected \/ announcing =>
               current # None /\ (phase[current] = "active" \/ LossIsComing)
        /\ \A s \in Session : phase[s] = "active" => s \in {current, call, closer}

\* What ClosedFirst says of a session.
LEMMA TornDown ==
    ASSUME ClosedFirst, NEW s \in Session
    PROVE  /\ recv[s] = "notifying" => phase[s] = "closed"
           /\ ~Alive(s) /\ ~(phase[s] = "active" /\ ~handled[s]) => phase[s] # "active"
BY DEF ClosedFirst, Alive

\* Whoever reports has closed its session first.
LEMMA ClosedFirstKept ==
    ASSUME TypeOK, LifecycleInv, ClosedFirst, Next
    PROVE  ClosedFirst'
<1> USE DEF TypeOK, LifecycleInv, kernel, calls, threads, sess, app, LoopIsFree, OneCall, ResultsAreFinal, ClosedFirst
<1>1. ASSUME NEW s \in Session, Connect(s) PROVE ClosedFirst'
    BY <1>1, ThreadPosts DEF Connect
<1>2. ASSUME NEW s \in Session, ConnectRefusedByTcp(s) PROVE ClosedFirst'
    BY <1>2, ThreadPosts DEF ConnectRefusedByTcp
<1>3. ASSUME NEW s \in Session, HelloDies(s) PROVE ClosedFirst'
    BY <1>3, ThreadPosts DEF HelloDies
<1>4. ASSUME NEW s \in Session, HelloSucceeds(s) PROVE ClosedFirst'
    BY <1>4, ThreadPosts DEF HelloSucceeds
<1>5. ASSUME NEW s \in Session, WorkerReturns(s) PROVE ClosedFirst'
    BY <1>5, ThreadPosts DEF WorkerReturns, Posted
<1>6. ASSUME NEW s \in Session, LinkBreaks(s) PROVE ClosedFirst'
    BY <1>6, ThreadPosts DEF LinkBreaks
<1>7. ASSUME NEW s \in Session, RecvFails(s) PROVE ClosedFirst'
    BY <1>7, ThreadPosts DEF RecvFails
<1>8. ASSUME NEW s \in Session, RecvStops(s) PROVE ClosedFirst'
    BY <1>8, ThreadPosts DEF RecvStops, MayReport
<1>9. ASSUME NEW s \in Session, RecvDecides(s) PROVE ClosedFirst'
    BY <1>9, ThreadPosts DEF RecvDecides, MayReport
<1>10. ASSUME NEW s \in Session, RecvBeginsTeardown(s) PROVE ClosedFirst'
    BY <1>10, ThreadPosts DEF RecvBeginsTeardown
<1>11. ASSUME NEW s \in Session, RecvCloses(s) PROVE ClosedFirst'
    BY <1>11, ThreadPosts DEF RecvCloses, CloseSession
<1>12. ASSUME NEW s \in Session, NEW err \in Error, HelloFails(s, err) PROVE ClosedFirst'
    BY <1>12, ThreadPosts DEF HelloFails, Posted
<1>13. ASSUME NEW s \in Session, NEW err \in Error, RecvNotifies(s, err) PROVE ClosedFirst'
    <2>1. PICK p : p = Posted("disconnected", s, err)
        OBVIOUS
    <2>2. posts' = Append(posts, p) /\ phase' = phase /\ p.session = s /\ phase[s] = "closed"
          /\ p \in Post
        <3>1. posts' = Append(posts, p) /\ phase' = phase /\ recv[s] = "notifying"
            BY <1>13, <2>1 DEF RecvNotifies
        <3>2. p.session = s /\ p \in Post
            BY <2>1, PostedIsPost DEF Posted
        <3>3. phase[s] = "closed"
            BY <3>1, TornDown
        <3> QED BY <3>1, <3>2, <3>3
    <2>3. \A i \in 1 .. Len(posts') :
              posts'[i].kind = "disconnected" => phase'[posts'[i].session] = "closed"
        BY <2>2
    <2>4. recv'[s] = "done" /\ \A t \in Session \ {s} : recv'[t] = recv[t]
        BY <1>13 DEF RecvNotifies
    <2>5. UNCHANGED <<phase, handled, explicit, call, connected>>
        BY <1>13 DEF RecvNotifies
    <2>6. \A t \in Session :
             /\ phase'[t] = "active" /\ handled'[t] => recv'[t] = "closing"
             /\ recv'[t] = "notifying" => phase'[t] = "closed"
             /\ phase'[t] \in {"new", "hello"} => ~handled'[t] /\ recv'[t] = "none"
        <3>1. \A t \in Session : recv'[t] = recv[t] \/ (t = s /\ recv'[t] = "done")
            BY <2>4
        <3>2. phase[s] = "closed" /\ phase' = phase /\ handled' = handled
            BY <2>2, <2>5
        <3> QED BY <3>1, <3>2
    <2> QED BY <2>3, <2>5, <2>6
<1>14. ASSUME NEW err \in Error, LoopTearsDown(err) PROVE ClosedFirst'
    BY <1>14, ThreadPosts DEF LoopTearsDown, CloseSession, Posted
<1>15. CASE FutureIsSet
    BY <1>15, ThreadPosts DEF FutureIsSet, Runs
<1>16. CASE ConnectGoesOn
    BY <1>16, ThreadPosts DEF ConnectGoesOn, Runs
<1>17. CASE ConnectAnnounces
    BY <1>17, ThreadPosts DEF ConnectAnnounces, Emitted, Posted
<1>18. CASE ConnectRaises
    BY <1>18, ThreadPosts DEF ConnectRaises, Runs
<1>19. CASE CloseLate
    BY <1>19, ThreadPosts DEF CloseLate, Runs, CloseSession
<1>20. CASE CloseEnds
    BY <1>20, ThreadPosts DEF CloseEnds, Runs, Emitted, Posted
<1>21. CASE SessionDisconnected
    BY <1>21, ThreadPosts DEF SessionDisconnected, Runs, Emitted, Posted, EventFor
<1>22. CASE EventDelivered
    BY <1>22, ThreadPosts DEF EventDelivered, Runs
<1>23. CASE Cancel
    BY <1>23, ThreadPosts DEF Cancel, Posted
<1>24. CASE Close
    BY <1>24, ThreadPosts DEF Close
<1>25. CASE CloserCloses
    BY <1>25, ThreadPosts DEF CloserCloses, CloseSession
<1>26. CASE CloserReturns
    BY <1>26, ThreadPosts DEF CloserReturns, Posted, Joined
<1> HIDE DEF TypeOK, LifecycleInv, OneCall, ResultsAreFinal, ClosedFirst
<1> QED BY <1>1, <1>2, <1>3, <1>4, <1>5, <1>6, <1>7, <1>8, <1>9, <1>10, <1>11, <1>12, <1>13, <1>14,
           <1>15, <1>16, <1>17, <1>18, <1>19, <1>20, <1>21, <1>22, <1>23, <1>24, <1>25,
           <1>26
        DEF Next, HelloEnds, RecvGoesOn, LoopGoesOn, Error

\* A report stays in the loop's queue while other callbacks run.
LEMMA ReportStays ==
    ASSUME TypeOK, posts # <<>>, Head(posts).kind # "disconnected",
           posts' = Tail(posts) \/ \E p \in Post : posts' = Append(Tail(posts), p),
           NEW i \in 1 .. Len(posts), NEW s, Reported(i, s)
    PROVE  i - 1 \in 1 .. Len(posts') /\ Reported(i - 1, s)'
<1>1. posts \in Seq(Post) /\ posts[i].kind = "disconnected" /\ posts[i].session = s
    BY DEF TypeOK, Reported
<1>2. i - 1 \in 1 .. Len(Tail(posts)) /\ Tail(posts)[i - 1] = posts[i] /\ Tail(posts) \in Seq(Post)
    BY <1>1
<1>3. CASE posts' = Tail(posts)
    BY <1>1, <1>2, <1>3 DEF Reported
<1>4. ASSUME NEW p \in Post, posts' = Append(Tail(posts), p)
      PROVE  i - 1 \in 1 .. Len(posts') /\ posts'[i - 1] = posts[i]
    BY <1>2, <1>4
<1> QED BY <1>1, <1>3, <1>4 DEF Reported

\* What such a callback leaves alone keeps the kernel faithful.
LEMMA FaithfulStays ==
    ASSUME TypeOK, FaithfulKernel, posts # <<>>, Head(posts).kind # "disconnected",
           posts' = Tail(posts) \/ \E p \in Post : posts' = Append(Tail(posts), p),
           UNCHANGED <<current, connected, announcing, phase, recv, disowned>>,
           \A s \in Session : phase[s] = "active" /\ s \in {call, closer} => s \in {call', closer', current}
    PROVE  FaithfulKernel'
<1>1. LossIsComing => LossIsComing'
    BY ReportStays DEF LossIsComing, Reported
<1> QED BY <1>1 DEF FaithfulKernel

\* Connects, closes and losses keep the kernel faithful to its session.
LEMMA FaithfulKept ==
    ASSUME TypeOK, LifecycleInv, ClosedFirst, FaithfulKernel, Next
    PROVE  FaithfulKernel'
<1> USE DEF TypeOK, LifecycleInv, kernel, calls, threads, sess, app, LoopIsFree,
            OneCall, ResultsAreFinal, ClosedFirst, FaithfulKernel, LossIsComing, Reported
<1>1. ASSUME NEW s \in Session, Connect(s) PROVE FaithfulKernel'
    BY <1>1, ThreadPosts DEF Connect
<1>2. ASSUME NEW s \in Session, ConnectRefusedByTcp(s) PROVE FaithfulKernel'
    BY <1>2, ThreadPosts DEF ConnectRefusedByTcp
<1>3. ASSUME NEW s \in Session, HelloDies(s) PROVE FaithfulKernel'
    BY <1>3, ThreadPosts DEF HelloDies
<1>4. ASSUME NEW s \in Session, HelloSucceeds(s) PROVE FaithfulKernel'
    BY <1>4, ThreadPosts DEF HelloSucceeds
<1>5. ASSUME NEW s \in Session, WorkerReturns(s) PROVE FaithfulKernel'
    BY <1>5, ThreadPosts DEF WorkerReturns, Posted
<1>6. ASSUME NEW s \in Session, LinkBreaks(s) PROVE FaithfulKernel'
    BY <1>6, ThreadPosts DEF LinkBreaks
<1>7. ASSUME NEW s \in Session, RecvFails(s) PROVE FaithfulKernel'
    BY <1>7, ThreadPosts DEF RecvFails
<1>8. ASSUME NEW s \in Session, RecvStops(s) PROVE FaithfulKernel'
    BY <1>8, ThreadPosts DEF RecvStops, MayReport
<1>9. ASSUME NEW s \in Session, RecvDecides(s) PROVE FaithfulKernel'
    BY <1>9, ThreadPosts DEF RecvDecides, MayReport
<1>10. ASSUME NEW s \in Session, RecvBeginsTeardown(s) PROVE FaithfulKernel'
    BY <1>10, ThreadPosts DEF RecvBeginsTeardown
<1>11. ASSUME NEW s \in Session, RecvCloses(s) PROVE FaithfulKernel'
    BY <1>11, ThreadPosts DEF RecvCloses, CloseSession
<1>12. ASSUME NEW s \in Session, NEW err \in Error, HelloFails(s, err) PROVE FaithfulKernel'
    BY <1>12, ThreadPosts DEF HelloFails, Posted
<1>13. ASSUME NEW s \in Session, NEW err \in Error, RecvNotifies(s, err) PROVE FaithfulKernel'
    BY <1>13, ThreadPosts DEF RecvNotifies, Posted
<1>14. ASSUME NEW err \in Error, LoopTearsDown(err) PROVE FaithfulKernel'
    BY <1>14, ThreadPosts DEF LoopTearsDown, CloseSession, Posted
<1>15. CASE FutureIsSet
    <2>1. posts # <<>> /\ Head(posts) \in Post /\ Head(posts).kind \in {"connectDone", "closeDone"}
        BY <1>15, HeadIsPost DEF FutureIsSet, Runs
    <2>2. PICK p : p = [Head(posts) EXCEPT !.kind = IF Head(posts).kind = "connectDone"
                                                    THEN "connectWakes" ELSE "closeWakes"]
        OBVIOUS
    <2>3. p \in Post /\ posts' = Append(Tail(posts), p)
        BY <1>15, <2>1, <2>2 DEF FutureIsSet, Post
    <2>4. UNCHANGED <<current, call, closer, connected, announcing, phase, recv, disowned>>
        BY <1>15 DEF FutureIsSet
    <2> HIDE DEF TypeOK, FaithfulKernel
    <2> QED BY <2>1, <2>3, <2>4, FaithfulStays
<1>16. CASE ConnectGoesOn
    <2>1. ~connected /\ ~announcing /\ call \in Session /\ closer = None /\ call # None
        BY <1>16, ThreadPosts DEF ConnectGoesOn, Runs
    <2>2. current' = call /\ announcing' = (phase[call] = "active") /\ UNCHANGED <<connected, phase, closer>>
        BY <1>16 DEF ConnectGoesOn
    <2>3. phase[call] = "active" => call' = call
        BY <1>16 DEF ConnectGoesOn
    <2>4. disowned' = {} => disowned = {}
        BY <1>16 DEF ConnectGoesOn
    <2>5. disowned = {} => \A s \in Session : phase[s] = "active" => s = call
        BY <2>1, ThreadPosts
    <2> QED BY <2>1, <2>2, <2>3, <2>4, <2>5
<1>17. CASE ConnectAnnounces
    BY <1>17, ThreadPosts DEF ConnectAnnounces, Emitted, Posted
<1>18. CASE ConnectRaises
    <2>1. posts # <<>> /\ Head(posts).kind = "connectWakes" /\ posts' = Tail(posts)
          /\ UNCHANGED <<current, closer, connected, announcing, phase, recv, disowned>>
        BY <1>18 DEF ConnectRaises, Runs
    <2>2. ASSUME call = Head(posts).session, call \in Session
          PROVE  phase[call] # "active"
        <3>1. 1 \in 1 .. Len(posts) /\ posts[1] = Head(posts) /\ posts[1].why = "failed"
            BY <2>1, <2>2, <1>18, ThreadPosts DEF ConnectRaises
        <3>2. LastWord(1)
            BY <3>1, <2>1 DEF ReportsComeFirst
        <3>3. ~Alive(call) /\ ~(phase[call] = "active" /\ ~handled[call])
            BY <3>1, <3>2, <2>2 DEF LastWord
        <3> QED BY <2>2, <3>3, TornDown
    <2>3. call' = IF call = Head(posts).session THEN None ELSE call
        BY <1>18 DEF ConnectRaises
    <2>4. \A s \in Session : phase[s] = "active" /\ s \in {call, closer} => s \in {call', closer', current}
        BY <2>1, <2>2, <2>3
    <2> HIDE DEF TypeOK, FaithfulKernel
    <2> QED BY <2>1, <2>4, FaithfulStays
<1>19. CASE CloseLate
    BY <1>19, ThreadPosts DEF CloseLate, Runs, CloseSession
<1>20. CASE CloseEnds
    <2>1. posts # <<>> /\ Head(posts).kind = "closeWakes"
          /\ UNCHANGED <<current, call, connected, announcing, phase, recv, disowned>>
        BY <1>20 DEF CloseEnds, Runs
    <2>2. posts' = Append(Tail(posts), Emitted("closed")) /\ Emitted("closed") \in Post
        BY <1>20, PostedIsPost DEF CloseEnds, Emitted, Posted, Post, Event
    <2>3. ASSUME closer \in Session PROVE phase[closer] # "active"
        <3>1. 1 \in 1 .. Len(posts) /\ posts[1].kind = "closeWakes" /\ posts[1].session = closer
            BY <2>1, ThreadPosts
        <3>2. LastWord(1)
            BY <3>1 DEF ReportsComeFirst
        <3>3. ~Alive(closer) /\ ~(phase[closer] = "active" /\ ~handled[closer])
            BY <3>1, <3>2, <2>3 DEF LastWord
        <3> QED BY <2>3, <3>3, TornDown
    <2>4. \A s \in Session : phase[s] = "active" /\ s \in {call, closer} => s \in {call', closer', current}
        BY <2>1, <2>3
    <2> HIDE DEF TypeOK, FaithfulKernel
    <2> QED BY <2>1, <2>2, <2>4, FaithfulStays
<1>21. CASE SessionDisconnected
    <2>1. 1 \in 1 .. Len(posts) /\ Reported(1, Head(posts).session) /\ Head(posts).session \in Session
          /\ ~announcing
        BY <1>21, ThreadPosts DEF SessionDisconnected, Runs
    <2>2. UNCHANGED <<current, call, closer, announcing, phase, disowned>>
          /\ connected' = (connected /\ Ignored(Head(posts).why))
        BY <1>21 DEF SessionDisconnected
    <2>3. ~connected'
        BY <2>2 DEF Ignored
    <2>4. ASSUME connected, disowned = {} PROVE phase[current] = "closed"
        <3>1. Owned(Head(posts).session)
            BY <2>1 DEF ReportersAreOwned, MayStillReport
        <3>2. Head(posts).session = current
            BY <3>1, <2>1, <2>4, ThreadPosts DEF Owned
        <3> QED BY <2>1, <3>2
    <2> QED BY <2>1, <2>2, <2>3, <2>4
<1>22. CASE EventDelivered
    <2>1. posts # <<>> /\ Head(posts).kind = "event" /\ posts' = Tail(posts)
          /\ UNCHANGED <<current, call, closer, connected, announcing, phase, recv, disowned>>
        BY <1>22 DEF EventDelivered, Runs
    <2> HIDE DEF TypeOK, FaithfulKernel
    <2> QED BY <2>1, FaithfulStays
<1>23. CASE Cancel
    BY <1>23, ThreadPosts DEF Cancel, Posted
<1>24. CASE Close
    BY <1>24, ThreadPosts DEF Close
<1>25. CASE CloserCloses
    BY <1>25, ThreadPosts DEF CloserCloses, CloseSession
<1>26. CASE CloserReturns
    BY <1>26, ThreadPosts DEF CloserReturns, Posted, Joined
<1> HIDE DEF TypeOK, LifecycleInv, OneCall, ResultsAreFinal, ClosedFirst, FaithfulKernel, LossIsComing, Reported
<1> QED BY <1>1, <1>2, <1>3, <1>4, <1>5, <1>6, <1>7, <1>8, <1>9, <1>10, <1>11, <1>12, <1>13, <1>14,
           <1>15, <1>16, <1>17, <1>18, <1>19, <1>20, <1>21, <1>22, <1>23, <1>24, <1>25,
           <1>26
        DEF Next, HelloEnds, RecvGoesOn, LoopGoesOn, Error

\* Nothing is under way: then the kernel, its session and the application agree on whether there is
\* a connection, for any number of connects of which none was given up.
THEOREM AllAgree == Spec => []Agreement
<1>1. Init => ClosedFirst /\ FaithfulKernel
    BY DEF Init, ClosedFirst, FaithfulKernel, Session, None
<1>2. TypeOK /\ LifecycleInv /\ ClosedFirst /\ FaithfulKernel /\ [Next]_vars
      => ClosedFirst' /\ FaithfulKernel'
    <2>1. UNCHANGED vars /\ ClosedFirst /\ FaithfulKernel => ClosedFirst' /\ FaithfulKernel'
        BY DEF vars, kernel, calls, threads, sess, app, ClosedFirst, FaithfulKernel, LossIsComing,
               Reported
    <2> QED BY <2>1, ClosedFirstKept, FaithfulKept
<1>3. TypeOK /\ LifecycleInv /\ EventsInOrder /\ FaithfulKernel => Agreement
    <2> SUFFICES ASSUME TypeOK, LifecycleInv, EventsInOrder, FaithfulKernel, Quiet, disowned = {}
                 PROVE  /\ connected <=> (current # None /\ phase[current] = "active")
                        /\ connected <=> (told = "up")
                        /\ \A s \in Session : phase[s] = "active" => s = current
        BY DEF Agreement
    <2>1. posts = <<>> /\ call = None /\ closer = None /\ ~announcing
        BY DEF Quiet, LifecycleInv, OneCall
    <2>2. connected <=> (current # None /\ phase[current] = "active")
        <3>1. current # None => ~LossIsComing
            BY <2>1 DEF Quiet, LossIsComing, TypeOK, Reported
        <3> QED BY <2>1, <3>1 DEF FaithfulKernel, TypeOK
    <2>3. connected <=> (told = "up")
        <3>1. LastEvent(posts, 0) /\ 0 \in 0 .. Len(posts)
            BY <2>1 DEF LastEvent, IsEvent
        <3> QED BY <2>1, <3>1 DEF EventsInOrder, EndsIn, Said, TypeOK
    <2>4. \A s \in Session : phase[s] = "active" => s = current
        BY <2>1, ThreadPosts DEF FaithfulKernel
    <2> QED BY <2>2, <2>3, <2>4
<1> QED BY <1>1, <1>2, <1>3, TypeCorrect, InvHolds, OrderHolds, PTL DEF Spec

-----------------------------------------------------------------------------
(* Keepalive: what _try_send_next does to the probe.                       *)

LEMMA TrySendNextCases ==
  ASSUME NEW act, NEW hq \in Seq(Item), NEW nq \in 0..MaxQueue, NEW ans,
         Once(hq, "probe"), TrySendNext(act, hq, nq, ans), MaxQueue \in Nat
  PROVE  \/ /\ act # "none" \/ link # "up"
            /\ active' = act /\ highQ' = hq /\ normalQ' = nq /\ answer' = ans
            /\ sentEvent' = sentEvent
            /\ stage' = IF act = "none" THEN "out" ELSE stage
         \/ /\ act = "none" /\ link = "up" /\ stage' = "out"
            /\ highQ' \in Seq(Item) /\ Once(highQ', "probe") /\ normalQ' \in 0..MaxQueue
            /\ \/ /\ "probe" \in Elems(hq) /\ "probe" \notin Elems(highQ')
                  /\ active' \in {"cmd", "none"}
                  /\ answer' = "timeout" /\ sentEvent' = TRUE
               \/ /\ "probe" \in Elems(hq) /\ "probe" \notin Elems(highQ')
                  /\ active' = "probe" /\ answer' = ans /\ sentEvent' = sentEvent
               \/ /\ "probe" \in Elems(hq) <=> "probe" \in Elems(highQ')
                  /\ active' \in {"cmd", "none"}
                  /\ answer' = ans /\ sentEvent' = sentEvent
<1> DEFINE ready == {i \in 1..Len(hq) : hq[i] = "cmd" \/ (hq[i] = "probe" /\ ~late)}
           first == CHOOSE i \in ready : \A j \in ready : i <= j
           drop  == IF ready = {} THEN Len(hq) ELSE first - 1
           failed == \E i \in 1..drop : hq[i] = "probe"
<1>1. CASE act # "none" \/ link # "up"
  BY <1>1 DEF TrySendNext
<1>2. CASE act = "none" /\ link = "up"
  <2>1. /\ stage' = "out"
        /\ IF failed THEN answer' = "timeout" /\ sentEvent' = TRUE
                     ELSE answer' = ans /\ sentEvent' = sentEvent
        /\ IF ready # {}
           THEN /\ active' = hq[first] /\ normalQ' = nq
                /\ highQ' = SubSeq(hq, first + 1, Len(hq))
           ELSE /\ active' = IF nq > 0 THEN "cmd" ELSE "none"
                /\ normalQ' = IF nq > 0 THEN nq - 1 ELSE 0
                /\ highQ' = <<>>
    BY <1>2 DEF TrySendNext
  <2>2. normalQ' \in 0..MaxQueue
    BY <2>1
  <2>3. Len(hq) \in Nat /\ \A i \in 1..Len(hq) : hq[i] \in Item
    BY LenProperties, ElementOfSeq
  <2>4. CASE ready = {}
    <3>1. failed <=> "probe" \in Elems(hq)
      BY <2>4 DEF Elems
    <3>2. /\ highQ' = <<>> /\ active' \in {"cmd", "none"}
          /\ IF failed THEN answer' = "timeout" /\ sentEvent' = TRUE
                       ELSE answer' = ans /\ sentEvent' = sentEvent
      BY <2>1, <2>4
    <3>3. /\ highQ' \in Seq(Item) /\ Once(highQ', "probe") /\ "probe" \notin Elems(highQ')
      BY <3>2, ElemsEmpty DEF Once
    <3> HIDE DEF failed
    <3> QED BY <1>2, <2>1, <2>2, <3>1, <3>2, <3>3
  <2>5. CASE ready # {}
    <3>1. first \in ready /\ \A j \in ready : first <= j
      <4>1. ready \in SUBSET Nat
        OBVIOUS
      <4> HIDE DEF ready
      <4> QED BY <2>5, <4>1, FirstExists
    <3>2. /\ active' = hq[first] /\ highQ' = SubSeq(hq, first + 1, Len(hq))
          /\ failed <=> \E i \in 1..(first - 1) : hq[i] = "probe"
          /\ IF failed THEN answer' = "timeout" /\ sentEvent' = TRUE
                       ELSE answer' = ans /\ sentEvent' = sentEvent
      BY <2>1, <2>5
    <3>3. first \in 1..Len(hq) /\ hq[first] \in {"cmd", "probe"}
      BY <3>1
    <3> HIDE DEF first, ready, drop, failed
    <3>4. /\ highQ' \in Seq(Item) /\ Once(highQ', "probe")
          /\ Elems(highQ') = {hq[i] : i \in (first + 1)..Len(hq)}
      BY <3>2, <3>3, ElemsCut
    <3>5. \A i \in 1..Len(hq) : i < first \/ i = first \/ i \in (first + 1)..Len(hq)
      BY <2>3, <3>3
    <3>6. \A i \in (first + 1)..Len(hq) : i \in 1..Len(hq) /\ i # first /\ ~(i < first)
      BY <2>3, <3>3
    <3>7. \A i \in 1..(first - 1) : i \in 1..Len(hq) /\ i < first
      BY <2>3, <3>3
    <3>8. CASE failed
      <4>1. PICK i \in 1..(first - 1) : hq[i] = "probe"
        BY <3>2, <3>8
      <4>2. \A j \in 1..Len(hq) : hq[j] = "probe" => j = i
        BY <3>7, <4>1 DEF Once
      <4> HIDE DEF failed
      <4>3. i \in 1..Len(hq) /\ i # first /\ i \notin (first + 1)..Len(hq)
        BY <2>3, <3>3, <3>6, <3>7
      <4>4. "probe" \in Elems(hq)
        BY <4>1, <4>3 DEF Elems
      <4>5. hq[first] = "cmd"
        BY <3>3, <4>2, <4>3
      <4>6. "probe" \notin Elems(highQ')
        BY <3>4, <3>6, <4>2, <4>3
      <4> QED BY <1>2, <2>1, <2>2, <3>2, <3>4, <3>8, <4>4, <4>5, <4>6
    <3>9. CASE ~failed /\ hq[first] = "probe"
      <4>1. "probe" \in Elems(hq) /\ "probe" \notin Elems(highQ')
        BY <3>3, <3>4, <3>6, <3>9 DEF Elems, Once
      <4> QED BY <1>2, <2>1, <2>2, <3>2, <3>4, <3>9, <4>1
    <3>10. CASE ~failed /\ hq[first] = "cmd"
      <4>1. \A i \in 1..Len(hq) : hq[i] = "probe" => i \in (first + 1)..Len(hq)
        BY <2>3, <3>2, <3>3, <3>5, <3>10
      <4>2. "probe" \in Elems(hq) <=> "probe" \in Elems(highQ')
        BY <3>4, <3>6, <4>1 DEF Elems
      <4> QED BY <1>2, <2>1, <2>2, <3>2, <3>4, <3>10, <4>2
    <3> QED BY <3>3, <3>8, <3>9, <3>10
  <2> QED BY <2>4, <2>5
<1> QED BY <1>1, <1>2

-----------------------------------------------------------------------------
(* The invariant.                                                          *)

IndInv == KeepaliveTypeOK /\ Inv

LEMMA IndInit == KeepaliveInit => IndInv
<1> SUFFICES ASSUME KeepaliveInit PROVE IndInv
  OBVIOUS
<1>1. Elems(highQ) = {} /\ Once(highQ, "probe") /\ highQ = <<>>
  BY ElemsEmpty DEF KeepaliveInit, Once
<1> USE <1>1, KeepaliveBounds DEF KeepaliveInit, Frame, Item, Checking, ProbeAround, ProbeQueued
<1>2. WatchTyped
  BY DEF WatchTyped
<1>3. LinkTyped
  BY DEF LinkTyped
<1>4. CountsTyped
  BY DEF CountsTyped
<1>5. GateTyped
  BY DEF GateTyped
<1>6. ProbeTyped /\ RxTyped
  BY DEF ProbeTyped, RxTyped
<1>7. Watched /\ CountIsOpen /\ OneProbe /\ WriteIsReported
  BY DEF Watched, CountIsOpen, OneProbe, WriteIsReported
<1>8. EventMeansSent /\ LossIsReported /\ OwnCheck /\ SpokeIsHeard
  BY DEF EventMeansSent, LossIsReported, OwnCheck, SpokeIsHeard
<1> QED BY <1>2, <1>3, <1>4, <1>5, <1>6, <1>7, <1>8 DEF IndInv, KeepaliveTypeOK, Inv

\* The task goes round its loop.
LEMMA IndLoop ==
  ASSUME IndInv, Sleep \/ SleepEnds \/ Poll \/ PollEnds \/ DeadlinePasses \/ LinkCheck
  PROVE  IndInv'
<1>1. WatchTyped /\ LinkTyped /\ CountsTyped /\ GateTyped /\ ProbeTyped /\ RxTyped
  BY DEF IndInv, KeepaliveTypeOK
<1>2. Watched /\ CountIsOpen /\ OneProbe /\ WriteIsReported
      /\ EventMeansSent /\ LossIsReported /\ OwnCheck /\ SpokeIsHeard
  BY DEF IndInv, Inv
<1>3. Sleep \/ SleepEnds \/ Poll \/ PollEnds \/ DeadlinePasses \/ LinkCheck
  OBVIOUS
<1> USE DEF Frame, Item, Checking, ProbeAround, ProbeQueued, watch, session, gate, probe, rx
<1>5. WatchTyped'
  BY <1>1, <1>2, <1>3
  DEF WatchTyped, Sleep, SleepEnds, Poll, PollEnds, DeadlinePasses, LinkCheck
<1>6. LinkTyped'
  BY <1>1, <1>2, <1>3
  DEF LinkTyped, Sleep, SleepEnds, Poll, PollEnds, DeadlinePasses, LinkCheck
<1>7. CountsTyped'
  BY <1>1, <1>2, <1>3
  DEF CountsTyped, CountIsOpen, Sleep, SleepEnds, Poll, PollEnds, DeadlinePasses, LinkCheck
<1>8. GateTyped'
  BY <1>1, <1>2, <1>3
  DEF GateTyped, Sleep, SleepEnds, Poll, PollEnds, DeadlinePasses, LinkCheck
<1>9. ProbeTyped'
  BY <1>1, <1>2, <1>3
  DEF ProbeTyped, Sleep, SleepEnds, Poll, PollEnds, DeadlinePasses, LinkCheck
<1>10. RxTyped'
  BY <1>1, <1>2, <1>3
  DEF RxTyped, Sleep, SleepEnds, Poll, PollEnds, DeadlinePasses, LinkCheck
<1>11. Watched'
  BY <1>1, <1>2, <1>3
  DEF Watched, OwnCheck, Sleep, SleepEnds, Poll, PollEnds, DeadlinePasses, LinkCheck
<1>12. CountIsOpen'
  BY <1>1, <1>2, <1>3
  DEF CountIsOpen, Sleep, SleepEnds, Poll, PollEnds, DeadlinePasses, LinkCheck
<1>13. OneProbe'
  BY <1>1, <1>2, <1>3
  DEF OneProbe, EventMeansSent, LossIsReported, Sleep, SleepEnds, Poll, PollEnds,
        DeadlinePasses, LinkCheck
<1>14. WriteIsReported'
  BY <1>1, <1>2, <1>3
  DEF WriteIsReported, OneProbe, EventMeansSent, LossIsReported, Sleep, SleepEnds, Poll,
        PollEnds, DeadlinePasses, LinkCheck
<1>15. EventMeansSent'
  BY <1>1, <1>2, <1>3
  DEF EventMeansSent, OneProbe, WriteIsReported, LossIsReported, Sleep, SleepEnds, Poll,
        PollEnds, DeadlinePasses, LinkCheck
<1>16. LossIsReported'
  BY <1>1, <1>2, <1>3
  DEF LossIsReported, OneProbe, EventMeansSent, Sleep, SleepEnds, Poll, PollEnds,
        DeadlinePasses, LinkCheck
<1>17. OwnCheck'
  BY <1>1, <1>2, <1>3
  DEF OwnCheck, OneProbe, WriteIsReported, EventMeansSent, LossIsReported, Sleep,
        SleepEnds, Poll, PollEnds, DeadlinePasses, LinkCheck
<1>18. SpokeIsHeard'
  BY <1>1, <1>2, <1>3
  DEF SpokeIsHeard, OneProbe, WriteIsReported, EventMeansSent, LossIsReported, OwnCheck,
        Sleep, SleepEnds, Poll, PollEnds, DeadlinePasses, LinkCheck
<1> QED BY <1>5, <1>6, <1>7, <1>8, <1>9, <1>10, <1>11, <1>12, <1>13, <1>14, <1>15, <1>16,
      <1>17, <1>18 DEF IndInv, KeepaliveTypeOK, Inv

\* What the link brings.
LEMMA IndLink ==
  ASSUME IndInv, LinkLost \/ PanelDies \/ QuietPasses
  PROVE  IndInv'
<1>1. WatchTyped /\ LinkTyped /\ CountsTyped /\ GateTyped /\ ProbeTyped /\ RxTyped
  BY DEF IndInv, KeepaliveTypeOK
<1>2. Watched /\ CountIsOpen /\ OneProbe /\ WriteIsReported
      /\ EventMeansSent /\ LossIsReported /\ OwnCheck /\ SpokeIsHeard
  BY DEF IndInv, Inv
<1>3. LinkLost \/ PanelDies \/ QuietPasses
  OBVIOUS
<1> USE DEF Frame, Item, Checking, ProbeAround, ProbeQueued, watch, session, gate, probe, rx
<1>5. WatchTyped'
  BY <1>1, <1>2, <1>3
  DEF WatchTyped, LinkLost, PanelDies, QuietPasses
<1>6. LinkTyped'
  BY <1>1, <1>2, <1>3
  DEF LinkTyped, LinkLost, PanelDies, QuietPasses
<1>7. CountsTyped'
  BY <1>1, <1>2, <1>3
  DEF CountsTyped, CountIsOpen, LinkLost, PanelDies, QuietPasses
<1>8. GateTyped'
  BY <1>1, <1>2, <1>3
  DEF GateTyped, LinkLost, PanelDies, QuietPasses
<1>9. ProbeTyped'
  BY <1>1, <1>2, <1>3
  DEF ProbeTyped, LinkLost, PanelDies, QuietPasses
<1>10. RxTyped'
  BY <1>1, <1>2, <1>3
  DEF RxTyped, LinkLost, PanelDies, QuietPasses
<1>11. Watched'
  BY <1>1, <1>2, <1>3
  DEF Watched, OwnCheck, LinkLost, PanelDies, QuietPasses
<1>12. CountIsOpen'
  BY <1>1, <1>2, <1>3
  DEF CountIsOpen, LinkLost, PanelDies, QuietPasses
<1>13. OneProbe'
  BY <1>1, <1>2, <1>3
  DEF OneProbe, EventMeansSent, LossIsReported, LinkLost, PanelDies, QuietPasses
<1>14. WriteIsReported'
  BY <1>1, <1>2, <1>3
  DEF WriteIsReported, OneProbe, EventMeansSent, LossIsReported, LinkLost, PanelDies,
        QuietPasses
<1>15. EventMeansSent'
  BY <1>1, <1>2, <1>3
  DEF EventMeansSent, OneProbe, WriteIsReported, LossIsReported, LinkLost, PanelDies,
        QuietPasses
<1>16. LossIsReported'
  BY <1>1, <1>2, <1>3
  DEF LossIsReported, OneProbe, EventMeansSent, LinkLost, PanelDies, QuietPasses
<1>17. OwnCheck'
  BY <1>1, <1>2, <1>3
  DEF OwnCheck, OneProbe, WriteIsReported, EventMeansSent, LossIsReported, LinkLost,
        PanelDies, QuietPasses
<1>18. SpokeIsHeard'
  BY <1>1, <1>2, <1>3
  DEF SpokeIsHeard, OneProbe, WriteIsReported, EventMeansSent, LossIsReported, OwnCheck,
        LinkLost, PanelDies, QuietPasses
<1> QED BY <1>5, <1>6, <1>7, <1>8, <1>9, <1>10, <1>11, <1>12, <1>13, <1>14, <1>15, <1>16,
      <1>17, <1>18 DEF IndInv, KeepaliveTypeOK, Inv

\* Something is received.
LEMMA IndBroadcast ==
  ASSUME IndInv, Broadcast
  PROVE  IndInv'
<1>1. WatchTyped /\ LinkTyped /\ CountsTyped /\ GateTyped /\ ProbeTyped /\ RxTyped
  BY DEF IndInv, KeepaliveTypeOK
<1>2. Watched /\ CountIsOpen /\ OneProbe /\ WriteIsReported
      /\ EventMeansSent /\ LossIsReported /\ OwnCheck /\ SpokeIsHeard
  BY DEF IndInv, Inv
<1>3. Broadcast
  OBVIOUS
<1>c. heard' = Checking /\ since' = Checking
  BY <1>3 DEF Broadcast, Received
<1>d. Checking \in BOOLEAN
  BY DEF Checking
<1>4. /\ heard' \in BOOLEAN /\ since' \in BOOLEAN
      /\ heard' <=> Checking
      /\ since' <=> Checking
  BY <1>c, <1>d
<1>a. quiet' = FALSE /\ silent' = FALSE /\ spoke' = IF spoke = "no" THEN "yes" ELSE spoke
  BY <1>3, <1>4 DEF Broadcast, Received
<1>b. link = "up" /\ UNCHANGED <<watch, session, gate, probe, dead, cancels>>
  BY <1>3, <1>4 DEF Broadcast
<1> USE DEF Frame, Item, Checking, ProbeAround, ProbeQueued, watch, session, gate, probe, rx
<1>5. WatchTyped'
  BY <1>1, <1>2, <1>4, <1>a, <1>b
  DEF WatchTyped
<1>6. LinkTyped'
  BY <1>1, <1>2, <1>4, <1>a, <1>b
  DEF LinkTyped
<1>7. CountsTyped'
  BY <1>1, <1>2, <1>4, <1>a, <1>b
  DEF CountsTyped, CountIsOpen
<1>8. GateTyped'
  BY <1>1, <1>2, <1>4, <1>a, <1>b
  DEF GateTyped
<1>9. ProbeTyped'
  BY <1>1, <1>2, <1>4, <1>a, <1>b
  DEF ProbeTyped
<1>10. RxTyped'
  BY <1>1, <1>2, <1>4, <1>a, <1>b
  DEF RxTyped
<1>11. Watched'
  BY <1>1, <1>2, <1>4, <1>a, <1>b
  DEF Watched, OwnCheck
<1>12. CountIsOpen'
  BY <1>1, <1>2, <1>4, <1>a, <1>b
  DEF CountIsOpen
<1>13. OneProbe'
  BY <1>1, <1>2, <1>4, <1>a, <1>b
  DEF OneProbe, EventMeansSent, LossIsReported
<1>14. WriteIsReported'
  BY <1>1, <1>2, <1>4, <1>a, <1>b
  DEF WriteIsReported, OneProbe, EventMeansSent, LossIsReported
<1>15. EventMeansSent'
  BY <1>1, <1>2, <1>4, <1>a, <1>b
  DEF EventMeansSent, OneProbe, WriteIsReported, LossIsReported
<1>16. LossIsReported'
  BY <1>1, <1>2, <1>4, <1>a, <1>b
  DEF LossIsReported, OneProbe, EventMeansSent
<1>17. OwnCheck'
  BY <1>1, <1>2, <1>4, <1>a, <1>b
  DEF OwnCheck, OneProbe, WriteIsReported, EventMeansSent, LossIsReported
<1>18. SpokeIsHeard'
  BY <1>1, <1>2, <1>4, <1>a, <1>b
  DEF SpokeIsHeard, OneProbe, WriteIsReported, EventMeansSent, LossIsReported, OwnCheck
<1> QED BY <1>5, <1>6, <1>7, <1>8, <1>9, <1>10, <1>11, <1>12, <1>13, <1>14, <1>15, <1>16,
      <1>17, <1>18 DEF IndInv, KeepaliveTypeOK, Inv

\* The session comes and goes.
LEMMA IndSession ==
  ASSUME IndInv, ConnectLink \/ CloseLink \/ OnDisconnected
  PROVE  IndInv'
<1>1. WatchTyped /\ LinkTyped /\ CountsTyped /\ GateTyped /\ ProbeTyped /\ RxTyped
  BY DEF IndInv, KeepaliveTypeOK
<1>2. Watched /\ CountIsOpen /\ OneProbe /\ WriteIsReported
      /\ EventMeansSent /\ LossIsReported /\ OwnCheck /\ SpokeIsHeard
  BY DEF IndInv, Inv
<1>3. ConnectLink \/ CloseLink \/ OnDisconnected
  OBVIOUS
<1>4. Elems(<<>>) = {} /\ Once(<<>>, "probe") /\ <<>> \in Seq(Item)
  BY ElemsEmpty DEF Once
<1> USE DEF Frame, Item, Checking, ProbeAround, ProbeQueued, watch, session, gate, probe, rx
<1>5. WatchTyped'
  <2>1. CASE ConnectLink
    BY <1>1, <1>2, <2>1, KeepaliveBounds
    DEF WatchTyped, ConnectLink
  <2>2. CASE CloseLink
    BY <1>1, <1>2, <2>2, KeepaliveBounds
    DEF WatchTyped, CloseLink, Forget
  <2>3. CASE OnDisconnected
    BY <1>1, <1>2, <2>3, KeepaliveBounds
    DEF WatchTyped, OnDisconnected, AbortAll
  <2> QED BY <1>3, <2>1, <2>2, <2>3
<1>6. LinkTyped'
  BY <1>1, <1>2, <1>3, KeepaliveBounds
  DEF LinkTyped, ConnectLink, CloseLink, Forget, OnDisconnected, AbortAll
<1>7. CountsTyped'
  <2>1. CASE ConnectLink
    BY <1>1, <1>2, <2>1, KeepaliveBounds
    DEF CountsTyped, CountIsOpen, ConnectLink
  <2>2. CASE CloseLink
    BY <1>1, <1>2, <2>2, KeepaliveBounds
    DEF CountsTyped, CountIsOpen, CloseLink, Forget
  <2>3. CASE OnDisconnected
    BY <1>1, <1>2, <2>3, KeepaliveBounds
    DEF CountsTyped, CountIsOpen, OnDisconnected, AbortAll
  <2> QED BY <1>3, <2>1, <2>2, <2>3
<1>8. GateTyped'
  <2>1. CASE ConnectLink
    BY <1>1, <1>2, <2>1, <1>4, KeepaliveBounds
    DEF GateTyped, ConnectLink
  <2>2. CASE CloseLink
    BY <1>1, <1>2, <2>2, <1>4, KeepaliveBounds
    DEF GateTyped, CloseLink, Forget
  <2>3. CASE OnDisconnected
    BY <1>1, <1>2, <2>3, <1>4, KeepaliveBounds
    DEF GateTyped, OnDisconnected, AbortAll
  <2> QED BY <1>3, <2>1, <2>2, <2>3
<1>9. ProbeTyped'
  BY <1>1, <1>2, <1>3, KeepaliveBounds
  DEF ProbeTyped, ConnectLink, CloseLink, Forget, OnDisconnected, AbortAll
<1>10. RxTyped'
  BY <1>1, <1>2, <1>3, KeepaliveBounds
  DEF RxTyped, ConnectLink, CloseLink, Forget, OnDisconnected, AbortAll
<1>11. Watched'
  BY <1>1, <1>2, <1>3
  DEF Watched, OwnCheck, ConnectLink, CloseLink, Forget, OnDisconnected, AbortAll
<1>12. CountIsOpen'
  BY <1>1, <1>2, <1>3, KeepaliveBounds
  DEF CountIsOpen, ConnectLink, CloseLink, Forget, OnDisconnected, AbortAll
<1>13. OneProbe'
  BY <1>1, <1>2, <1>3, <1>4
  DEF OneProbe, EventMeansSent, LossIsReported, ConnectLink, CloseLink, Forget, OnDisconnected,
        AbortAll
<1>14. WriteIsReported'
  BY <1>1, <1>2, <1>3
  DEF WriteIsReported, OneProbe, EventMeansSent, LossIsReported, ConnectLink, CloseLink, Forget,
        OnDisconnected, AbortAll
<1>15. EventMeansSent'
  <2>1. CASE ConnectLink
    BY <1>1, <1>2, <2>1, <1>4
    DEF EventMeansSent, OneProbe, WriteIsReported, LossIsReported, ConnectLink
  <2>2. CASE CloseLink
    BY <1>1, <1>2, <2>2, <1>4
    DEF EventMeansSent, OneProbe, WriteIsReported, LossIsReported, CloseLink, Forget
  <2>3. CASE OnDisconnected
    BY <1>1, <1>2, <2>3, <1>4
    DEF EventMeansSent, OneProbe, WriteIsReported, LossIsReported, OnDisconnected, AbortAll
  <2> QED BY <1>3, <2>1, <2>2, <2>3
<1>16. LossIsReported'
  <2>1. CASE ConnectLink
    BY <1>1, <1>2, <2>1, <1>4
    DEF LossIsReported, OneProbe, EventMeansSent, ConnectLink
  <2>2. CASE CloseLink
    BY <1>1, <1>2, <2>2, <1>4
    DEF LossIsReported, OneProbe, EventMeansSent, CloseLink, Forget
  <2>3. CASE OnDisconnected
    BY <1>1, <1>2, <2>3, <1>4
    DEF LossIsReported, OneProbe, EventMeansSent, OnDisconnected, AbortAll
  <2> QED BY <1>3, <2>1, <2>2, <2>3
<1>17. OwnCheck'
  BY <1>1, <1>2, <1>3, <1>4
  DEF OwnCheck, OneProbe, WriteIsReported, EventMeansSent, LossIsReported, ConnectLink,
        CloseLink, Forget, OnDisconnected, AbortAll
<1>18. SpokeIsHeard'
  BY <1>1, <1>2, <1>3, <1>4
  DEF SpokeIsHeard, OneProbe, WriteIsReported, EventMeansSent, LossIsReported, OwnCheck,
        ConnectLink, CloseLink, Forget, OnDisconnected, AbortAll
<1> QED BY <1>5, <1>6, <1>7, <1>8, <1>9, <1>10, <1>11, <1>12, <1>13, <1>14, <1>15, <1>16,
      <1>17, <1>18 DEF IndInv, KeepaliveTypeOK, Inv

\* A frame goes out.
LEMMA IndFrame ==
  ASSUME IndInv, FrameWritten \/ OnSent
  PROVE  IndInv'
<1>1. WatchTyped /\ LinkTyped /\ CountsTyped /\ GateTyped /\ ProbeTyped /\ RxTyped
  BY DEF IndInv, KeepaliveTypeOK
<1>2. Watched /\ CountIsOpen /\ OneProbe /\ WriteIsReported
      /\ EventMeansSent /\ LossIsReported /\ OwnCheck /\ SpokeIsHeard
  BY DEF IndInv, Inv
<1>3. FrameWritten \/ OnSent
  OBVIOUS
<1> USE DEF Frame, Item, Checking, ProbeAround, ProbeQueued, watch, session, gate, probe, rx
<1>5. WatchTyped'
  BY <1>1, <1>2, <1>3
  DEF WatchTyped, FrameWritten, OnSent
<1>6. LinkTyped'
  BY <1>1, <1>2, <1>3
  DEF LinkTyped, FrameWritten, OnSent
<1>7. CountsTyped'
  BY <1>1, <1>2, <1>3
  DEF CountsTyped, CountIsOpen, FrameWritten, OnSent
<1>8. GateTyped'
  BY <1>1, <1>2, <1>3
  DEF GateTyped, FrameWritten, OnSent
<1>9. ProbeTyped'
  BY <1>1, <1>2, <1>3
  DEF ProbeTyped, FrameWritten, OnSent
<1>10. RxTyped'
  BY <1>1, <1>2, <1>3
  DEF RxTyped, FrameWritten, OnSent
<1>11. Watched'
  BY <1>1, <1>2, <1>3
  DEF Watched, OwnCheck, FrameWritten, OnSent
<1>12. CountIsOpen'
  BY <1>1, <1>2, <1>3
  DEF CountIsOpen, FrameWritten, OnSent
<1>13. OneProbe'
  BY <1>1, <1>2, <1>3
  DEF OneProbe, EventMeansSent, LossIsReported, FrameWritten, OnSent
<1>14. WriteIsReported'
  BY <1>1, <1>2, <1>3
  DEF WriteIsReported, OneProbe, EventMeansSent, LossIsReported, FrameWritten, OnSent
<1>15. EventMeansSent'
  <2>1. CASE FrameWritten
    BY <1>1, <1>2, <2>1
    DEF EventMeansSent, OneProbe, WriteIsReported, LossIsReported, FrameWritten
  <2>2. CASE OnSent
    BY <1>1, <1>2, <2>2
    DEF EventMeansSent, OneProbe, WriteIsReported, LossIsReported, OnSent
  <2> QED BY <1>3, <2>1, <2>2
<1>16. LossIsReported'
  <2>1. CASE FrameWritten
    BY <1>1, <1>2, <2>1
    DEF LossIsReported, OneProbe, EventMeansSent, FrameWritten
  <2>2. CASE OnSent
    BY <1>1, <1>2, <2>2
    DEF LossIsReported, OneProbe, EventMeansSent, OnSent
  <2> QED BY <1>3, <2>1, <2>2
<1>17. OwnCheck'
  BY <1>1, <1>2, <1>3
  DEF OwnCheck, OneProbe, WriteIsReported, EventMeansSent, LossIsReported, FrameWritten,
        OnSent
<1>18. SpokeIsHeard'
  <2>1. CASE FrameWritten
    BY <1>1, <1>2, <2>1
    DEF SpokeIsHeard, OneProbe, WriteIsReported, EventMeansSent, LossIsReported,
          OwnCheck, FrameWritten
  <2>2. CASE OnSent
    BY <1>1, <1>2, <2>2
    DEF SpokeIsHeard, OneProbe, WriteIsReported, EventMeansSent, LossIsReported,
          OwnCheck, OnSent
  <2> QED BY <1>3, <2>1, <2>2
<1> QED BY <1>5, <1>6, <1>7, <1>8, <1>9, <1>10, <1>11, <1>12, <1>13, <1>14, <1>15, <1>16,
      <1>17, <1>18 DEF IndInv, KeepaliveTypeOK, Inv

\* A check begins.
LEMMA IndSendProbe ==
  ASSUME IndInv, SendProbe
  PROVE  IndInv'
<1>1. WatchTyped /\ LinkTyped /\ CountsTyped /\ GateTyped /\ ProbeTyped /\ RxTyped
  BY DEF IndInv, KeepaliveTypeOK
<1>2. Watched /\ CountIsOpen /\ OneProbe /\ WriteIsReported
      /\ EventMeansSent /\ LossIsReported /\ OwnCheck /\ SpokeIsHeard
  BY DEF IndInv, Inv
<1>3. ~ProbeQueued /\ active # "probe" /\ unreported # "probe"
  BY <1>2 DEF OneProbe, ProbeAround, Checking, SendProbe
<1>4. /\ highQ' \in Seq(Item) /\ Once(highQ', "probe")
      /\ \/ active = "none" /\ active' = "probe" /\ stage' = "out" /\ highQ' = highQ
         \/ /\ active # "none" /\ active' = active /\ stage' = stage
            /\ Elems(highQ') = Elems(highQ) \cup {"probe"}
  <2>1. highQ \in Seq(Item) /\ Once(highQ, "probe") /\ "probe" \notin Elems(highQ)
    BY <1>1, <1>2, <1>3 DEF GateTyped, OneProbe, ProbeQueued
  <2>2. "probe" \in Item
    BY DEF Item
  <2>3. CASE active = "none"
    BY <2>1, <2>3 DEF SendProbe
  <2>4. CASE active # "none"
    <3>1. highQ' = Append(highQ, "probe") /\ active' = active /\ stage' = stage
      BY <2>4 DEF SendProbe
    <3> QED BY <2>1, <2>2, <2>4, <3>1, OnceAppend, ElemsAppend
  <2> QED BY <2>3, <2>4
<1>5. /\ task = "check" /\ link = "up" /\ task' = "sending"
      /\ late' = FALSE /\ sentEvent' = FALSE /\ own' = TRUE
      /\ answer' = "none" /\ spoke' = "unsent" /\ forced' = FALSE /\ since' = FALSE
      /\ UNCHANGED <<wake, missed, session, normalQ, unreported, quiet, silent, heard,
                      dead, cancels>>
  BY DEF SendProbe
<1> USE DEF Frame, Item, Checking, ProbeAround, ProbeQueued, watch, session, gate, probe, rx
<1>6. WatchTyped'
  BY <1>1, <1>2, <1>3, <1>4, <1>5
  DEF WatchTyped
<1>7. LinkTyped'
  BY <1>1, <1>2, <1>3, <1>4, <1>5
  DEF LinkTyped
<1>8. CountsTyped'
  BY <1>1, <1>2, <1>3, <1>4, <1>5
  DEF CountsTyped, CountIsOpen
<1>9. GateTyped'
  BY <1>1, <1>2, <1>3, <1>4, <1>5
  DEF GateTyped
<1>10. ProbeTyped'
  BY <1>1, <1>2, <1>3, <1>4, <1>5
  DEF ProbeTyped
<1>11. RxTyped'
  BY <1>1, <1>2, <1>3, <1>4, <1>5
  DEF RxTyped
<1>12. Watched'
  BY <1>1, <1>2, <1>3, <1>4, <1>5
  DEF Watched, OwnCheck, GateTyped
<1>13. CountIsOpen'
  BY <1>1, <1>2, <1>3, <1>4, <1>5
  DEF CountIsOpen, GateTyped
<1>14. OneProbe'
  BY <1>1, <1>2, <1>3, <1>4, <1>5
  DEF OneProbe, EventMeansSent, LossIsReported, GateTyped
<1>15. WriteIsReported'
  BY <1>1, <1>2, <1>3, <1>4, <1>5
  DEF WriteIsReported, OneProbe, EventMeansSent, LossIsReported, GateTyped
<1>16. EventMeansSent'
  BY <1>1, <1>2, <1>3, <1>4, <1>5
  DEF EventMeansSent, OneProbe, WriteIsReported, LossIsReported, GateTyped
<1>17. LossIsReported'
  BY <1>1, <1>2, <1>3, <1>4, <1>5
  DEF LossIsReported, OneProbe, EventMeansSent, GateTyped
<1>18. OwnCheck'
  BY <1>1, <1>2, <1>3, <1>4, <1>5
  DEF OwnCheck, OneProbe, WriteIsReported, EventMeansSent, LossIsReported, GateTyped
<1>19. SpokeIsHeard'
  BY <1>1, <1>2, <1>3, <1>4, <1>5
  DEF SpokeIsHeard, OneProbe, WriteIsReported, EventMeansSent, LossIsReported, OwnCheck,
        GateTyped
<1> QED BY <1>6, <1>7, <1>8, <1>9, <1>10, <1>11, <1>12, <1>13, <1>14, <1>15, <1>16,
      <1>17, <1>18, <1>19 DEF IndInv, KeepaliveTypeOK, Inv

\* A check ends, with its probe nowhere any more.
LEMMA IndVerdict ==
  ASSUME IndInv, Checking, NEW ok \in BOOLEAN, link = "up" => own \/ ok, Verdict(ok),
         GateTyped', Once(highQ', "probe"),
         "probe" \notin Elems(highQ'), active' # "probe", unreported' # "probe",
         stage' = "written" /\ active' # "none" => unreported' = active',
         link # "up" /\ ~notice =>
             active' = "none" /\ highQ' = <<>> /\ unreported' = "none",
         UNCHANGED <<forced, wake, normalQ, quiet, silent, dead, cancels>>
  PROVE  IndInv'
<1>1. WatchTyped /\ LinkTyped /\ CountsTyped /\ GateTyped /\ ProbeTyped /\ RxTyped
  BY DEF IndInv, KeepaliveTypeOK
<1>2. Watched /\ CountIsOpen /\ OneProbe /\ WriteIsReported
      /\ EventMeansSent /\ LossIsReported /\ OwnCheck /\ SpokeIsHeard
  BY DEF IndInv, Inv
<1>3. task # "off" /\ missed < MaxMissed /\ missed \in Nat /\ missed + 1 <= MaxMissed
  BY <1>1, <1>2, KeepaliveBounds DEF Checking, CountIsOpen, CountsTyped
<1>4. /\ own' = FALSE /\ late' = FALSE /\ sentEvent' = FALSE /\ answer' = "none"
      /\ heard' = FALSE /\ since' = FALSE /\ spoke' = "unsent"
  BY DEF Verdict, Forget
<1>5. /\ missed' \in 0..MaxMissed
      /\ task' \in {"check", "off"} /\ (task' # "off" => missed' < MaxMissed)
  BY <1>3, KeepaliveBounds DEF Verdict
<1>6. \/ link' = link /\ notice' = notice /\ (task' # "off" \/ link # "up")
      \/ link' = "lost" /\ notice' = TRUE
  BY DEF Verdict, session
<1> USE DEF Frame, Item, Checking, ProbeAround, ProbeQueued, watch, session, gate, probe, rx
<1>7. WatchTyped'
  BY <1>1, <1>2, <1>4, <1>5, <1>6
  DEF WatchTyped
<1>8. LinkTyped'
  BY <1>1, <1>2, <1>4, <1>5, <1>6
  DEF LinkTyped
<1>9. CountsTyped'
  BY <1>1, <1>2, <1>4, <1>5, <1>6
  DEF CountsTyped
<1>10. ProbeTyped'
  BY <1>1, <1>2, <1>4, <1>5, <1>6
  DEF ProbeTyped
<1>11. RxTyped'
  BY <1>1, <1>2, <1>4, <1>5, <1>6
  DEF RxTyped
<1>12. Watched'
  BY <1>1, <1>2, <1>4, <1>5, <1>6
  DEF Watched
<1>13. CountIsOpen'
  BY <1>1, <1>2, <1>4, <1>5, <1>6
  DEF CountIsOpen
<1>14. OneProbe'
  BY <1>1, <1>2, <1>4, <1>5, <1>6
  DEF OneProbe
<1>15. WriteIsReported'
  BY <1>1, <1>2, <1>4, <1>5, <1>6
  DEF WriteIsReported
<1>16. EventMeansSent'
  BY <1>1, <1>2, <1>4, <1>5, <1>6
  DEF EventMeansSent
<1>17. LossIsReported'
  BY <1>1, <1>2, <1>4, <1>5, <1>6
  DEF LossIsReported
<1>18. OwnCheck'
  BY <1>1, <1>2, <1>4, <1>5, <1>6
  DEF OwnCheck
<1>19. SpokeIsHeard'
  BY <1>1, <1>2, <1>4, <1>5, <1>6
  DEF SpokeIsHeard
<1> QED BY <1>7, <1>8, <1>9, <1>10, <1>11, <1>12, <1>13, <1>14, <1>15, <1>16, <1>17,
      <1>18, <1>19 DEF IndInv, KeepaliveTypeOK, Inv

LEMMA IndSentSeen ==
  ASSUME IndInv, SentSeen
  PROVE  IndInv'
<1>1. WatchTyped /\ LinkTyped /\ CountsTyped /\ GateTyped /\ ProbeTyped /\ RxTyped
  BY DEF IndInv, KeepaliveTypeOK
<1>2. Watched /\ CountIsOpen /\ OneProbe /\ WriteIsReported
      /\ EventMeansSent /\ LossIsReported /\ OwnCheck /\ SpokeIsHeard
  BY DEF IndInv, Inv
<1> DEFINE h == active = "probe" /\ stage = "sent" /\ heard
<1>3. /\ task = "sending" /\ sentEvent
      /\ UNCHANGED <<forced, wake, gate, quiet, silent, dead, cancels>>
  BY DEF SentSeen
<1>4. ~ProbeQueued /\ unreported # "probe"
  BY <1>2, <1>3 DEF EventMeansSent
<1>5. CASE answer # "none"
  <2>1. Verdict(answer = "reply" \/ h)
    BY <1>5 DEF SentSeen
  <2>2. active # "probe"
    BY <1>2, <1>5 DEF EventMeansSent
  <2>3. link = "up" => own
    BY <1>2, <1>3 DEF OwnCheck, Checking
  <2>4. Checking /\ GateTyped' /\ Once(highQ', "probe") /\ "probe" \notin Elems(highQ')
    BY <1>1, <1>2, <1>3, <1>4 DEF Checking, GateTyped, OneProbe, ProbeQueued, gate
  <2>5. /\ active' # "probe" /\ unreported' # "probe"
        /\ stage' = "written" /\ active' # "none" => unreported' = active'
        /\ link # "up" /\ ~notice =>
              active' = "none" /\ highQ' = <<>> /\ unreported' = "none"
    BY <1>2, <1>3, <1>4, <2>2 DEF WriteIsReported, LossIsReported, gate
  <2>6. UNCHANGED <<forced, wake, normalQ, quiet, silent, dead, cancels>>
    BY <1>3 DEF gate
  <2> HIDE DEF h
  <2>7. (answer = "reply" \/ h) \in BOOLEAN
    OBVIOUS
  <2> QED BY <2>1, <2>3, <2>4, <2>5, <2>6, <2>7, IndVerdict
<1>6. CASE answer = "none"
  <2>1. heard' = h
    BY <1>6 DEF SentSeen
  <2>3. /\ task' = "waiting"
        /\ UNCHANGED <<own, missed, session, probe, since, spoke>>
    BY <1>6 DEF SentSeen
  <2>2. heard' \in BOOLEAN /\ (heard' <=> active = "probe" /\ stage = "sent" /\ heard)
    BY <2>1
  <2> HIDE DEF h
  <2> USE DEF Frame, Item, Checking, ProbeAround, ProbeQueued, watch, session, gate,
      probe, rx
  <2>4. WatchTyped'
    BY <1>1, <1>2, <1>3, <1>6, <2>2, <2>3
    DEF WatchTyped
  <2>5. LinkTyped'
    BY <1>1, <1>2, <1>3, <1>6, <2>2, <2>3
    DEF LinkTyped
  <2>6. CountsTyped'
    BY <1>1, <1>2, <1>3, <1>6, <2>2, <2>3
    DEF CountsTyped
  <2>7. GateTyped'
    BY <1>1, <1>2, <1>3, <1>6, <2>2, <2>3
    DEF GateTyped
  <2>8. ProbeTyped'
    BY <1>1, <1>2, <1>3, <1>6, <2>2, <2>3
    DEF ProbeTyped
  <2>9. RxTyped'
    BY <1>1, <1>2, <1>3, <1>6, <2>2, <2>3
    DEF RxTyped
  <2>10. Watched'
    BY <1>1, <1>2, <1>3, <1>6, <2>2, <2>3
    DEF Watched
  <2>11. CountIsOpen'
    BY <1>1, <1>2, <1>3, <1>6, <2>2, <2>3
    DEF CountIsOpen
  <2>12. OneProbe'
    BY <1>1, <1>2, <1>3, <1>6, <2>2, <2>3
    DEF OneProbe
  <2>13. WriteIsReported'
    BY <1>1, <1>2, <1>3, <1>6, <2>2, <2>3
    DEF WriteIsReported
  <2>14. EventMeansSent'
    BY <1>1, <1>2, <1>3, <1>6, <2>2, <2>3
    DEF EventMeansSent
  <2>15. LossIsReported'
    BY <1>1, <1>2, <1>3, <1>6, <2>2, <2>3
    DEF LossIsReported
  <2>16. OwnCheck'
    BY <1>1, <1>2, <1>3, <1>6, <2>2, <2>3
    DEF OwnCheck
  <2>17. SpokeIsHeard'
    BY <1>1, <1>2, <1>3, <1>6, <2>2, <2>3
    DEF SpokeIsHeard
  <2> QED BY <2>4, <2>5, <2>6, <2>7, <2>8, <2>9, <2>10, <2>11, <2>12, <2>13, <2>14,
        <2>15, <2>16, <2>17 DEF IndInv, KeepaliveTypeOK, Inv
<1> QED BY <1>5, <1>6

LEMMA IndAnswerSeen ==
  ASSUME IndInv, AnswerSeen
  PROVE  IndInv'
<1>1. WatchTyped /\ LinkTyped /\ CountsTyped /\ GateTyped /\ ProbeTyped /\ RxTyped
  BY DEF IndInv, KeepaliveTypeOK
<1>2. Watched /\ CountIsOpen /\ OneProbe /\ WriteIsReported
      /\ EventMeansSent /\ LossIsReported /\ OwnCheck /\ SpokeIsHeard
  BY DEF IndInv, Inv
<1>3. /\ task = "waiting" /\ answer # "none" /\ Verdict(answer = "reply" \/ heard)
      /\ UNCHANGED <<forced, wake, gate, quiet, silent, dead, cancels>>
  BY DEF AnswerSeen
<1>4. ~ProbeQueued /\ unreported # "probe" /\ active # "probe"
  BY <1>2, <1>3 DEF EventMeansSent
<1>5. Checking /\ (link = "up" => own)
  BY <1>2, <1>3 DEF OwnCheck, Checking
<1>6. GateTyped' /\ Once(highQ', "probe") /\ "probe" \notin Elems(highQ')
  BY <1>1, <1>2, <1>3, <1>4 DEF GateTyped, OneProbe, ProbeQueued, gate
<1>7. /\ active' # "probe" /\ unreported' # "probe"
      /\ stage' = "written" /\ active' # "none" => unreported' = active'
      /\ link # "up" /\ ~notice =>
            active' = "none" /\ highQ' = <<>> /\ unreported' = "none"
  BY <1>2, <1>3, <1>4 DEF WriteIsReported, LossIsReported, gate
<1>8. UNCHANGED <<forced, wake, normalQ, quiet, silent, dead, cancels>>
  BY <1>3 DEF gate
<1>9. (answer = "reply" \/ heard) \in BOOLEAN
  OBVIOUS
<1> QED BY <1>3, <1>5, <1>6, <1>7, <1>8, <1>9, IndVerdict

LEMMA IndSendWaitEnds ==
  ASSUME IndInv, SendWaitEnds
  PROVE  IndInv'
<1>1. WatchTyped /\ LinkTyped /\ CountsTyped /\ GateTyped /\ ProbeTyped /\ RxTyped
  BY DEF IndInv, KeepaliveTypeOK
<1>2. Watched /\ CountIsOpen /\ OneProbe /\ WriteIsReported
      /\ EventMeansSent /\ LossIsReported /\ OwnCheck /\ SpokeIsHeard
  BY DEF IndInv, Inv
<1>3. /\ task = "sending" /\ ~sentEvent /\ Verdict(since)
      /\ highQ' = Without(highQ, "probe") /\ stage' = stage
      /\ active' = IF active = "probe" THEN "orphan" ELSE active
      /\ unreported' = IF unreported = "probe" THEN "orphan" ELSE unreported
      /\ UNCHANGED <<forced, wake, normalQ, quiet, silent, dead, cancels>>
  BY DEF SendWaitEnds
<1>4. /\ Checking /\ (link = "up" => own \/ since) /\ since \in BOOLEAN
  BY <1>1, <1>2, <1>3 DEF OwnCheck, Checking, RxTyped
<1>5. highQ \in Seq(Item) /\ Once(highQ, "probe")
  BY <1>1, <1>2 DEF GateTyped, OneProbe
<1>6. highQ' \in Seq(Item) /\ Elems(highQ') = Elems(highQ) \ {"probe"}
  BY <1>3, <1>5, ElemsWithout
<1>7. Once(highQ', "probe") /\ "probe" \notin Elems(highQ')
  BY <1>6 DEF Once, Elems
<1>8. GateTyped'
  BY <1>1, <1>3, <1>6 DEF GateTyped, Frame, Item
<1>9. /\ active' # "probe" /\ unreported' # "probe"
      /\ stage' = "written" /\ active' # "none" => unreported' = active'
  BY <1>2, <1>3 DEF WriteIsReported
<1>10. ASSUME link # "up", ~notice
       PROVE  active' = "none" /\ highQ' = <<>> /\ unreported' = "none"
  <2>1. active = "none" /\ highQ = <<>> /\ unreported = "none"
    BY <1>2, <1>10 DEF LossIsReported
  <2>2. Without(<<>>, "probe") = <<>>
    BY ElemsEmpty DEF Without
  <2> QED BY <1>3, <2>1, <2>2
<1> QED BY <1>3, <1>4, <1>7, <1>8, <1>9, <1>10, IndVerdict

\* The gate is released, or something is queued: what _try_send_next then does
\* to the queues, whatever the active command ended with.
LEMMA IndSend ==
  ASSUME IndInv, NEW act, NEW hq \in Seq(Item), NEW nq \in 0..MaxQueue, NEW ans,
         TrySendNext(act, hq, nq, ans),
         Once(hq, "probe"), "probe" \in Elems(hq) <=> "probe" \in Elems(highQ),
         act \in {active, "none"},
         act = active \/ active # "probe" => ans = answer,
         active = "probe" /\ act = "none" =>
             \/ ans = "reply" /\ (Checking => since')
             \/ ans = "timeout" /\ stage = "sent" /\ task # "sending",
         link = "up" \/ notice,
         RxTyped', spoke' # "unsent" => spoke # "unsent",
         \/ heard' = heard /\ since' = since /\ spoke' = spoke
         \/ Checking => heard' /\ since',
         UNCHANGED <<task, own, missed, session, unreported, late, dead>>,
         forced' \in BOOLEAN, wake' \in BOOLEAN, cancels' \in 0..MaxCancels
  PROVE  IndInv'
<1>1. WatchTyped /\ LinkTyped /\ CountsTyped /\ GateTyped /\ ProbeTyped /\ RxTyped
  BY DEF IndInv, KeepaliveTypeOK
<1>2. Watched /\ CountIsOpen /\ OneProbe /\ WriteIsReported
      /\ EventMeansSent /\ LossIsReported /\ OwnCheck /\ SpokeIsHeard
  BY DEF IndInv, Inv
<1>3. \/ /\ act # "none" \/ link # "up"
         /\ active' = act /\ highQ' = hq /\ normalQ' = nq /\ answer' = ans
         /\ sentEvent' = sentEvent
         /\ stage' = IF act = "none" THEN "out" ELSE stage
      \/ /\ act = "none" /\ link = "up" /\ stage' = "out"
         /\ highQ' \in Seq(Item) /\ Once(highQ', "probe") /\ normalQ' \in 0..MaxQueue
         /\ \/ /\ "probe" \in Elems(hq) /\ "probe" \notin Elems(highQ')
               /\ active' \in {"cmd", "none"}
               /\ answer' = "timeout" /\ sentEvent' = TRUE
            \/ /\ "probe" \in Elems(hq) /\ "probe" \notin Elems(highQ')
               /\ active' = "probe" /\ answer' = ans /\ sentEvent' = sentEvent
            \/ /\ "probe" \in Elems(hq) <=> "probe" \in Elems(highQ')
               /\ active' \in {"cmd", "none"}
               /\ answer' = ans /\ sentEvent' = sentEvent
  BY KeepaliveBounds, TrySendNextCases
<1>4. ans \in {"none", "reply", "timeout", "error"}
  BY <1>1, <1>2 DEF ProbeTyped
<1> USE DEF Frame, Item, Checking, ProbeAround, ProbeQueued, watch, session, gate, probe, rx
<1>5. WatchTyped'
  BY <1>1, <1>2, <1>3, <1>4
  DEF WatchTyped
<1>6. LinkTyped'
  BY <1>1, <1>2, <1>3, <1>4
  DEF LinkTyped
<1>7. CountsTyped'
  BY <1>1, <1>2, <1>3, <1>4
  DEF CountsTyped
<1>8. GateTyped'
  BY <1>1, <1>2, <1>3, <1>4
  DEF GateTyped
<1>9. ProbeTyped'
  BY <1>1, <1>2, <1>3, <1>4
  DEF ProbeTyped
<1>10. Watched'
  BY <1>1, <1>2, <1>3, <1>4
  DEF Watched
<1>11. CountIsOpen'
  BY <1>1, <1>2, <1>3, <1>4
  DEF CountIsOpen
<1>12. OneProbe'
  BY <1>1, <1>2, <1>3, <1>4
  DEF OneProbe, EventMeansSent
<1>13. WriteIsReported'
  BY <1>1, <1>2, <1>3, <1>4
  DEF WriteIsReported, OneProbe, EventMeansSent
<1>14. EventMeansSent'
  BY <1>1, <1>2, <1>3, <1>4
  DEF EventMeansSent, OneProbe, WriteIsReported
<1>15. LossIsReported'
  BY <1>1, <1>2, <1>3, <1>4
  DEF LossIsReported
<1>16. OwnCheck'
  BY <1>1, <1>2, <1>3, <1>4
  DEF OwnCheck, OneProbe, EventMeansSent
<1>17. SpokeIsHeard'
  BY <1>1, <1>2, <1>3, <1>4
  DEF SpokeIsHeard, OneProbe, EventMeansSent
<1> QED BY <1>5, <1>6, <1>7, <1>8, <1>9, <1>10, <1>11, <1>12, <1>13, <1>14, <1>15, <1>16,
      <1>17 DEF IndInv, KeepaliveTypeOK, Inv

LEMMA IndReply ==
  ASSUME IndInv, Reply
  PROVE  IndInv'
<1>1. WatchTyped /\ LinkTyped /\ CountsTyped /\ GateTyped /\ ProbeTyped /\ RxTyped
  BY DEF IndInv, KeepaliveTypeOK
<1>2. EventMeansSent /\ LossIsReported /\ Once(highQ, "probe")
  BY DEF IndInv, Inv, OneProbe
<1> DEFINE ans == IF active = "probe" THEN "reply" ELSE answer
<1>3. /\ link = "up" /\ TrySendNext("none", highQ, normalQ, ans) /\ Received
      /\ UNCHANGED <<task, own, missed, session, unreported, late, dead>>
      /\ UNCHANGED <<forced, wake, cancels>>
  BY DEF Reply, Release, watch
<1>4. heard' = Checking /\ since' = Checking
  BY <1>3 DEF Received
<1>5. Checking \in BOOLEAN
  BY DEF Checking
<1>6. /\ heard' \in BOOLEAN /\ since' \in BOOLEAN
      /\ Checking => heard' /\ since'
  BY <1>4, <1>5
<1>7. RxTyped' /\ (spoke' # "unsent" => spoke # "unsent")
  BY <1>1, <1>3, <1>6 DEF RxTyped, Received
<1>8. highQ \in Seq(Item) /\ normalQ \in 0..MaxQueue
  BY <1>1 DEF GateTyped, CountsTyped
<1>9. forced' \in BOOLEAN /\ wake' \in BOOLEAN /\ cancels' \in 0..MaxCancels
  BY <1>1, <1>3 DEF WatchTyped, CountsTyped
<1> QED BY <1>2, <1>3, <1>6, <1>7, <1>8, <1>9, IndSend

LEMMA IndReplyTimeout ==
  ASSUME IndInv, ReplyTimeout
  PROVE  IndInv'
<1>1. WatchTyped /\ LinkTyped /\ CountsTyped /\ GateTyped /\ ProbeTyped /\ RxTyped
  BY DEF IndInv, KeepaliveTypeOK
<1>2. EventMeansSent /\ LossIsReported /\ Once(highQ, "probe")
  BY DEF IndInv, Inv, OneProbe
<1> DEFINE ans == IF active = "probe" THEN "timeout" ELSE answer
<1>3. /\ TrySendNext("none", highQ, normalQ, ans)
      /\ active # "none" /\ stage = "sent" /\ ~(active = "probe" /\ task = "sending")
      /\ UNCHANGED <<task, own, missed, session, unreported, late, dead>>
      /\ UNCHANGED <<rx, cancels>>
  BY DEF ReplyTimeout, Release
<1>4. link = "up" \/ notice
  BY <1>2, <1>3 DEF LossIsReported
<1>5. RxTyped' /\ heard' = heard /\ since' = since /\ spoke' = spoke
  BY <1>1, <1>3 DEF RxTyped, rx
<1>6. highQ \in Seq(Item) /\ normalQ \in 0..MaxQueue
  BY <1>1 DEF GateTyped, CountsTyped
<1>7. cancels' \in 0..MaxCancels
  BY <1>1, <1>3 DEF CountsTyped
<1>8. forced' \in BOOLEAN /\ wake' \in BOOLEAN
  BY <1>1 DEF WatchTyped, ReplyTimeout
<1> QED BY <1>2, <1>3, <1>4, <1>5, <1>6, <1>7, <1>8, IndSend

LEMMA IndCommandCancelled ==
  ASSUME IndInv, CommandCancelled
  PROVE  IndInv'
<1>1. WatchTyped /\ LinkTyped /\ CountsTyped /\ GateTyped /\ ProbeTyped /\ RxTyped
  BY DEF IndInv, KeepaliveTypeOK
<1>2. EventMeansSent /\ LossIsReported /\ Once(highQ, "probe")
  BY DEF IndInv, Inv, OneProbe
<1>3. /\ TrySendNext("none", highQ, normalQ, answer)
      /\ active = "cmd" /\ cancels < MaxCancels /\ cancels' = cancels + 1
      /\ UNCHANGED <<task, own, missed, session, unreported, late, dead>>
      /\ UNCHANGED <<rx, forced, wake>>
  BY DEF CommandCancelled, Release, watch
<1>4. link = "up" \/ notice
  BY <1>2, <1>3 DEF LossIsReported
<1>5. RxTyped' /\ heard' = heard /\ since' = since /\ spoke' = spoke
  BY <1>1, <1>3 DEF RxTyped, rx
<1>6. highQ \in Seq(Item) /\ normalQ \in 0..MaxQueue
  BY <1>1 DEF GateTyped, CountsTyped
<1>7. cancels' \in 0..MaxCancels
  BY <1>1, <1>3, KeepaliveBounds DEF CountsTyped
<1>8. forced' \in BOOLEAN /\ wake' \in BOOLEAN
  BY <1>1, <1>3 DEF WatchTyped
<1> QED BY <1>2, <1>3, <1>4, <1>5, <1>6, <1>7, <1>8, IndSend

LEMMA IndCommand ==
  ASSUME IndInv, Command
  PROVE  IndInv'
<1>1. WatchTyped /\ LinkTyped /\ CountsTyped /\ GateTyped /\ ProbeTyped /\ RxTyped
  BY DEF IndInv, KeepaliveTypeOK
<1>2. EventMeansSent /\ LossIsReported /\ Once(highQ, "probe")
  BY DEF IndInv, Inv, OneProbe
<1>3. PICK hq, nq :
        /\ TrySendNext(active, hq, nq, answer)
        /\ \/ normalQ < MaxQueue /\ hq = highQ /\ nq = normalQ + 1
           \/ hq = Append(highQ, "cmd") /\ nq = normalQ
  BY DEF Command
<1>4. /\ link = "up"
      /\ UNCHANGED <<task, own, missed, session, unreported, late, dead>>
      /\ UNCHANGED <<rx, forced, wake, cancels>>
  BY DEF Command, watch
<1>5. highQ \in Seq(Item) /\ normalQ \in 0..MaxQueue /\ "cmd" \in Item
  BY <1>1 DEF GateTyped, CountsTyped, Item
<1>6. /\ Append(highQ, "cmd") \in Seq(Item) /\ Once(Append(highQ, "cmd"), "probe")
      /\ Elems(Append(highQ, "cmd")) = Elems(highQ) \cup {"cmd"}
  BY <1>2, <1>5, OnceAppend, ElemsAppend
<1>7. hq \in Seq(Item) /\ Once(hq, "probe")
      /\ ("probe" \in Elems(hq) <=> "probe" \in Elems(highQ))
  <2>1. CASE hq = highQ
    BY <1>2, <1>5, <2>1
  <2>2. CASE hq = Append(highQ, "cmd")
    BY <1>6, <2>2
  <2> QED BY <1>3, <2>1, <2>2
<1>8. nq \in 0..MaxQueue
  BY <1>3, <1>5, KeepaliveBounds
<1>9. RxTyped' /\ heard' = heard /\ since' = since /\ spoke' = spoke
  BY <1>1, <1>4 DEF RxTyped, rx
<1>10. forced' \in BOOLEAN /\ wake' \in BOOLEAN /\ cancels' \in 0..MaxCancels
  BY <1>1, <1>4 DEF WatchTyped, CountsTyped
<1> HIDE DEF IndInv
<1> QED BY <1>3, <1>4, <1>7, <1>8, <1>9, <1>10, IndSend

LEMMA IndStutter == IndInv /\ UNCHANGED linkVars => IndInv'
<1> SUFFICES ASSUME IndInv, UNCHANGED linkVars PROVE IndInv'
  OBVIOUS
<1> USE DEF linkVars, watch, session, gate, probe, rx
<1>1. WatchTyped' /\ LinkTyped'
  BY DEF IndInv, KeepaliveTypeOK, WatchTyped, LinkTyped
<1>2. CountsTyped' /\ GateTyped'
  BY DEF IndInv, KeepaliveTypeOK, CountsTyped, GateTyped
<1>3. ProbeTyped' /\ RxTyped'
  BY DEF IndInv, KeepaliveTypeOK, ProbeTyped, RxTyped
<1>4. Watched' /\ CountIsOpen'
  BY DEF IndInv, Inv, Watched, CountIsOpen
<1>5. OneProbe' /\ WriteIsReported'
  BY DEF IndInv, Inv, OneProbe, WriteIsReported, ProbeAround, ProbeQueued, Checking
<1>6. EventMeansSent' /\ LossIsReported'
  BY DEF IndInv, Inv, EventMeansSent, LossIsReported, ProbeQueued, Checking
<1>7. OwnCheck' /\ SpokeIsHeard'
  BY DEF IndInv, Inv, OwnCheck, SpokeIsHeard, ProbeAround, ProbeQueued, Checking
<1> QED BY <1>1, <1>2, <1>3, <1>4, <1>5, <1>6, <1>7 DEF IndInv, KeepaliveTypeOK, Inv

LEMMA IndNext == IndInv /\ [KeepaliveNext]_linkVars => IndInv'
<1> SUFFICES ASSUME IndInv, [KeepaliveNext]_linkVars PROVE IndInv'
  OBVIOUS
<1>1. CASE SessionSteps
  BY <1>1, IndSession, IndLink, IndBroadcast, IndReply DEF SessionSteps
<1>2. CASE Scheduler
  BY <1>2, IndCommand, IndFrame, IndReplyTimeout, IndCommandCancelled, IndLoop DEF Scheduler
<1>3. CASE Watch
  BY <1>3, IndLoop, IndSendProbe, IndSentSeen, IndSendWaitEnds, IndAnswerSeen DEF Watch
<1> QED BY <1>1, <1>2, <1>3, IndStutter DEF KeepaliveNext

LEMMA Inductive == KeepaliveSpec => []IndInv
  BY IndInit, IndNext, PTL DEF KeepaliveSpec

-----------------------------------------------------------------------------
(* What the watch promises.                                                *)

\* The variables stay in their sets: above all the misses counted, the commands
\* queued and the commands cancelled stay within their bounds.
THEOREM KeepaliveTypeCorrect == KeepaliveSpec => []KeepaliveTypeOK
<1>1. IndInv => KeepaliveTypeOK
  BY DEF IndInv
<1> QED BY <1>1, Inductive, PTL

\* A session that is up has a keepalive task, whatever became of the loop that
\* watched the session before it: _start_keepalive_loop replaces a task that is
\* done, and one that outlived its session cannot end on the probe it sent to
\* that session.
THEOREM WatchedAlways == KeepaliveSpec => []Watched
<1>1. IndInv => Watched
  BY DEF IndInv, Inv
<1> QED BY <1>1, Inductive, PTL

\* Only a check that ends badly drops a session.
LEMMA DropIsVerdict ==
  ASSUME IndInv, [KeepaliveNext]_linkVars, Dropped
  PROVE  SentSeen \/ SendWaitEnds \/ AnswerSeen
<1> SUFFICES ASSUME ~(SentSeen \/ SendWaitEnds \/ AnswerSeen) PROVE FALSE
  OBVIOUS
<1>1. task # "off" /\ task' = "off" /\ link' = "lost"
  BY DEF Dropped
<1>2. CASE SessionSteps
  BY <1>1, <1>2 DEF SessionSteps, ConnectLink, CloseLink, LinkLost, OnDisconnected, PanelDies,
     Broadcast, Reply, QuietPasses, watch
<1>3. CASE Scheduler
  BY <1>1, <1>3 DEF Scheduler, Command, FrameWritten, OnSent, ReplyTimeout,
     CommandCancelled, LinkCheck, watch
<1>4. CASE Watch
  BY <1>1, <1>4 DEF Watch, Sleep, SleepEnds, Poll, PollEnds, SendProbe, DeadlinePasses,
        watch
<1>5. CASE UNCHANGED linkVars
  BY <1>1, <1>5 DEF linkVars, watch
<1> QED BY <1>2, <1>3, <1>4, <1>5 DEF KeepaliveNext

\* CHANGES #88: traffic received after the probe was sent rescues the session.
\* The check that ends without a reply has seen it: _last_rx_at is later than
\* sent_at, also when the task runs long after the frame was reported sent.
THEOREM RescueKept == KeepaliveSpec => TrafficRescues
<1>1. IndInv /\ [KeepaliveNext]_linkVars => [Dropped => spoke # "yes"]_linkVars
  <2> SUFFICES ASSUME IndInv, [KeepaliveNext]_linkVars, Dropped, spoke = "yes"
               PROVE  FALSE
    OBVIOUS
  <2>1. EventMeansSent /\ SpokeIsHeard /\ link = "up" /\ task' = "off"
    BY DEF IndInv, Inv, Dropped
  <2>2. ~Verdict(TRUE)
    BY <2>1 DEF Verdict
  <2>3. CASE SentSeen
    <3>1. task = "sending"
      BY <2>3 DEF SentSeen
    <3>2. answer # "none"
      BY <2>1, <2>3 DEF SentSeen
    <3>3. answer = "reply"
      BY <2>1, <3>1, <3>2 DEF SpokeIsHeard
    <3>4. Verdict(TRUE)
      BY <2>3, <3>2, <3>3 DEF SentSeen
    <3> QED BY <2>2, <3>4
  <2>4. CASE AnswerSeen
    <3>1. answer = "reply" \/ heard
      BY <2>1, <2>4 DEF SpokeIsHeard, AnswerSeen
    <3>2. Verdict(TRUE)
      BY <2>4, <3>1 DEF AnswerSeen
    <3> QED BY <2>2, <3>2
  <2>5. CASE SendWaitEnds
    BY <2>1, <2>5 DEF SpokeIsHeard, SendWaitEnds
  <2> QED BY <2>3, <2>4, <2>5, DropIsVerdict
<1> QED BY <1>1, Inductive, PTL DEF KeepaliveSpec, TrafficRescues

-----------------------------------------------------------------------------
(* The receiver of Framing is well formed whatever arrives.  Its names are   *)
(* those of Framing, behind Receiver!.                                      *)

CONSTANTS Base, StartChar, Protocols, Payloads, Preambles, MaxSize, Crc(_),
          MaxFrames, MaxFaults, MaxLinks

VARIABLES rcvState, escaping, justResynced, msgLength, inputBuffer, pending,
          wire, due, received, sent, faults, links

Receiver == INSTANCE Framing

\* The shortest frame is longer than its header.
LEMMA Sizes == Receiver!MinSize \in Nat /\ Receiver!MinSize > 3
  BY DEF Receiver!MinSize

\* A header of three bytes leaves room in every length that was accepted.
LEMMA HeaderFits ==
    ASSUME MaxSize \in Nat
    PROVE  \A m \in Receiver!MinSize..MaxSize : 3 \in 3..(m - 1)
  BY Sizes

\* The protocol byte and one length byte are a length under way.
LEMMA UnderWay == 1 \in 1..2 /\ 2 \in 1..2
  OBVIOUS

\* The buffer starts empty.
LEMMA Empty == <<>> \in Seq(Receiver!Byte)
  OBVIOUS

\* A byte appended to a buffer of bytes is a buffer of bytes, one longer.
LEMMA AppendByte ==
    ASSUME NEW s \in Seq(Receiver!Byte), NEW d \in Receiver!Byte
    PROVE  /\ Append(s, d) \in Seq(Receiver!Byte)
           /\ Len(Append(s, d)) = Len(s) + 1
           /\ Len(s) = 1 => Len(Append(s, d)) = 2
           /\ Len(s) = 2 => Len(Append(s, d)) = 3
  <1>1. Append(s, d) \in Seq(Receiver!Byte) /\ Len(Append(s, d)) = Len(s) + 1
    OBVIOUS
  <1>2. \A n \in Nat : (n = 1 => n + 1 = 2) /\ (n = 2 => n + 1 = 3)
    OBVIOUS
  <1>3. Len(s) \in Nat
    OBVIOUS
  <1> QED
    BY <1>1, <1>2, <1>3, Zenon

\* A new buffer is one protocol byte long.
LEMMA OneByte ==
    ASSUME NEW b \in Receiver!Byte
    PROVE  <<b>> \in Seq(Receiver!Byte) /\ Len(<<b>>) = 1
  OBVIOUS

\* deframe_feed leaves its DeframeState well formed after any byte: a length
\* that was accepted fits the buffer, and the buffer never outgrows it.
LEMMA FeedKeepsType ==
    ASSUME MaxSize \in Nat, Receiver!TypeOK, Receiver!Feed
    PROVE  Receiver!TypeOK'
  <1>1. CASE Receiver!StartByte
    BY <1>1 DEF Receiver!StartByte, Receiver!TypeOK
  <1>2. CASE Receiver!NewFrame
    <2>1. PICK b \in Receiver!Byte : inputBuffer' = <<b>>
      BY <1>2 DEF Receiver!NewFrame
    <2>2. inputBuffer' \in Seq(Receiver!Byte) /\ Len(inputBuffer') = 1
      BY <2>1, OneByte
    <2> QED
      BY <1>2, <2>2, UnderWay, Zenon DEF Receiver!NewFrame, Receiver!TypeOK
  <1>3. CASE Receiver!Discard
    BY <1>3 DEF Receiver!Discard, Receiver!ReadsAs, Receiver!TypeOK
  <1>4. CASE Receiver!SkipRepeated
    BY <1>4 DEF Receiver!SkipRepeated, Receiver!ReadsAs, Receiver!TypeOK
  <1>5. CASE Receiver!LengthLow
    <2>1. PICK d \in Receiver!Byte : Receiver!ReadsAs(d) /\ inputBuffer' = Append(inputBuffer, d)
      BY <1>5 DEF Receiver!LengthLow
    <2>2. inputBuffer' \in Seq(Receiver!Byte) /\ Len(inputBuffer') = 2
      <3>1. inputBuffer \in Seq(Receiver!Byte) /\ Len(inputBuffer) = 1
        BY <1>5 DEF Receiver!LengthLow, Receiver!TypeOK
      <3> QED
        BY <2>1, <3>1, AppendByte
    <2> QED
      BY <1>5, <2>1, <2>2, UnderWay, Zenon DEF Receiver!LengthLow, Receiver!ReadsAs, Receiver!TypeOK
  <1>6. CASE Receiver!LengthHigh
    <2>1. PICK d \in Receiver!Byte :
            LET length == inputBuffer[2] + Base * d
            IN /\ Receiver!ReadsAs(d)
               /\ IF length \in Receiver!MinSize..MaxSize
                  THEN /\ rcvState' = "WAIT_DATA" /\ msgLength' = length
                       /\ inputBuffer' = Append(inputBuffer, d)
                       /\ UNCHANGED justResynced
                  ELSE Receiver!Reset
      BY <1>6 DEF Receiver!LengthHigh
    <2>2. Append(inputBuffer, d) \in Seq(Receiver!Byte) /\ Len(Append(inputBuffer, d)) = 3
      <3>1. inputBuffer \in Seq(Receiver!Byte) /\ Len(inputBuffer) = 2
        BY <1>6 DEF Receiver!LengthHigh, Receiver!TypeOK
      <3> QED
        BY <3>1, AppendByte
    <2>3. CASE inputBuffer[2] + Base * d \in Receiver!MinSize..MaxSize
      <3>1. msgLength' \in Receiver!MinSize..MaxSize /\ Len(inputBuffer') = 3
        BY <2>1, <2>2, <2>3
      <3>2. Len(inputBuffer') \in 3..(msgLength' - 1)
        BY <3>1, HeaderFits
      <3> QED
        BY <2>1, <2>2, <2>3, <3>1, <3>2 DEF Receiver!ReadsAs, Receiver!TypeOK
    <2>4. CASE inputBuffer[2] + Base * d \notin Receiver!MinSize..MaxSize
      BY <2>1, <2>4, Empty DEF Receiver!Reset, Receiver!TypeOK
    <2> QED
      BY <2>3, <2>4
  <1>7. CASE Receiver!DataByte
    <2>1. PICK d \in Receiver!Byte : Receiver!ReadsAs(d) /\ inputBuffer' = Append(inputBuffer, d)
      BY <1>7 DEF Receiver!DataByte
    <2>2. inputBuffer' \in Seq(Receiver!Byte) /\ Len(inputBuffer') = Len(inputBuffer) + 1
      BY <2>1, AppendByte DEF Receiver!TypeOK
    <2>3. Len(inputBuffer') \in 3..(msgLength - 1)
      BY <1>7, <2>2 DEF Receiver!DataByte, Receiver!TypeOK
    <2> QED
      BY <1>7, <2>1, <2>2, <2>3 DEF Receiver!DataByte, Receiver!ReadsAs, Receiver!TypeOK
  <1>8. CASE Receiver!FrameDone
    BY <1>8, Empty DEF Receiver!FrameDone, Receiver!Reset, Receiver!TypeOK
  <1> QED
    BY <1>1, <1>2, <1>3, <1>4, <1>5, <1>6, <1>7, <1>8 DEF Receiver!Feed

\* The receiver is well formed in every reachable state, for any size of byte,
\* any frames and preambles, any checksum and any number of faults: it never
\* waits for a frame longer than its buffer, and never holds a byte too many.
\* Of Framing's assumptions only the buffer's size matters here.
THEOREM ReceiverWellFormed ==
    ASSUME MaxSize \in Nat
    PROVE  Receiver!Spec => []Receiver!TypeOK
  <1>1. Receiver!Init => Receiver!TypeOK
    BY Empty DEF Receiver!Init, Receiver!TypeOK
  <1>2. Receiver!TypeOK /\ [Receiver!Next]_Receiver!vars => Receiver!TypeOK'
    <2> SUFFICES ASSUME Receiver!TypeOK, [Receiver!Next]_Receiver!vars PROVE Receiver!TypeOK'
      OBVIOUS
    <2>1. CASE Receiver!Connect
      BY <2>1, Empty DEF Receiver!Connect, Receiver!Reset, Receiver!TypeOK
    <2>2. CASE Receiver!Send
      BY <2>2 DEF Receiver!Send, Receiver!deframe, Receiver!TypeOK
    <2>3. CASE Receiver!Fault
      BY <2>3 DEF Receiver!Fault, Receiver!deframe, Receiver!TypeOK
    <2>4. CASE Receiver!NothingLeft
      BY <2>4 DEF Receiver!NothingLeft, Receiver!deframe, Receiver!TypeOK
    <2>5. CASE Receiver!Feed
      BY <2>5, FeedKeepsType
    <2>6. CASE Receiver!TakeFrame
      BY <2>6 DEF Receiver!TakeFrame, Receiver!deframe, Receiver!TypeOK
    <2>7. CASE UNCHANGED Receiver!vars
      BY <2>7 DEF Receiver!vars, Receiver!deframe, Receiver!TypeOK
    <2> QED
      BY <2>1, <2>2, <2>3, <2>4, <2>5, <2>6, <2>7 DEF Receiver!Next
  <1> QED
    BY <1>1, <1>2, PTL DEF Receiver!Spec
=============================================================================
