----------------------- MODULE RequestPipelineProofs -----------------------
(***************************************************************************)
(* Theorems about RequestPipeline for every set of commands, every number  *)
(* of retries and every number of sessions.                                *)
(***************************************************************************)
EXTENDS RequestPipeline, QueueProofs

-----------------------------------------------------------------------------
(* Types.                                                                  *)

LEMMA PostsTyped ==
  ASSUME NEW q \in Seq(Post)
  PROVE  /\ Append(q, Stop) \in Seq(Post) /\ Append(q, Gone) \in Seq(Post)
         /\ q \o <<Stop, Gone>> \in Seq(Post)
         /\ \A c \in Cmd : Append(q, Message(c)) \in Seq(Post)
         /\ q # <<>> => Tail(q) \in Seq(Post)
<1>1. Stop \in Post /\ Gone \in Post /\ \A c \in Cmd : Message(c) \in Post
  BY DEF Post
<1>2. <<Stop, Gone>> \in Seq(Post)
  BY <1>1
<1> QED BY <1>1, <1>2, AppendProperties, ConcatProperties, HeadTailProperties

LEMMA QueuesTyped ==
  ASSUME TypeOK
  PROVE  /\ \A c \in Cmd : /\ Append(highQ, c) \in Seq(Cmd)
                           /\ Append(normalQ, c) \in Seq(Cmd)
                           /\ Append(outQ, c) \in Seq(Cmd)
                           /\ <<c>> \o highQ \in Seq(Cmd)
                           /\ Without(highQ, c) \in Seq(Cmd)
                           /\ Without(normalQ, c) \in Seq(Cmd)
                           /\ Without(outQ, c) \in Seq(Cmd)
         /\ Sendable => /\ Next1 \in Cmd
                        /\ HighRest \in Seq(Cmd) /\ NormalRest \in Seq(Cmd)
                        /\ <<Next1>> \o HighRest \in Seq(Cmd)
         /\ <<>> \in Seq(Cmd)
<1>1. highQ \in Seq(Cmd) /\ normalQ \in Seq(Cmd) /\ outQ \in Seq(Cmd)
  BY DEF TypeOK
<1>2. ASSUME NEW c \in Cmd
      PROVE  /\ Append(highQ, c) \in Seq(Cmd)
             /\ Append(normalQ, c) \in Seq(Cmd)
             /\ Append(outQ, c) \in Seq(Cmd)
             /\ <<c>> \o highQ \in Seq(Cmd)
             /\ Without(highQ, c) \in Seq(Cmd)
             /\ Without(normalQ, c) \in Seq(Cmd)
             /\ Without(outQ, c) \in Seq(Cmd)
  BY <1>1, ElemsAppend, ElemsPrepend, ElemsWithout
<1>3. ASSUME Sendable
      PROVE  /\ Next1 \in Cmd
             /\ HighRest \in Seq(Cmd) /\ NormalRest \in Seq(Cmd)
             /\ <<Next1>> \o HighRest \in Seq(Cmd)
  <2>1. Next1 \in Cmd /\ HighRest \in Seq(Cmd) /\ NormalRest \in Seq(Cmd)
    BY <1>1, <1>3, ElemsHeadTail DEF Sendable, Next1, HighRest, NormalRest
  <2> QED BY <2>1, ElemsPrepend
<1> QED BY <1>2, <1>3

LEMMA CountersTyped ==
  ASSUME NEW f \in [Cmd -> Nat], NEW c \in Cmd
  PROVE  /\ [f EXCEPT ![c] = f[c] + 1] \in [Cmd -> Nat]
         /\ f[c] > 0 => [f EXCEPT ![c] = f[c] - 1] \in [Cmd -> Nat]
         /\ [d \in Cmd |-> 0] \in [Cmd -> Nat]
  OBVIOUS

LEMMA SettleTyped ==
  ASSUME TypeOK, NEW S, NEW r \in Result, Settle(S, r)
  PROVE  result' \in [Cmd -> Result] /\ pending' \subseteq Cmd
  BY DEF TypeOK, Settle

LEMMA TransportFailureTyped ==
  ASSUME TypeOK, NEW c \in Cmd, NEW sent \in BOOLEAN, NEW hq \in Seq(Cmd),
         NEW r \in Result, TransportFailure(c, sent, hq, r)
  PROVE  /\ highQ' \in Seq(Cmd) /\ backoff' \subseteq Cmd
         /\ attempt' \in [Cmd -> 0..MaxRetries]
         /\ active' \in Cmd \cup {NoCmd} /\ timer' \in Cmd \cup {NoCmd}
         /\ activeSent' \in BOOLEAN /\ kick' \in BOOLEAN
         /\ pending' \subseteq Cmd /\ sentEvents' \subseteq Cmd
         /\ correlated' \subseteq Cmd
         /\ result' \in [Cmd -> Result]
<1>1. CASE RetryAllowed(c, sent)
  <2>1. attempt[c] \in 0..MaxRetries /\ attempt[c] + 1 \in 0..MaxRetries
    BY <1>1, Bounds, SMTT(30) DEF TypeOK, RetryAllowed
  <2>2. <<c>> \o hq \in Seq(Cmd)
    BY ElemsPrepend
  <2>3. [attempt EXCEPT ![c] = @ + 1] \in [Cmd -> 0..MaxRetries]
    BY <2>1 DEF TypeOK
  <2>4. /\ highQ' = (IF c \in Disarm THEN <<c>> \o hq ELSE hq)
        /\ backoff' = (IF c \in Disarm THEN backoff \ {c} ELSE backoff \cup {c})
        /\ attempt' = [attempt EXCEPT ![c] = @ + 1]
    BY <1>1 DEF TransportFailure
  <2>5. highQ' \in Seq(Cmd) /\ backoff' \subseteq Cmd
    BY <2>2, <2>4 DEF TypeOK
  <2> QED BY <1>1, <2>3, <2>4, <2>5 DEF TypeOK, TransportFailure, CompleteActive
<1>2. CASE ~RetryAllowed(c, sent)
  BY <1>2, SettleTyped DEF TypeOK, TransportFailure, CompleteActive
<1> QED BY <1>1, <1>2

LEMMA TypeInit == Init => TypeOK
<1> SUFFICES ASSUME Init PROVE TypeOK
  OBVIOUS
<1>1. <<>> \in Seq(Cmd) /\ <<>> \in Seq(Post)
  OBVIOUS
<1>2. 0 \in 0..MaxRetries /\ 0 \in 0..MaxSessions
  BY Bounds
<1>3. /\ attempt \in [Cmd -> 0..MaxRetries]
      /\ wire \in [Cmd -> Nat] /\ unanswered \in [Cmd -> Nat]
  BY <1>2 DEF Init
<1>4. result \in [Cmd -> Result] /\ outcome \in [Cmd -> Outcome]
      /\ frame \in [Cmd -> Stage]
  BY DEF Init, Result, Outcome, Stage
<1> QED BY <1>1, <1>2, <1>3, <1>4 DEF Init, TypeOK

LEMMA TypeSession == TypeOK /\ Session => TypeOK'
<1> SUFFICES ASSUME TypeOK, Session PROVE TypeOK'
  OBVIOUS
<1> USE DEF TypeOK, queues, gate, replies, callers, outbound, panel, Stage
<1>1. CASE Connect
  BY <1>1, Bounds DEF Connect
<1>2. CASE TeardownBegins
  BY <1>2, PostsTyped DEF TeardownBegins
<1>3. CASE TeardownCloses
  BY <1>3 DEF TeardownCloses
<1>4. CASE TeardownNotifies
  BY <1>4, PostsTyped DEF TeardownNotifies
<1>5. ASSUME NEW c \in Cmd, PanelAnswers(c) PROVE TypeOK'
  <2>1. unanswered' = [unanswered EXCEPT ![c] = unanswered[c] - 1]
        /\ unanswered[c] \in Nat /\ unanswered[c] > 0
    BY <1>5 DEF PanelAnswers
  <2>2. unanswered' \in [Cmd -> Nat]
    BY <2>1, CountersTyped
  <2> QED BY <1>5, <2>2, PostsTyped DEF PanelAnswers
<1> QED BY <1>1, <1>2, <1>3, <1>4, <1>5 DEF Session

LEMMA TypeCallers == TypeOK /\ Callers => TypeOK'
<1> SUFFICES ASSUME TypeOK, NEW c \in Cmd,
                    \/ Issue(c) \/ IssueRefused(c) \/ DeadlinePasses(c)
                    \/ CallerResumes(c) \/ CallerTimesOut(c) \/ CallerCancelled(c)
             PROVE  TypeOK'
  BY DEF Callers
<1> USE DEF TypeOK, queues, gate, replies, callers, outbound, conn, panel
<1>1. CASE Issue(c)
  BY <1>1, QueuesTyped, ZenonT(60) DEF Issue
<1>2. CASE IssueRefused(c)
  BY <1>2 DEF IssueRefused, Outcome
<1>3. CASE DeadlinePasses(c)
  BY <1>3, SMTT(30) DEF DeadlinePasses
<1>4. CASE CallerResumes(c)
  BY <1>4 DEF CallerResumes, Finish, Outcome, Result
<1>5. ASSUME CancelTransport(c)
      PROVE  /\ highQ' \in Seq(Cmd) /\ normalQ' \in Seq(Cmd) /\ outQ' \in Seq(Cmd)
             /\ backoff' \subseteq Cmd /\ attempt' \in [Cmd -> 0..MaxRetries]
             /\ active' \in Cmd \cup {NoCmd} /\ timer' \in Cmd \cup {NoCmd}
             /\ activeSent' \in BOOLEAN /\ kick' \in BOOLEAN
             /\ pending' \subseteq Cmd /\ sentEvents' \subseteq Cmd
             /\ correlated' \subseteq Cmd /\ confirmed' \subseteq Cmd
             /\ frame' \in [Cmd -> Stage] /\ result' \in [Cmd -> Result]
  BY <1>5, QueuesTyped DEF CancelTransport, CompleteActive, Stage, Result
<1>6. CASE CallerTimesOut(c)
  BY <1>5, <1>6 DEF CallerTimesOut, Finish, Outcome
<1>7. CASE CallerCancelled(c)
  BY <1>5, <1>7 DEF CallerCancelled, Finish, Outcome
<1> QED BY <1>1, <1>2, <1>3, <1>4, <1>6, <1>7

LEMMA TypeTrySendNext == TypeOK /\ TrySendNext => TypeOK'
<1> SUFFICES ASSUME TypeOK, TrySendNext PROVE TypeOK'
  OBVIOUS
<1> USE DEF TypeOK, queues, gate, replies, callers, outbound, conn, panel
<1>1. CASE NothingToSend
  BY <1>1 DEF NothingToSend
<1>2. CASE DropExpired
  BY <1>2, QueuesTyped, SettleTyped, ZenonT(60) DEF DropExpired, Result
<1>3. CASE SendNext
  <2>1. Next1 \in Cmd /\ Sendable
    BY <1>3, QueuesTyped DEF SendNext
  <2>2. wire' = wire \/ wire' = [wire EXCEPT ![Next1] = wire[Next1] + 1]
    BY <1>3 DEF SendNext
  <2>3. highQ' \in Seq(Cmd) /\ normalQ' \in Seq(Cmd)
    BY <1>3, <2>1, QueuesTyped DEF SendNext
  <2>4. frame' \in [Cmd -> Stage] /\ outQ' \in Seq(Cmd)
    <3>1. \/ frame' = frame /\ outQ' = outQ
          \/ frame' = [frame EXCEPT ![Next1] = "posted"] /\ outQ' = Append(outQ, Next1)
      BY <1>3 DEF SendNext
    <3> QED BY <2>1, <3>1, QueuesTyped, ZenonT(60) DEF Stage
  <2>6. wire' \in [Cmd -> Nat]
    <3>1. wire \in [Cmd -> Nat]
      OBVIOUS
    <3>2. [wire EXCEPT ![Next1] = wire[Next1] + 1] \in [Cmd -> Nat]
      BY <2>1, <3>1, CountersTyped
    <3> QED BY <2>2, <3>1, <3>2
  <2>5. /\ timer' \in Cmd \cup {NoCmd} /\ activeSent' \in BOOLEAN
        /\ confirmed' \subseteq Cmd /\ sentEvents' \subseteq Cmd
        /\ unanswered' \in [Cmd -> Nat]
    BY <1>3, <2>1 DEF SendNext, RequestSent
  <2> QED BY <1>3, <2>1, <2>3, <2>4, <2>5, <2>6 DEF SendNext
<1>4. CASE SendNextRaises
  BY <1>4, QueuesTyped, SettleTyped, TransportFailureTyped
     DEF SendNextRaises, CompleteActive, Result
<1> QED BY <1>1, <1>2, <1>3, <1>4 DEF TrySendNext

LEMMA TypeOutbound == TypeOK /\ Outbound => TypeOK'
<1> SUFFICES ASSUME TypeOK, Outbound PROVE TypeOK'
  OBVIOUS
<1> USE DEF TypeOK, queues, gate, replies, callers, outbound, conn, panel, Stage
<1>1. CASE StopQueue
  BY <1>1, PostsTyped, QueuesTyped, SettleTyped DEF StopQueue, CompleteActive, Result
<1>2. ASSUME NEW c \in Cmd, PutFrame(c) PROVE TypeOK'
  BY <1>2, QueuesTyped, ZenonT(60) DEF PutFrame
<1>3. ASSUME NEW c \in Cmd, TakeFrame(c) PROVE TypeOK'
  BY <1>3, QueuesTyped DEF TakeFrame
<1>4. ASSUME NEW c \in Cmd, Throttled(c) PROVE TypeOK'
  BY <1>4 DEF Throttled
<1>5. ASSUME NEW c \in Cmd, FrameWritten(c) PROVE TypeOK'
  <2>1. wire' = [wire EXCEPT ![c] = wire[c] + 1]
        /\ \/ unanswered' = unanswered
           \/ unanswered' = [unanswered EXCEPT ![c] = unanswered[c] + 1]
    BY <1>5 DEF FrameWritten, Reported
  <2>2. wire' \in [Cmd -> Nat] /\ unanswered' \in [Cmd -> Nat]
    <3>1. wire \in [Cmd -> Nat] /\ unanswered \in [Cmd -> Nat]
      OBVIOUS
    <3>2. /\ [wire EXCEPT ![c] = wire[c] + 1] \in [Cmd -> Nat]
          /\ [unanswered EXCEPT ![c] = unanswered[c] + 1] \in [Cmd -> Nat]
      BY <3>1, CountersTyped
    <3> QED BY <2>1, <3>1, <3>2
  <2> QED BY <1>5, <2>2 DEF FrameWritten, Reported
<1>6. ASSUME NEW c \in Cmd, FrameNotWritten(c) PROVE TypeOK'
  BY <1>6, ZenonT(60) DEF FrameNotWritten, Reported
<1>7. ASSUME NEW c \in Cmd, OnSent(c) PROVE TypeOK'
  BY <1>7 DEF OnSent, RequestSent
<1>8. ASSUME NEW c \in Cmd, OnSendIoError(c) PROVE TypeOK'
  <2>1. /\ link' \in {"active", "closing", "down", "lost"} /\ posts' \in Seq(Post)
    BY <1>8, PostsTyped DEF OnSendIoError, TearDownOnLoop
  <2>3. unanswered' \in [Cmd -> Nat]
    BY <1>8, CountersTyped DEF OnSendIoError, TearDownOnLoop
  <2>2. result' \in [Cmd -> Result] /\ pending' \subseteq Cmd
    BY <1>8, SettleTyped DEF OnSendIoError, Result
  <2> QED BY <1>8, <2>1, <2>2, <2>3 DEF OnSendIoError, CompleteActive
<1>9. ASSUME NEW c \in Cmd, OnSendFailed(c) PROVE TypeOK'
  BY <1>9, SettleTyped, TransportFailureTyped DEF OnSendFailed, Result
<1> QED BY <1>1, <1>2, <1>3, <1>4, <1>5, <1>6, <1>7, <1>8, <1>9 DEF Outbound

LEMMA TypeKernel == TypeOK /\ Kernel => TypeOK'
<1> SUFFICES ASSUME TypeOK, Kernel PROVE TypeOK'
  OBVIOUS
<1> USE DEF TypeOK, queues, gate, replies, callers, outbound, conn, panel
<1>1. ASSUME NEW c \in Cmd, OnMessage(c) PROVE TypeOK'
  BY <1>1, PostsTyped, QueuesTyped, SettleTyped DEF OnMessage, CompleteActive, Result
<1>2. ASSUME NEW c \in Cmd, ReplyTimeout(c) PROVE TypeOK'
  BY <1>2, TransportFailureTyped DEF ReplyTimeout, Result
<1>3. ASSUME NEW c \in Cmd, BackoffEnds(c) PROVE TypeOK'
  BY <1>3, QueuesTyped, SettleTyped, ZenonT(60) DEF BackoffEnds, Result
<1>4. CASE OnDisconnected
  BY <1>4, PostsTyped, QueuesTyped, SettleTyped
     DEF OnDisconnected, FailEverything, Result
<1>5. CASE Close
  BY <1>5, QueuesTyped, SettleTyped DEF Close, FailEverything, Result
<1> QED BY <1>1, <1>2, <1>3, <1>4, <1>5 DEF Kernel

LEMMA TypeStep == TypeOK /\ [Next]_vars => TypeOK'
<1> SUFFICES ASSUME TypeOK, [Next]_vars PROVE TypeOK'
  OBVIOUS
<1>1. CASE UNCHANGED vars
  BY <1>1, SMTT(30) DEF TypeOK, vars, queues, gate, replies, callers, outbound, conn, panel
<1> QED BY <1>1, TypeSession, TypeCallers, TypeTrySendNext, TypeOutbound, TypeKernel
        DEF Next

\* Every variable keeps its type, whatever the commands and the bounds.
THEOREM TypeCorrect == Spec => []TypeOK
<1> QED BY TypeInit, TypeStep, PTL DEF Spec

-----------------------------------------------------------------------------
(* The inductive invariant.                                                *)

LEMMA QueueElems ==
  ASSUME TypeOK, QueuedOnce
  PROVE  /\ Elems(highQ) \subseteq Cmd /\ Elems(normalQ) \subseteq Cmd
         /\ \A c \in Cmd :
              /\ Elems(Append(highQ, c)) = Elems(highQ) \cup {c}
              /\ Elems(Append(normalQ, c)) = Elems(normalQ) \cup {c}
              /\ Elems(<<c>> \o highQ) = Elems(highQ) \cup {c}
              /\ Elems(Without(highQ, c)) = Elems(highQ) \ {c}
              /\ Elems(Without(normalQ, c)) = Elems(normalQ) \ {c}
              /\ c \notin Elems(highQ) =>
                   Distinct(Append(highQ, c)) /\ Distinct(<<c>> \o highQ)
              /\ c \notin Elems(normalQ) => Distinct(Append(normalQ, c))
              /\ Distinct(Without(highQ, c)) /\ Distinct(Without(normalQ, c))
         /\ Elems(<<>>) = {} /\ Distinct(<<>>)
<1>1. highQ \in Seq(Cmd) /\ normalQ \in Seq(Cmd) /\ Distinct(highQ) /\ Distinct(normalQ)
  BY DEF TypeOK, QueuedOnce
<1> QED BY <1>1, ElemsEmpty, ElemsTyped, ElemsAppend, ElemsPrepend, ElemsWithout

\* What _try_send_next takes from the queues.
LEMMA NextElems ==
  ASSUME TypeOK, QueuedOnce, Sendable
  PROVE  /\ Next1 \in Queued /\ Next1 \in Cmd
         /\ Distinct(HighRest) /\ Distinct(NormalRest)
         /\ Elems(HighRest) = Elems(highQ) \ {Next1}
         /\ Elems(NormalRest) = Elems(normalQ) \ {Next1}
         /\ Elems(<<Next1>> \o HighRest) = Elems(HighRest) \cup {Next1}
         /\ Distinct(<<Next1>> \o HighRest)
<1>1. /\ highQ \in Seq(Cmd) /\ normalQ \in Seq(Cmd)
      /\ Distinct(highQ) /\ Distinct(normalQ) /\ Elems(highQ) \cap Elems(normalQ) = {}
  BY DEF TypeOK, QueuedOnce
<1>2. CASE highQ # <<>>
  <2>1. /\ Head(highQ) \in Cmd /\ Tail(highQ) \in Seq(Cmd)
        /\ Elems(highQ) = Elems(Tail(highQ)) \cup {Head(highQ)}
        /\ Distinct(Tail(highQ)) /\ Head(highQ) \notin Elems(Tail(highQ))
    BY <1>1, <1>2, ElemsHeadTail
  <2>2. Next1 = Head(highQ) /\ HighRest = Tail(highQ) /\ NormalRest = normalQ
    BY <1>2 DEF Next1, HighRest, NormalRest
  <2>3. /\ HighRest \in Seq(Cmd) /\ Next1 \in Cmd /\ Next1 \notin Elems(HighRest)
        /\ Distinct(HighRest)
        /\ Elems(highQ) = Elems(HighRest) \cup {Next1}
    BY <2>1, <2>2
  <2>4. /\ Elems(<<Next1>> \o HighRest) = Elems(HighRest) \cup {Next1}
        /\ Distinct(<<Next1>> \o HighRest)
    BY <2>3, ElemsPrepend
  <2> QED BY <1>1, <2>2, <2>3, <2>4 DEF Queued
<1>3. CASE highQ = <<>>
  <2>1. normalQ # <<>>
    BY <1>3 DEF Sendable
  <2>2. /\ Head(normalQ) \in Cmd
        /\ Elems(normalQ) = Elems(Tail(normalQ)) \cup {Head(normalQ)}
        /\ Distinct(Tail(normalQ)) /\ Head(normalQ) \notin Elems(Tail(normalQ))
    BY <1>1, <2>1, ElemsHeadTail
  <2>3. Next1 = Head(normalQ) /\ HighRest = highQ /\ NormalRest = Tail(normalQ)
    BY <1>3 DEF Next1, HighRest, NormalRest
  <2>4. Head(normalQ) \notin Elems(highQ)
    BY <1>1, <2>2
  <2> QED BY <1>1, <2>2, <2>3, <2>4, ElemsPrepend DEF Queued
<1> QED BY <1>2, <1>3

LEMMA HeldTyped == TypeOK => Held \subseteq Cmd /\ Queued \subseteq Cmd
  BY ElemsTyped DEF TypeOK, Held, Queued

LEMMA BudgetTyped ==
  ASSUME TypeOK, NEW c \in Cmd
  PROVE  wire[c] \in Nat /\ attempt[c] \in Nat /\ Budget(c) \in Nat
<1>1. wire[c] \in Nat /\ attempt[c] \in Nat
  BY Bounds DEF TypeOK
<1> QED BY <1>1 DEF Budget

LEMMA InvInit == Init => Inv
<1> SUFFICES ASSUME Init PROVE Inv
  OBVIOUS
<1>1. Held = {} /\ Queued = {}
  BY ElemsEmpty DEF Init, Held, Queued
<1>2. QueuedOnce
  BY <1>1, ElemsEmpty, CommandKinds DEF Init, QueuedOnce
<1>3. \A c \in Cmd : Budget(c) = 1
  BY DEF Init, Budget
<1> QED
  BY <1>1, <1>2, <1>3, CommandKinds
     DEF Inv, Init, PendingIsHeld, OneLiveFrame, HeldIsIssued, WaitingIsOpen,
         TimerAfterSend, WithinBudget, ClosedIsReleased, Unwritten

\* An action that only moves frames on, or only touches the link.
LEMMA InvFrames ==
  ASSUME TypeOK, Inv,
         UNCHANGED <<queues, active, activeSent, timer, pending, result,
                     sentEvents, callers, wire>>,
         session' \in {session, TRUE},
         \A c \in Cmd : \/ frame'[c] = frame[c]
                        \/ frame[c] # "none" /\ frame'[c] = "none"
                        \/ frame[c] \in Unwritten /\ frame'[c] \in Unwritten
  PROVE  Inv'
<1> USE DEF Inv, queues, callers
<1>0. Held' = Held /\ Queued' = Queued /\ \A c \in Cmd : Budget(c)' = Budget(c)
  BY DEF Held, Queued, Budget
<1>1. PendingIsHeld' /\ QueuedOnce'
  BY <1>0 DEF PendingIsHeld, QueuedOnce
<1>2. OneLiveFrame'
  BY <1>0, HeldTyped DEF OneLiveFrame, Unwritten
<1>3. HeldIsIssued' /\ WaitingIsOpen' /\ ClosedIsReleased'
  BY <1>0 DEF HeldIsIssued, WaitingIsOpen, ClosedIsReleased, Unwritten
<1>4. TimerAfterSend'
  BY <1>0, HeldTyped DEF TimerAfterSend, Unwritten
<1>5. WithinBudget'
  BY <1>0 DEF WithinBudget, Unwritten
<1> QED BY <1>1, <1>2, <1>3, <1>4, <1>5

LEMMA InvSession == TypeOK /\ Inv /\ Session => Inv'
<1> SUFFICES ASSUME TypeOK, Inv, Session PROVE Inv'
  OBVIOUS
<1> USE DEF queues, gate, replies, callers, outbound, conn, panel
<1>1. CASE Connect
  BY <1>1, InvFrames DEF Connect
<1>2. CASE TeardownBegins
  BY <1>2, InvFrames DEF TeardownBegins
<1>3. CASE TeardownCloses
  BY <1>3, InvFrames DEF TeardownCloses
<1>4. CASE TeardownNotifies
  BY <1>4, InvFrames DEF TeardownNotifies
<1>5. ASSUME NEW c \in Cmd, PanelAnswers(c) PROVE Inv'
  BY <1>5, InvFrames DEF PanelAnswers
<1> QED BY <1>1, <1>2, <1>3, <1>4, <1>5 DEF Session

LEMMA InvTransport ==
  ASSUME TypeOK, Inv, NEW c \in Cmd,
         PutFrame(c) \/ TakeFrame(c) \/ Throttled(c) \/ FrameNotWritten(c)
  PROVE  Inv'
<1> USE DEF queues, gate, replies, callers, conn, panel, Unwritten, TypeOK
<1>1. CASE PutFrame(c)
  BY <1>1, InvFrames DEF PutFrame
<1>2. CASE TakeFrame(c)
  BY <1>2, InvFrames DEF TakeFrame
<1>3. CASE Throttled(c)
  BY <1>3, InvFrames DEF Throttled
<1>4. CASE FrameNotWritten(c)
  BY <1>4, InvFrames DEF FrameNotWritten, Reported
<1> QED BY <1>1, <1>2, <1>3, <1>4

\* An action that makes the scheduler give up the commands of G: what all
\* replies, failures, timeouts, cancellations, losses and close() share.
LEMMA InvGiveUp ==
  ASSUME TypeOK, TypeOK', Inv, NEW G \in SUBSET Cmd,
         QueuedOnce',
         Held' = Held \ G, Queued' \cup backoff' \subseteq Queued \cup backoff,
         active' = IF active \in G THEN NoCmd ELSE active,
         pending' = pending \ G,
         \A c \in Cmd :
            \/ /\ caller'[c] = caller[c]
               /\ IF c \in G \cap pending THEN result'[c] # "none"
                  ELSE result'[c] = result[c]
            \/ c \in G /\ caller[c] = "waiting" /\ caller'[c] = "done",
         sentEvents' \subseteq sentEvents,
         \A c \in Cmd : \/ frame'[c] = frame[c]
                        \/ frame'[c] = "none"
                        \/ frame[c] \in Unwritten /\ frame'[c] \in Unwritten,
         \/ timer' = NoCmd
         \/ timer' = timer /\ active' = active /\ activeSent' = activeSent
         \/ timer' = timer /\ Held' = {},
         UNCHANGED <<attempt, wire>>,
         \/ session' = session
         \/ pending' = {} /\ Held' = {} /\ sentEvents' = {}
  PROVE  Inv'
<1> USE DEF Inv
<1>1. PendingIsHeld'
  BY DEF PendingIsHeld
<1>2. OneLiveFrame'
  BY HeldTyped, CommandKinds DEF OneLiveFrame, Unwritten
<1>3. HeldIsIssued'
  BY CommandKinds DEF HeldIsIssued, PendingIsHeld, Unwritten
<1>4. WaitingIsOpen'
  BY DEF WaitingIsOpen
<1>5. TimerAfterSend'
  BY HeldTyped, CommandKinds DEF TimerAfterSend, Unwritten
<1>6. WithinBudget'
  BY DEF WithinBudget, Unwritten, Budget
<1>7. ClosedIsReleased'
  <2>1. CASE session' = session
    BY <2>1 DEF ClosedIsReleased, TypeOK
  <2>2. CASE pending' = {} /\ Held' = {} /\ sentEvents' = {}
    BY <2>2 DEF ClosedIsReleased
  <2> QED BY <2>1, <2>2
<1> QED BY <1>1, <1>2, <1>3, <1>4, <1>5, <1>6, <1>7

\* A failed transport that is retried: the command goes from the gate, or from
\* the head of its queue, back to a queue or to its backoff.
LEMMA InvRetry ==
  ASSUME TypeOK, TypeOK', Inv, NEW c \in Held,
         QueuedOnce',
         Held' = Held, Queued' \cup backoff' \subseteq Queued \cup backoff \cup {c},
         active' = NoCmd, timer' = NoCmd,
         attempt' = [attempt EXCEPT ![c] = @ + 1],
         c \in Resend \ NoRetry \/ wire[c] < Budget(c),
         frame'[c] = "none",
         \A d \in Cmd \ {c} : frame'[d] = frame[d],
         active # NoCmd => active = c,
         UNCHANGED <<pending, result, sentEvents, callers, wire, session>>
  PROVE  Inv'
<1> USE DEF Inv, callers
<1>1. PendingIsHeld'
  BY DEF PendingIsHeld
<1>2. OneLiveFrame'
  BY HeldTyped, CommandKinds DEF OneLiveFrame
<1>3. HeldIsIssued'
  BY HeldTyped, CommandKinds DEF HeldIsIssued
<1>4. WaitingIsOpen'
  BY DEF WaitingIsOpen
<1>5. TimerAfterSend'
  BY HeldTyped, CommandKinds DEF TimerAfterSend
<1>6. WithinBudget'
  <2>1. c \in Cmd /\ attempt[c] \in Nat /\ wire[c] \in Nat
    BY HeldTyped, Bounds DEF TypeOK
  <2>2. attempt'[c] = attempt[c] + 1 /\ wire'[c] = wire[c]
    BY <2>1 DEF TypeOK
  <2>3. wire[c] <= Budget(c)
    BY <2>1 DEF WithinBudget
  <2>4. Budget(c) \in Nat /\ Budget(c)' \in Nat /\ wire'[c] < Budget(c)'
    BY <2>1, <2>2, <2>3 DEF Budget
  <2>5. ASSUME NEW d \in Cmd, d # c
        PROVE  /\ wire'[d] <= Budget(d)'
               /\ d \in Queued' \cup backoff' \/ frame'[d] \in Unwritten =>
                    wire'[d] < Budget(d)'
    <3>1. Budget(d)' = Budget(d) /\ wire'[d] = wire[d] /\ frame'[d] = frame[d]
      BY <2>1, <2>5 DEF Budget, TypeOK
    <3> QED BY <2>5, <3>1 DEF WithinBudget
  <2>6. wire'[c] <= Budget(c)'
    BY <2>1, <2>2, <2>4
  <2> QED BY <2>4, <2>5, <2>6 DEF WithinBudget, Unwritten
<1>7. ClosedIsReleased'
  BY DEF ClosedIsReleased
<1> QED BY <1>1, <1>2, <1>3, <1>4, <1>5, <1>6, <1>7

\* _handle_transport_failure leaves the invariant alone for the active request,
\* once its frame has left the OutboundQueue.
LEMMA InvTransportFailure ==
  ASSUME TypeOK, TypeOK', Inv, NEW c \in Cmd, NEW sent \in BOOLEAN,
         NEW r \in Result \ {"none"},
         active = c, TransportFailure(c, sent, highQ, r), UNCHANGED normalQ,
         sent \/ wire[c] < Budget(c),
         frame'[c] = "none",
         \A d \in Cmd \ {c} : frame'[d] = frame[d],
         UNCHANGED <<callers, wire, session>>
  PROVE  Inv'
<1>1. /\ c \notin Queued \cup backoff /\ c # NoCmd /\ c \in Held
      /\ QueuedOnce /\ NoCmd \notin Queued \cup backoff /\ normalQ' = normalQ
  BY HeldTyped, CommandKinds DEF Inv, QueuedOnce, Held, TypeOK
<1>2. CASE RetryAllowed(c, sent)
  <2>1. CASE c \in Disarm
    <3>1. highQ' = <<c>> \o highQ /\ backoff' = backoff \ {c} /\ active' = NoCmd
      BY <1>2, <2>1 DEF TransportFailure, CompleteActive
    <3>2. Elems(highQ)' = Elems(highQ) \cup {c} /\ Distinct(highQ)'
      BY <1>1, <3>1, QueueElems DEF Queued
    <3>3. QueuedOnce' /\ Held' = Held /\ Queued' = Queued \cup {c}
      BY <1>1, <3>1, <3>2 DEF QueuedOnce, Held, Queued
    <3> QED
      BY <1>1, <1>2, <3>1, <3>3, InvRetry
         DEF TransportFailure, CompleteActive, RetryAllowed
  <2>2. CASE c \notin Disarm
    <3>1. highQ' = highQ /\ backoff' = backoff \cup {c} /\ active' = NoCmd
      BY <1>2, <2>2 DEF TransportFailure, CompleteActive
    <3>2. QueuedOnce' /\ Held' = Held /\ Queued' = Queued
      BY <1>1, <3>1 DEF QueuedOnce, Held, Queued
    <3> QED
      BY <1>1, <1>2, <3>1, <3>2, InvRetry
         DEF TransportFailure, CompleteActive, RetryAllowed
  <2> QED BY <2>1, <2>2
<1>3. CASE ~RetryAllowed(c, sent)
  <2>1. /\ highQ' = highQ /\ backoff' = backoff /\ attempt' = attempt
        /\ active' = NoCmd /\ timer' = NoCmd
        /\ pending' = pending \ {c} /\ sentEvents' = sentEvents \ {c}
        /\ \A d \in Cmd : result'[d] = IF d \in {c} \cap pending THEN r ELSE result[d]
    BY <1>3 DEF TransportFailure, CompleteActive, Settle
  <2>2. QueuedOnce' /\ Held' = Held \ {c} /\ Queued' = Queued
    BY <1>1, <2>1 DEF QueuedOnce, Held, Queued
  <2> QED BY <1>1, <2>1, <2>2, InvGiveUp DEF callers
<1> QED BY <1>2, <1>3

LEMMA InvCallers == TypeOK /\ TypeOK' /\ Inv /\ Callers => Inv'
<1> SUFFICES ASSUME TypeOK, TypeOK', Inv, NEW c \in Cmd,
                    \/ Issue(c) \/ IssueRefused(c) \/ DeadlinePasses(c)
                    \/ CallerResumes(c) \/ CallerTimesOut(c) \/ CallerCancelled(c)
             PROVE  Inv'
  BY DEF Callers
<1> USE DEF queues, gate, replies, callers, outbound, conn, panel
<1>1. CASE Issue(c)
  <2>1. c \notin Held /\ c # NoCmd /\ frame[c] = "none" /\ timer # c /\ wire[c] = 0
        /\ session = TRUE
    BY <1>1, CommandKinds DEF Inv, HeldIsIssued, Issue, StateActive, TypeOK
  <2>2. /\ Queued' = Queued \cup {c} /\ backoff' = backoff /\ active' = active
        /\ Distinct(highQ') /\ Distinct(normalQ')
        /\ Elems(highQ') \cap Elems(normalQ') = {}
    <3>1. c \notin Elems(highQ) /\ c \notin Elems(normalQ) /\ QueuedOnce
      BY <2>1 DEF Inv, Queued, Held
    <3>2. \/ highQ' = Append(highQ, c) /\ normalQ' = normalQ
          \/ normalQ' = Append(normalQ, c) /\ highQ' = highQ
      BY <1>1 DEF Issue
    <3>3. backoff' = backoff /\ active' = active
      BY <1>1 DEF Issue
    <3>4. CASE highQ' = Append(highQ, c) /\ normalQ' = normalQ
      <4>1. Elems(highQ') = Elems(highQ) \cup {c} /\ Distinct(highQ')
        BY <3>1, <3>4, QueueElems DEF QueuedOnce
      <4>2. Elems(normalQ') = Elems(normalQ) /\ Distinct(normalQ')
        BY <3>1, <3>4 DEF QueuedOnce
      <4> QED BY <3>1, <3>3, <4>1, <4>2 DEF QueuedOnce, Queued
    <3>5. CASE normalQ' = Append(normalQ, c) /\ highQ' = highQ
      <4>1. Elems(normalQ') = Elems(normalQ) \cup {c} /\ Distinct(normalQ')
        BY <3>1, <3>5, QueueElems DEF QueuedOnce
      <4>2. Elems(highQ') = Elems(highQ) /\ Distinct(highQ')
        BY <3>1, <3>5 DEF QueuedOnce
      <4> QED BY <3>1, <3>3, <4>1, <4>2 DEF QueuedOnce, Queued
    <3> QED BY <3>2, <3>4, <3>5
  <2>3. QueuedOnce' /\ Held' = Held \cup {c}
    BY <2>1, <2>2 DEF Inv, QueuedOnce, Held
  <2>4. /\ caller[c] = "idle"
        /\ caller' = [caller EXCEPT ![c] = IF c \in Waited THEN "waiting" ELSE "detached"]
        /\ pending' = IF c \in Waited THEN pending \cup {c} ELSE pending
        /\ UNCHANGED <<attempt, activeSent, timer, result, frame, wire, session>>
    BY <1>1 DEF Issue
  <2>5. PendingIsHeld'
    BY <2>1, <2>3, <2>4 DEF Inv, PendingIsHeld
  <2>6. OneLiveFrame'
    BY <2>1, <2>2, <2>3, <2>4 DEF Inv, OneLiveFrame
  <2>7. HeldIsIssued'
    <3>1. \A d \in Cmd : caller'[d] = IF d = c
                           THEN IF c \in Waited THEN "waiting" ELSE "detached"
                           ELSE caller[d]
      BY <2>4 DEF TypeOK
    <3> QED BY <2>3, <2>4, <3>1 DEF Inv, HeldIsIssued
  <2>8. WaitingIsOpen'
    <3>1. result[c] = "none"
      BY <2>4 DEF Inv, HeldIsIssued
    <3> QED BY <2>4, <3>1 DEF Inv, WaitingIsOpen, TypeOK
  <2>9. TimerAfterSend'
    BY <2>1, <2>2, <2>3, <2>4 DEF Inv, TimerAfterSend
  <2>10. WithinBudget'
    <3>1. \A d \in Cmd : Budget(d)' = Budget(d)
      BY <2>4 DEF Budget
    <3>2. wire[c] < Budget(c)
      BY <2>1, Bounds, SMTT(30) DEF Budget, TypeOK
    <3> QED BY <2>2, <2>4, <3>1, <3>2 DEF Inv, WithinBudget
  <2>11. ClosedIsReleased'
    BY <2>1, <2>4 DEF ClosedIsReleased
  <2> QED BY <2>3, <2>5, <2>6, <2>7, <2>8, <2>9, <2>10, <2>11 DEF Inv
<1>2. CASE IssueRefused(c)
  <2>1. c \notin Held /\ caller[c] = "idle" /\ caller' = [caller EXCEPT ![c] = "done"]
    BY <1>2 DEF Inv, HeldIsIssued, IssueRefused
  <2>2. /\ Held' = Held /\ Queued' = Queued
        /\ UNCHANGED <<queues, gate, pending, result, frame, wire, session>>
    BY <1>2 DEF IssueRefused, Held, Queued
  <2>3. \A d \in Cmd : caller'[d] = IF d = c THEN "done" ELSE caller[d]
    BY <2>1 DEF TypeOK
  <2>4. \A d \in sentEvents' : d \in sentEvents \/ d = c
    BY <1>2 DEF IssueRefused
  <2>5. PendingIsHeld' /\ QueuedOnce' /\ OneLiveFrame' /\ TimerAfterSend'
    BY <2>2 DEF Inv, PendingIsHeld, QueuedOnce, OneLiveFrame, TimerAfterSend
  <2>6. HeldIsIssued' /\ WaitingIsOpen'
    BY <2>1, <2>2, <2>3 DEF Inv, HeldIsIssued, WaitingIsOpen
  <2>7. WithinBudget'
    BY <2>2 DEF Inv, WithinBudget, Budget
  <2>8. ClosedIsReleased'
    BY <2>2, <2>3, <2>4 DEF Inv, ClosedIsReleased, TypeOK
  <2> QED BY <2>5, <2>6, <2>7, <2>8 DEF Inv
<1>3. CASE DeadlinePasses(c)
  BY <1>3, InvFrames DEF DeadlinePasses
<1>4. CASE CallerResumes(c)
  <2>1. c \notin Held /\ c \notin pending
    BY <1>4 DEF Inv, HeldIsIssued, WaitingIsOpen, PendingIsHeld, CallerResumes
  <2>2. /\ Held' = Held \ {c} /\ Queued' = Queued /\ backoff' = backoff
        /\ QueuedOnce' /\ active' = active /\ active # c
    BY <1>4, <2>1, CommandKinds DEF Inv, CallerResumes, QueuedOnce, Held, Queued
  <2>3. /\ \A d \in Cmd \ {c} : caller'[d] = caller[d] /\ result'[d] = result[d]
        /\ caller[c] = "waiting" /\ caller'[c] = "done"
        /\ pending' = pending \ {c} /\ sentEvents' = sentEvents
    BY SMTT(40), <1>4, <2>1 DEF CallerResumes, Finish, TypeOK
  <2> QED BY <1>4, <2>2, <2>3, InvGiveUp DEF CallerResumes
<1>5. ASSUME CancelTransport(c), caller[c] = "waiting",
             caller' = [caller EXCEPT ![c] = "done"],
             UNCHANGED <<wire, session>>
      PROVE  Inv'
  <2>1. /\ highQ' = Without(highQ, c) /\ normalQ' = Without(normalQ, c)
        /\ backoff' = backoff \ {c}
        /\ active' = IF active \in {c} THEN NoCmd ELSE active
    BY <1>5 DEF CancelTransport, CompleteActive
  <2>2. /\ Elems(highQ') = Elems(highQ) \ {c} /\ Elems(normalQ') = Elems(normalQ) \ {c}
        /\ Distinct(highQ') /\ Distinct(normalQ')
    BY <2>1, QueueElems DEF Inv
  <2>3. /\ Queued' = Queued \ {c} /\ Held' = Held \ {c} /\ QueuedOnce'
    BY <2>1, <2>2, HeldTyped, CommandKinds DEF Inv, QueuedOnce, Held, Queued, TypeOK
  <2>4. /\ \A d \in Cmd \ {c} : caller'[d] = caller[d] /\ result'[d] = result[d]
        /\ caller'[c] = "done" /\ pending' = pending \ {c}
        /\ sentEvents' \subseteq sentEvents /\ attempt' = attempt
    BY <1>5 DEF CancelTransport, TypeOK
  <2>5. \/ timer' = NoCmd
        \/ timer' = timer /\ active' = active /\ activeSent' = activeSent
    BY <1>5 DEF CancelTransport, CompleteActive
  <2>6. \A d \in Cmd : \/ frame'[d] = frame[d]
                       \/ frame'[d] = "none"
                       \/ frame[d] \in Unwritten /\ frame'[d] \in Unwritten
    BY <1>5 DEF CancelTransport, TypeOK, Unwritten
  <2> QED BY <1>5, <2>1, <2>3, <2>4, <2>5, <2>6, InvGiveUp
<1>6. CASE CallerTimesOut(c)
  BY <1>5, <1>6 DEF CallerTimesOut, Finish
<1>7. CASE CallerCancelled(c)
  BY <1>5, <1>7 DEF CallerCancelled, Finish
<1> QED BY <1>1, <1>2, <1>3, <1>4, <1>6, <1>7

LEMMA InvTrySendNext == TypeOK /\ TypeOK' /\ Inv /\ TrySendNext => Inv'
<1> SUFFICES ASSUME TypeOK, TypeOK', Inv, TrySendNext PROVE Inv'
  OBVIOUS
<1> USE DEF queues, gate, replies, callers, outbound, conn, panel
<1>1. CASE NothingToSend
  BY <1>1, InvFrames DEF NothingToSend
<1>n. ASSUME Sendable, highQ' = HighRest, normalQ' = NormalRest
      PROVE  /\ Next1 \in Cmd /\ Next1 \in Held /\ Next1 \in Queued
             /\ Next1 \notin backoff /\ active = NoCmd
             /\ Queued' = Queued \ {Next1} /\ Distinct(highQ') /\ Distinct(normalQ')
             /\ Elems(highQ') \cap Elems(normalQ') = {}
  <2>1. QueuedOnce
    BY DEF Inv
  <2>2. active = NoCmd
    BY <1>n DEF Sendable
  <2> QED BY <1>n, <2>1, <2>2, NextElems DEF QueuedOnce, Held, Queued
<1>2. CASE DropExpired
  <2>1. /\ Sendable /\ highQ' = HighRest /\ normalQ' = NormalRest
        /\ backoff' = backoff \ {Next1} /\ active' = active
    BY <1>2 DEF DropExpired
  <2>2. Held' = Held \ {Next1} /\ QueuedOnce'
    BY <1>n, <2>1, HeldTyped, CommandKinds DEF Inv, QueuedOnce, Held, Queued
  <2>3. /\ pending' = pending \ {Next1} /\ sentEvents' \subseteq sentEvents
        /\ \A d \in Cmd : result'[d] =
              IF d \in {Next1} \cap pending THEN "timeout" ELSE result[d]
        /\ UNCHANGED <<attempt, timer, activeSent, frame, wire, session, caller>>
    BY <1>2 DEF DropExpired, Settle
  <2>4. /\ active' = IF active \in {Next1} THEN NoCmd ELSE active
        /\ Queued' \cup backoff' \subseteq Queued \cup backoff
        /\ {Next1} \in SUBSET Cmd
    BY <1>n, <2>1
  <2> QED BY <2>2, <2>3, <2>4, <2>1, InvGiveUp
<1>3. CASE SendNext
  <2>1. /\ Sendable /\ highQ' = HighRest /\ normalQ' = NormalRest
        /\ active' = Next1 /\ UNCHANGED <<backoff, attempt, pending, result,
                                          caller, session>>
    BY <1>3 DEF SendNext
  <2>2. /\ Held' = Held /\ QueuedOnce' /\ Queued' = Queued \ {Next1}
        /\ Next1 \in Held /\ Next1 \in Cmd /\ Next1 \in Queued
        /\ NoCmd \notin Held /\ active = NoCmd
    BY <1>n, <2>1, HeldTyped, CommandKinds DEF Inv, QueuedOnce, Held, Queued
  <2>3. frame[Next1] = "none" /\ wire[Next1] < Budget(Next1) /\ timer \notin Held
    BY <2>2, CommandKinds DEF Inv, OneLiveFrame, WithinBudget, TimerAfterSend
  <2>4. \/ /\ frame' = [frame EXCEPT ![Next1] = "posted"] /\ wire' = wire
           /\ timer' = timer
        \/ /\ frame' = frame /\ wire' = [wire EXCEPT ![Next1] = @ + 1]
           /\ timer' = Next1 /\ activeSent' = TRUE
    BY <1>3 DEF SendNext, RequestSent
  <2>5. sentEvents' \subseteq sentEvents
    BY <1>3 DEF SendNext, RequestSent
  <2>6. \A d \in Cmd \ {Next1} : frame'[d] = frame[d] /\ wire'[d] = wire[d]
    BY <2>4 DEF TypeOK
  <2>7. caller[Next1] # "idle"
    BY <2>2 DEF Inv, HeldIsIssued
  <2>8. PendingIsHeld' /\ WaitingIsOpen'
    BY <2>1, <2>2 DEF Inv, PendingIsHeld, WaitingIsOpen
  <2>9. OneLiveFrame'
    BY <2>1, <2>2, <2>6, HeldTyped, CommandKinds DEF Inv, OneLiveFrame
  <2>10. HeldIsIssued'
    BY <2>1, <2>2, <2>4, <2>6, <2>7 DEF Inv, HeldIsIssued
  <2>11. TimerAfterSend'
    BY <2>1, <2>2, <2>3, <2>4 DEF TimerAfterSend
  <2>12. WithinBudget'
    <3>1. \A d \in Cmd : Budget(d)' = Budget(d)
      BY <2>1 DEF Budget
    <3>2. /\ wire[Next1] \in Nat /\ Budget(Next1) \in Nat
      BY <2>2, BudgetTyped
    <3>3. \/ frame'[Next1] = "posted" /\ wire'[Next1] = wire[Next1]
          \/ frame'[Next1] = "none" /\ wire'[Next1] = wire[Next1] + 1
      BY <2>2, <2>3, <2>4 DEF TypeOK
    <3>4. Next1 \notin Queued' \cup backoff'
      BY <1>n, <2>1
    <3>5. /\ wire'[Next1] <= Budget(Next1)
          /\ frame'[Next1] \in Unwritten => wire'[Next1] < Budget(Next1)
      BY <2>3, <3>2, <3>3 DEF Unwritten
    <3> QED BY <2>1, <2>2, <2>6, <3>1, <3>4, <3>5 DEF Inv, WithinBudget
  <2>13. ClosedIsReleased'
    BY <2>1, <2>2, <2>5 DEF Inv, ClosedIsReleased
  <2> QED BY <2>2, <2>8, <2>9, <2>10, <2>11, <2>12, <2>13 DEF Inv
<1>4. CASE SendNextRaises
  <2>1. /\ Sendable /\ normalQ' = NormalRest
        /\ UNCHANGED <<frame, wire, session, callers>>
        /\ active' = NoCmd /\ timer' = NoCmd
    BY <1>4 DEF SendNextRaises, CompleteActive, TransportFailure
  <2>2. /\ Next1 \in Held /\ Next1 \in Cmd /\ Next1 \in Queued /\ QueuedOnce
        /\ Next1 \notin backoff /\ active = NoCmd /\ NoCmd \notin Queued \cup backoff
        /\ Elems(HighRest) = Elems(highQ) \ {Next1} /\ Distinct(HighRest)
        /\ Elems(NormalRest) = Elems(normalQ) \ {Next1} /\ Distinct(NormalRest)
        /\ Elems(<<Next1>> \o HighRest) = Elems(highQ) \cup {Next1}
        /\ Distinct(<<Next1>> \o HighRest)
    <3>1. QueuedOnce /\ active = NoCmd
      BY <2>1 DEF Inv, Sendable
    <3> QED BY <2>1, <3>1, NextElems DEF QueuedOnce, Held, Queued
  \* The command fails: its error was a write error, or no retry is allowed.
  <2>3. CASE /\ highQ' = HighRest /\ backoff' = backoff /\ attempt' = attempt
             /\ sentEvents' = sentEvents \ {Next1}
             /\ Settle({Next1}, "io") \/ Settle({Next1}, "failed")
    <3>1. Queued' = Queued \ {Next1} /\ Held' = Held \ {Next1} /\ QueuedOnce'
      BY <2>1, <2>2, <2>3 DEF QueuedOnce, Held, Queued
    <3>2. /\ pending' = pending \ {Next1}
          /\ \A d \in Cmd : IF d \in {Next1} \cap pending THEN result'[d] # "none"
                            ELSE result'[d] = result[d]
      BY <2>3 DEF Settle
    <3>3. /\ active' = IF active \in {Next1} THEN NoCmd ELSE active
          /\ {Next1} \in SUBSET Cmd
      BY <2>1, <2>2
    <3> QED BY <2>1, <2>3, <3>1, <3>2, <3>3, InvGiveUp
  \* It is retried.
  <2>4. CASE RetryAllowed(Next1, FALSE) /\ TransportFailure(Next1, FALSE, HighRest, "failed")
    <3>1. /\ attempt' = [attempt EXCEPT ![Next1] = @ + 1]
          /\ UNCHANGED <<pending, result, sentEvents>>
          /\ \/ highQ' = <<Next1>> \o HighRest /\ backoff' = backoff \ {Next1}
             \/ highQ' = HighRest /\ backoff' = backoff \cup {Next1}
      BY <2>4 DEF TransportFailure
    <3>2. QueuedOnce' /\ Held' = Held /\ Queued' \cup backoff' = Queued \cup backoff
      <4>1. CASE highQ' = <<Next1>> \o HighRest /\ backoff' = backoff \ {Next1}
        BY <2>1, <2>2, <4>1 DEF QueuedOnce, Held, Queued
      <4>2. CASE highQ' = HighRest /\ backoff' = backoff \cup {Next1}
        BY <2>1, <2>2, <4>2 DEF QueuedOnce, Held, Queued
      <4> QED BY <3>1, <4>1, <4>2
    <3>3. frame[Next1] = "none" /\ wire[Next1] < Budget(Next1)
      BY <2>2, CommandKinds DEF Inv, OneLiveFrame, WithinBudget
    <3> QED BY <2>1, <2>2, <3>1, <3>2, <3>3, InvRetry
  <2>5. ASSUME TransportFailure(Next1, FALSE, HighRest, "failed"),
               ~RetryAllowed(Next1, FALSE)
        PROVE  /\ highQ' = HighRest /\ backoff' = backoff /\ attempt' = attempt
               /\ sentEvents' = sentEvents \ {Next1} /\ Settle({Next1}, "failed")
    BY <2>5 DEF TransportFailure
  <2> QED BY <1>4, <2>3, <2>4, <2>5 DEF SendNextRaises
<1> QED BY <1>1, <1>2, <1>3, <1>4 DEF TrySendNext

LEMMA InvOutbound == TypeOK /\ TypeOK' /\ Inv /\ Outbound => Inv'
<1> SUFFICES ASSUME TypeOK, TypeOK', Inv, Outbound PROVE Inv'
  OBVIOUS
<1> USE DEF queues, gate, replies, callers, outbound, conn, panel
<1>1. CASE StopQueue
  <2> DEFINE G == {c \in Cmd : frame[c] = "queued"}
  <2>1. /\ UNCHANGED <<queues, callers, wire, session>>
        /\ pending' = pending \ G /\ sentEvents' = sentEvents \ G
        /\ \A c \in Cmd : result'[c] = IF c \in G \cap pending THEN "io" ELSE result[c]
        /\ \A c \in Cmd : frame'[c] = frame[c] \/ frame'[c] = "none"
        /\ active' = IF active \in G THEN NoCmd ELSE active
        /\ \/ timer' = NoCmd
           \/ timer' = timer /\ active' = active /\ activeSent' = activeSent
    BY <1>1 DEF StopQueue, Settle, CompleteActive
  <2>2. \A c \in G : c \in Held => c = active
    BY DEF Inv, OneLiveFrame
  <2>3. G \in SUBSET Cmd
    OBVIOUS
  <2> HIDE DEF G
  <2>4. /\ Queued' = Queued /\ backoff' = backoff
        /\ Held' = Held \ G /\ QueuedOnce'
    BY <2>1, <2>2, <2>3, HeldTyped, CommandKinds DEF Inv, Held, Queued, QueuedOnce
  <2> QED BY <2>1, <2>3, <2>4, InvGiveUp
<1>2. ASSUME NEW c \in Cmd,
             PutFrame(c) \/ TakeFrame(c) \/ Throttled(c) \/ FrameNotWritten(c)
      PROVE  Inv'
  BY <1>2, InvTransport
<1>3. ASSUME NEW c \in Cmd, FrameWritten(c) PROVE Inv'
  <2>1. /\ frame[c] = "sending" /\ frame' = [frame EXCEPT ![c] = Reported("written")]
        /\ wire' = [wire EXCEPT ![c] = @ + 1]
        /\ UNCHANGED <<queues, gate, replies, callers, session>>
    BY <1>3 DEF FrameWritten, Reported
  <2>2. /\ Held' = Held /\ Queued' = Queued /\ \A d \in Cmd : Budget(d)' = Budget(d)
    BY <2>1 DEF Held, Queued, Budget
  <2>3. \A d \in Cmd : /\ frame'[d] = IF d = c THEN Reported("written") ELSE frame[d]
                       /\ wire'[d] = IF d = c THEN wire[c] + 1 ELSE wire[d]
    BY <2>1 DEF TypeOK
  <2>4. caller[c] # "idle"
    BY <2>1 DEF Inv, HeldIsIssued
  <2>5. PendingIsHeld' /\ QueuedOnce' /\ WaitingIsOpen' /\ ClosedIsReleased'
    BY <2>1, <2>2 DEF Inv, PendingIsHeld, QueuedOnce, WaitingIsOpen, ClosedIsReleased
  <2>6. OneLiveFrame'
    BY <2>1, <2>2, <2>3, HeldTyped DEF Inv, OneLiveFrame
  <2>7. HeldIsIssued'
    BY <2>1, <2>2, <2>3, <2>4 DEF Inv, HeldIsIssued
  <2>8. TimerAfterSend'
    BY <2>1, <2>2, <2>3, HeldTyped DEF Inv, TimerAfterSend
  <2>9. WithinBudget'
    <3>1. c \notin Queued \cup backoff
      BY <2>1 DEF Inv, OneLiveFrame, QueuedOnce, Held
    <3>2. wire[c] < Budget(c) /\ wire[c] \in Nat /\ Budget(c) \in Nat
      BY <2>1, BudgetTyped DEF Inv, WithinBudget, Unwritten
    <3>3. wire[c] + 1 <= Budget(c)
      BY <3>2
    <3> QED BY <2>1, <2>2, <2>3, <3>1, <3>3 DEF Inv, WithinBudget, Unwritten, Reported
  <2> QED BY <2>5, <2>6, <2>7, <2>8, <2>9 DEF Inv
<1>4. ASSUME NEW c \in Cmd, OnSent(c) PROVE Inv'
  <2>1. /\ frame[c] = "written" /\ frame' = [frame EXCEPT ![c] = "none"]
        /\ timer' = c /\ activeSent' = ((active = c) \/ activeSent)
        /\ sentEvents' = sentEvents \ {c} /\ active' = active
        /\ UNCHANGED <<queues, pending, result, callers, wire, session>>
    BY <1>4 DEF OnSent, RequestSent
  <2>2. /\ Held' = Held /\ Queued' = Queued /\ \A d \in Cmd : Budget(d)' = Budget(d)
    BY <2>1 DEF Held, Queued, Budget
  <2>3. \A d \in Cmd : frame'[d] = IF d = c THEN "none" ELSE frame[d]
    BY <2>1 DEF TypeOK
  <2>4. caller[c] # "idle" /\ (c \in Held => c = active)
    BY <2>1 DEF Inv, HeldIsIssued, OneLiveFrame
  <2>5. PendingIsHeld' /\ QueuedOnce' /\ WaitingIsOpen' /\ ClosedIsReleased'
    BY <2>1, <2>2 DEF Inv, PendingIsHeld, QueuedOnce, WaitingIsOpen, ClosedIsReleased
  <2>6. OneLiveFrame'
    BY <2>1, <2>2, <2>3, HeldTyped DEF Inv, OneLiveFrame
  <2>7. HeldIsIssued'
    BY <2>1, <2>2, <2>3, <2>4 DEF Inv, HeldIsIssued
  <2>8. TimerAfterSend'
    BY <2>1, <2>2, <2>3, <2>4 DEF TimerAfterSend
  <2>9. WithinBudget'
    BY <2>1, <2>2, <2>3 DEF Inv, WithinBudget, Unwritten
  <2> QED BY <2>5, <2>6, <2>7, <2>8, <2>9 DEF Inv
<1>5. ASSUME NEW c \in Cmd, frame[c] # "none", frame' = [frame EXCEPT ![c] = "none"],
             Settle({c}, "io") \/ Settle({c}, "failed"),
             sentEvents' = sentEvents \ {c},
             IF active = c THEN CompleteActive ELSE UNCHANGED gate,
             UNCHANGED <<queues, callers, wire, session>>
      PROVE  Inv'
  <2>1. c \in Held => c = active
    BY <1>5 DEF Inv, OneLiveFrame
  <2>2. /\ active' = IF active \in {c} THEN NoCmd ELSE active
        /\ \/ timer' = NoCmd
           \/ timer' = timer /\ active' = active /\ activeSent' = activeSent
    BY <1>5 DEF CompleteActive
  <2>3. /\ Queued' = Queued /\ backoff' = backoff /\ Held' = Held \ {c} /\ QueuedOnce'
    BY <1>5, <2>1, <2>2, HeldTyped, CommandKinds DEF Inv, Held, Queued, QueuedOnce
  <2>4. /\ pending' = pending \ {c}
        /\ \A d \in Cmd : IF d \in {c} \cap pending THEN result'[d] # "none"
                          ELSE result'[d] = result[d]
    BY <1>5 DEF Settle
  <2>5. \A d \in Cmd : frame'[d] = frame[d] \/ frame'[d] = "none"
    BY <1>5 DEF TypeOK
  <2> QED BY <1>5, <2>2, <2>3, <2>4, <2>5, InvGiveUp
<1>6. ASSUME NEW c \in Cmd, OnSendIoError(c) PROVE Inv'
  BY <1>5, <1>6 DEF OnSendIoError
<1>7. ASSUME NEW c \in Cmd, OnSendFailed(c) PROVE Inv'
  <2>1. CASE active # c
    BY <1>5, <1>7, <2>1 DEF OnSendFailed
  <2>2. CASE active = c
    <3>1. wire[c] < Budget(c)
      BY <1>7 DEF OnSendFailed, Inv, WithinBudget, Unwritten
    <3>2. frame'[c] = "none" /\ \A d \in Cmd \ {c} : frame'[d] = frame[d]
      BY <1>7 DEF OnSendFailed, TypeOK
    <3>3. /\ TransportFailure(c, FALSE, highQ, "failed")
          /\ UNCHANGED <<normalQ, callers, wire, session>>
      BY <1>7, <2>2 DEF OnSendFailed
    <3>4. "failed" \in Result \ {"none"} /\ FALSE \in BOOLEAN
      BY DEF Result
    <3> QED BY <2>2, <3>1, <3>2, <3>3, <3>4, InvTransportFailure
  <2> QED BY <2>1, <2>2
<1> QED BY <1>1, <1>2, <1>3, <1>4, <1>6, <1>7 DEF Outbound

LEMMA InvKernel == TypeOK /\ TypeOK' /\ Inv /\ Kernel => Inv'
<1> SUFFICES ASSUME TypeOK, TypeOK', Inv, Kernel PROVE Inv'
  OBVIOUS
<1> USE DEF queues, gate, replies, callers, outbound, conn, panel
<1>1. ASSUME NEW c \in Cmd, OnMessage(c) PROVE Inv'
  <2>1. /\ highQ' = Without(highQ, c) /\ normalQ' = Without(normalQ, c)
        /\ backoff' = backoff \ {c}
        /\ active' = IF active \in {c} THEN NoCmd ELSE active
        /\ \/ timer' = NoCmd
           \/ timer' = timer /\ active' = active /\ activeSent' = activeSent
        /\ pending' = pending \ {c} /\ sentEvents' = sentEvents
        /\ \A d \in Cmd : result'[d] = IF d \in {c} \cap pending THEN "reply" ELSE result[d]
        /\ UNCHANGED <<attempt, callers, frame, wire, session>>
    BY <1>1 DEF OnMessage, CompleteActive, Settle
  <2>2. /\ Elems(highQ') = Elems(highQ) \ {c} /\ Elems(normalQ') = Elems(normalQ) \ {c}
        /\ Distinct(highQ') /\ Distinct(normalQ')
    BY <2>1, QueueElems DEF Inv
  <2>3. /\ Queued' = Queued \ {c} /\ Held' = Held \ {c} /\ QueuedOnce'
    BY <2>1, <2>2, HeldTyped, CommandKinds DEF Inv, QueuedOnce, Held, Queued
  <2> QED BY <2>1, <2>3, InvGiveUp
<1>2. ASSUME NEW c \in Cmd, ReplyTimeout(c) PROVE Inv'
  <2>1. CASE active = c
    <3>1. c \in Held /\ timer = c
      BY <1>2, <2>1, CommandKinds DEF ReplyTimeout, Held
    <3>2. activeSent /\ frame[c] = "none"
      BY <2>1, <3>1 DEF Inv, TimerAfterSend
    <3>3. /\ TransportFailure(c, activeSent, highQ, "timeout")
          /\ UNCHANGED <<normalQ, callers, frame, wire, session>>
      BY <1>2, <2>1 DEF ReplyTimeout
    <3>4. "timeout" \in Result \ {"none"} /\ activeSent \in BOOLEAN
      BY DEF Result, TypeOK
    <3> QED BY <2>1, <3>2, <3>3, <3>4, InvTransportFailure
  <2>2. CASE active # c
    <3>1. {} \in SUBSET Cmd /\ timer' = NoCmd
          /\ UNCHANGED <<queues, active, pending, result, sentEvents, callers,
                         frame, wire, session>>
      BY <1>2, <2>2 DEF ReplyTimeout
    <3>2. /\ Queued' = Queued /\ backoff' = backoff /\ Held' = Held \ {} /\ QueuedOnce'
      BY <3>1 DEF Inv, QueuedOnce, Held, Queued
    <3> QED BY <3>1, <3>2, InvGiveUp
  <2> QED BY <2>1, <2>2
<1>3. ASSUME NEW c \in Cmd, BackoffEnds(c) PROVE Inv'
  <2>1. /\ c \in backoff /\ backoff' = backoff \ {c} /\ c \in Held /\ c # active
        /\ c \notin Elems(highQ) /\ c \notin Elems(normalQ) /\ c # NoCmd /\ QueuedOnce
        /\ UNCHANGED <<attempt, active, activeSent, timer, callers, frame, wire, session>>
    BY <1>3, CommandKinds DEF BackoffEnds, Inv, QueuedOnce, Held, Queued
  <2>2. CASE c \in expired
    <3>1. /\ pending' = pending \ {c} /\ sentEvents' = sentEvents \ {c}
          /\ highQ' = highQ /\ normalQ' = normalQ
          /\ \A d \in Cmd : result'[d] =
                IF d \in {c} \cap pending THEN "timeout" ELSE result[d]
      BY <1>3, <2>2 DEF BackoffEnds, Settle
    <3>2. Queued' = Queued /\ Held' = Held \ {c} /\ QueuedOnce'
      BY <2>1, <3>1 DEF QueuedOnce, Held, Queued
    <3>3. active' = IF active \in {c} THEN NoCmd ELSE active
      BY <2>1
    <3> QED BY <2>1, <3>1, <3>2, <3>3, InvGiveUp
  <2>3. CASE c \notin expired
    <3>1. /\ \/ highQ' = Append(highQ, c) /\ normalQ' = normalQ
             \/ normalQ' = Append(normalQ, c) /\ highQ' = highQ
          /\ UNCHANGED <<pending, result, sentEvents>>
      BY <1>3, <2>3 DEF BackoffEnds
    <3>2. /\ Queued' = Queued \cup {c} /\ Held' = Held /\ QueuedOnce'
      <4>1. CASE highQ' = Append(highQ, c) /\ normalQ' = normalQ
        <5>1. Elems(highQ') = Elems(highQ) \cup {c} /\ Distinct(highQ')
          BY <2>1, <4>1, QueueElems
        <5> QED BY <2>1, <4>1, <5>1 DEF QueuedOnce, Held, Queued
      <4>2. CASE normalQ' = Append(normalQ, c) /\ highQ' = highQ
        <5>1. Elems(normalQ') = Elems(normalQ) \cup {c} /\ Distinct(normalQ')
          BY <2>1, <4>2, QueueElems
        <5> QED BY <2>1, <4>2, <5>1 DEF QueuedOnce, Held, Queued
      <4> QED BY <3>1, <4>1, <4>2
    <3>3. PendingIsHeld' /\ OneLiveFrame' /\ HeldIsIssued' /\ WaitingIsOpen'
          /\ TimerAfterSend' /\ ClosedIsReleased'
      BY <2>1, <3>1, <3>2
         DEF Inv, PendingIsHeld, OneLiveFrame, HeldIsIssued, WaitingIsOpen,
             TimerAfterSend, ClosedIsReleased
    <3>4. \A d \in Cmd : Budget(d)' = Budget(d)
      BY <2>1 DEF Budget
    <3>5. WithinBudget'
      BY <2>1, <3>2, <3>4 DEF Inv, WithinBudget
    <3> QED BY <3>2, <3>3, <3>5 DEF Inv
  <2> QED BY <2>2, <2>3
<1>4. ASSUME NEW r \in Result \ {"none"}, FailEverything(r),
             sentEvents' \subseteq sentEvents,
             session' = session \/ sentEvents' = {},
             UNCHANGED <<callers, frame, wire>>
      PROVE  Inv'
  <2>1. /\ highQ' = <<>> /\ normalQ' = <<>> /\ backoff' = {} /\ active' = NoCmd
        /\ pending' = pending \ Cmd /\ attempt' = attempt
        /\ timer' = NoCmd \/ timer' = timer
        /\ \A d \in Cmd : result'[d] = IF d \in Cmd \cap pending THEN r ELSE result[d]
    BY <1>4 DEF FailEverything, Settle
  <2>2. Queued' = {} /\ Held' = {}
    BY <2>1, ElemsEmpty DEF Queued, Held
  <2>3. QueuedOnce'
    BY <2>1, <2>2, ElemsEmpty DEF QueuedOnce
  <2>4. /\ Held' = Held \ Cmd /\ pending' = {} /\ Cmd \in SUBSET Cmd
        /\ active' = IF active \in Cmd THEN NoCmd ELSE active
    BY <2>1, <2>2, HeldTyped DEF TypeOK
  <2> QED BY <1>4, <2>1, <2>2, <2>3, <2>4, InvGiveUp
<1>5. CASE OnDisconnected
  <2>1. CASE connected
    <3>1. "lost" \in Result \ {"none"}
      BY DEF Result
    <3>2. /\ FailEverything("lost") /\ sentEvents' \subseteq sentEvents
          /\ UNCHANGED <<session, callers, frame, wire>>
      BY <1>5, <2>1 DEF OnDisconnected
    <3> QED BY <1>4, <3>1, <3>2
  <2>2. CASE ~connected
    BY <1>5, <2>2, InvFrames DEF OnDisconnected
  <2> QED BY <2>1, <2>2
<1>6. CASE Close
  <2>1. "closed" \in Result \ {"none"}
    BY DEF Result
  <2>2. /\ FailEverything("closed") /\ sentEvents' = {}
        /\ UNCHANGED <<callers, frame, wire>>
    BY <1>6 DEF Close
  <2> QED BY <1>4, <2>1, <2>2
<1> QED BY <1>1, <1>2, <1>3, <1>5, <1>6 DEF Kernel

LEMMA InvStep == TypeOK /\ TypeOK' /\ Inv /\ [Next]_vars => Inv'
<1> SUFFICES ASSUME TypeOK, TypeOK', Inv, [Next]_vars PROVE Inv'
  OBVIOUS
<1>1. CASE UNCHANGED vars
  BY <1>1, InvFrames DEF vars, queues, gate, replies, callers, outbound, conn, panel
<1> QED BY <1>1, InvSession, InvCallers, InvTrySendNext, InvOutbound, InvKernel DEF Next

THEOREM InvHolds == Spec => []Inv
<1>1. TypeOK /\ Inv /\ TypeOK' /\ [Next]_vars => Inv'
  BY InvStep
<1> QED BY InvInit, TypeCorrect, <1>1, PTL DEF Spec

-----------------------------------------------------------------------------
(* What follows from it.                                                   *)

\* No command is forgotten and none outlives its answer: a future is pending
\* exactly while the scheduler holds its command.
THEOREM PendingHeld == Spec => []PendingIsHeld
<1>1. Inv => PendingIsHeld
  BY DEF Inv
<1> QED BY InvHolds, <1>1, PTL

\* No command is in two places of the scheduler.
THEOREM HeldOnce == Spec => []QueuedOnce
<1>1. Inv => QueuedOnce
  BY DEF Inv
<1> QED BY InvHolds, <1>1, PTL

\* A retry never overtakes the frame it repeats: a command still held has a
\* frame in the OutboundQueue only while it is the active request.
THEOREM SingleInFlight == Spec => []OneLiveFrame
<1>1. Inv => OneLiveFrame
  BY DEF Inv
<1> QED BY InvHolds, <1>1, PTL

\* A command outside the allowlist is written at most once, any other at most
\* MaxRetries + 1 times, in every interleaving.
THEOREM WrittenAtMostOnce == Spec => []AtMostOnce
<1>1. ASSUME TypeOK, Inv PROVE AtMostOnce
  <2> SUFFICES ASSUME NEW c \in Cmd
               PROVE  wire[c] <= IF c \in Resend \ NoRetry THEN MaxRetries + 1 ELSE 1
    BY DEF AtMostOnce
  <2>1. wire[c] <= Budget(c) /\ wire[c] \in Nat /\ Budget(c) \in Nat
    BY <1>1, BudgetTyped DEF Inv, WithinBudget
  <2>2. attempt[c] \in 0..MaxRetries
    BY <1>1 DEF TypeOK
  <2> QED BY <2>1, <2>2, Bounds DEF Budget
<1> QED BY InvHolds, TypeCorrect, <1>1, PTL

\* After close() every waiting caller has its outcome.
THEOREM CloseReleases == Spec => []CloseReleasesAll
<1>1. Inv => CloseReleasesAll
  BY DEF Inv, ClosedIsReleased, WaitingIsOpen, CloseReleasesAll, Released
<1> QED BY InvHolds, <1>1, PTL

\* Once its caller was told an outcome and its frame has left the OutboundQueue,
\* a command is never handed over again.
THEOREM NotRevived == Spec => NeverRevived
<1> DEFINE Stays == \A c \in Cmd : caller[c] = "done" /\ frame[c] = "none" => frame'[c] = "none"
<1>1. ASSUME TypeOK, Inv, [Next]_vars PROVE Stays
  <2> SUFFICES ASSUME NEW c \in Cmd, caller[c] = "done", frame[c] = "none"
               PROVE  frame'[c] = "none"
    OBVIOUS
  <2> USE <1>1 DEF TypeOK, outbound
  <2>1. CASE UNCHANGED vars
    BY <2>1 DEF vars
  <2>2. CASE Session
    BY <2>2 DEF Session, Connect, TeardownBegins, TeardownCloses, TeardownNotifies,
                PanelAnswers
  <2>3. CASE Callers
    BY <2>3 DEF Callers, Issue, IssueRefused, DeadlinePasses, CallerResumes,
                CallerTimesOut, CallerCancelled, CancelTransport
  <2>4. CASE TrySendNext
    <3>1. Sendable => c # Next1
      <4>1. Sendable => Next1 \in Held
        BY NextElems DEF Inv, Held
      <4> QED BY <4>1 DEF Inv, HeldIsIssued
    <3> QED BY <2>4, <3>1 DEF TrySendNext, NothingToSend, DropExpired, SendNext,
                              SendNextRaises
  <2>5. CASE Outbound
    BY <2>5, ZenonT(60) DEF Outbound, StopQueue, PutFrame, TakeFrame, Throttled, FrameWritten,
                FrameNotWritten, Reported, OnSent, OnSendIoError, OnSendFailed
  <2>6. CASE Kernel
    BY <2>6 DEF Kernel, OnMessage, ReplyTimeout, BackoffEnds, OnDisconnected, Close
  <2> QED BY <2>1, <2>2, <2>3, <2>4, <2>5, <2>6 DEF Next
<1>2. Stays => [Stays]_vars
  OBVIOUS
<1> QED BY InvHolds, TypeCorrect, <1>1, PTL DEF Spec, NeverRevived

-----------------------------------------------------------------------------
(* RequestPipeline implements CommandContract: its initial states are      *)
(* initial states of the contract, and each of its steps is a step of the  *)
(* contract or leaves the contract's state alone.                          *)

(* The invariant the refinement needs beyond Inv.                          *)

\* What may make a caller believe that the panel acted: a reply stored,
\* posted or still to come, or the note that its frame was sent.
Mark(c) == \/ result[c] = "reply" \/ unanswered[c] > 0 \/ c \in confirmed
           \/ frame[c] = "written" \/ Message(c) \in Elems(posts)

\* Such a mark has a frame on the wire behind it.
BackedByWire == \A c \in Cmd : Mark(c) => wire[c] > 0

\* A caller that is not done was told nothing yet.
ToldWhenDone == \A c \in Cmd : caller[c] # "done" => outcome[c] = "none"

\* The messages among the posts of the session's threads.
LEMMA PostElems ==
  ASSUME NEW q \in Seq(Post)
  PROVE  /\ \A p \in Post : Elems(Append(q, p)) = Elems(q) \cup {p}
         /\ Elems(q \o <<Stop, Gone>>) = Elems(q) \cup {Stop, Gone}
         /\ q # <<>> => Elems(q) = Elems(Tail(q)) \cup {Head(q)}
         /\ \A c \in Cmd : Message(c) \in Post /\ Message(c) \notin {Stop, Gone}
         /\ Stop \in Post /\ Gone \in Post /\ Stop # Gone
         /\ \A c, d \in Cmd : Message(c) = Message(d) => c = d
<1>1. /\ \A c \in Cmd : Message(c) \in Post /\ Message(c) \notin {Stop, Gone}
      /\ Stop \in Post /\ Gone \in Post /\ Stop # Gone
      /\ \A c, d \in Cmd : Message(c) = Message(d) => c = d
  BY DEF Post, Message, Stop, Gone
<1>2. \A p \in Post : Append(q, p) \in Seq(Post) /\ Elems(Append(q, p)) = Elems(q) \cup {p}
  BY ElemsAppend
<1>3. q \o <<Stop, Gone>> = Append(Append(q, Stop), Gone)
  OBVIOUS
<1>4. Elems(q \o <<Stop, Gone>>) = Elems(q) \cup {Stop, Gone}
  <2> DEFINE r == Append(q, Stop)
  <2>1. r \in Seq(Post) /\ Elems(r) = Elems(q) \cup {Stop} /\ q \o <<Stop, Gone>> = Append(r, Gone)
    BY <1>1, <1>2, <1>3
  <2> HIDE DEF r
  <2>2. Elems(Append(r, Gone)) = Elems(r) \cup {Gone}
    BY <1>1, <2>1, ElemsAppend
  <2> QED BY <2>1, <2>2
<1> QED BY <1>1, <1>2, <1>4, ElemsHeadTail

LEMMA BackedStep ==
  ASSUME BackedByWire, TypeOK, TypeOK',
         \A c \in Cmd : wire'[c] >= wire[c],
         \A c \in Cmd : Mark(c)' => Mark(c) \/ wire'[c] > 0
  PROVE  BackedByWire'
  BY SMTT(40) DEF BackedByWire, TypeOK

LEMMA BackedInit == Init => BackedByWire /\ ToldWhenDone
  BY ElemsEmpty DEF Init, BackedByWire, Mark, ToldWhenDone

LEMMA BackedNext ==
  ASSUME TypeOK, TypeOK', Inv, BackedByWire, [Next]_vars
  PROVE  BackedByWire'
<1> DEFINE Grows == \A c \in Cmd : wire'[c] >= wire[c]
           Kept(c) == Mark(c)' => Mark(c) \/ wire'[c] > 0
<1>q. SUFFICES Grows /\ \A c \in Cmd : Kept(c)
  BY BackedStep
<1>t. /\ posts \in Seq(Post) /\ wire \in [Cmd -> Nat]
      /\ frame \in [Cmd -> Stage] /\ result \in [Cmd -> Result]
      /\ unanswered \in [Cmd -> Nat]
  BY DEF TypeOK
<1>w. \A c \in Cmd : wire[c] \in Nat /\ wire[c] >= wire[c] /\ wire[c] + 1 > 0
  BY <1>t
<1> USE DEF queues, gate, replies, callers, outbound, conn, panel, Mark
<1>1. CASE UNCHANGED vars
  BY <1>1, <1>t, <1>w DEF vars
<1>2. CASE Session
  <2>1. ASSUME NEW c \in Cmd, PanelAnswers(c) PROVE Grows /\ \A d \in Cmd : Kept(d)
    <3>1. /\ unanswered[c] > 0 /\ posts' = Append(posts, Message(c))
          /\ \A d \in Cmd \ {c} : unanswered'[d] = unanswered[d]
          /\ UNCHANGED <<result, confirmed, frame, wire>>
      BY <1>t, <1>w, <2>1 DEF PanelAnswers
    <3>2. Elems(posts') = Elems(posts) \cup {Message(c)}
      BY <1>t, <1>w, <3>1, PostElems
    <3>3. \A d \in Cmd : Message(d) \in Elems(posts') => Message(d) \in Elems(posts) \/ d = c
      BY <1>t, <1>w, <3>2, PostElems
    <3> QED BY <1>t, <1>w, <3>1, <3>3
  <2>2. CASE Connect \/ TeardownBegins \/ TeardownCloses \/ TeardownNotifies
    <3>1. /\ posts' = posts \/ posts' = Append(posts, Stop) \/ posts' = Append(posts, Gone)
          /\ \A d \in Cmd : unanswered'[d] > 0 => unanswered[d] > 0
          /\ UNCHANGED <<result, confirmed, frame, wire>>
      BY <2>2 DEF Connect, TeardownBegins, TeardownCloses, TeardownNotifies
    <3>2. Elems(posts') \subseteq Elems(posts) \cup {Stop, Gone}
      <4>1. /\ Elems(Append(posts, Stop)) = Elems(posts) \cup {Stop}
            /\ Elems(Append(posts, Gone)) = Elems(posts) \cup {Gone}
        BY <1>t, PostElems
      <4> QED BY <3>1, <4>1
    <3>3. \A d \in Cmd : Message(d) \in Elems(posts') => Message(d) \in Elems(posts)
      BY <1>t, <1>w, <3>2, PostElems
    <3> QED BY <1>t, <1>w, <3>1, <3>3
  <2> QED BY <1>2, <2>1, <2>2 DEF Session
<1>3. CASE Callers
  <2>1. ASSUME NEW c \in Cmd,
               Issue(c) \/ IssueRefused(c) \/ DeadlinePasses(c) \/ CallerResumes(c)
        PROVE  Grows /\ \A d \in Cmd : Kept(d)
    <3>1. /\ \A d \in Cmd : result'[d] = "reply" => result[d] = "reply"
          /\ confirmed' \subseteq confirmed
          /\ UNCHANGED <<frame, unanswered, posts, wire>>
      BY <1>t, <1>w, <2>1 DEF Issue, IssueRefused, DeadlinePasses, CallerResumes
    <3> QED BY <1>t, <1>w, <3>1
  <2>2. ASSUME NEW c \in Cmd, CallerTimesOut(c) \/ CallerCancelled(c)
        PROVE  Grows /\ \A d \in Cmd : Kept(d)
    <3>1. CancelTransport(c) /\ UNCHANGED <<unanswered, posts, wire>>
      BY <2>2 DEF CallerTimesOut, CallerCancelled
    <3>2. /\ \A d \in Cmd : result'[d] = "reply" => result[d] = "reply"
          /\ \A d \in Cmd : frame'[d] = "written" => frame[d] = "written"
          /\ confirmed' \subseteq confirmed
      BY <1>t, <1>w, <3>1 DEF CancelTransport
    <3> QED BY <1>t, <1>w, <3>1, <3>2
  <2> QED BY <1>3, <2>1, <2>2 DEF Callers
<1>4. CASE TrySendNext
  <2>1. CASE SendNext
    <3>1. Next1 \in Cmd
      BY <2>1, QueuesTyped DEF SendNext
    <3>2. UNCHANGED <<result, unanswered, posts>>
      BY <2>1 DEF SendNext
    <3>3. CASE frame' = [frame EXCEPT ![Next1] = "posted"] /\ UNCHANGED <<confirmed, wire>>
      BY <1>t, <1>w, <3>1, <3>2, <3>3
    <3>4. CASE /\ confirmed' \subseteq confirmed \cup {Next1} /\ frame' = frame
               /\ wire' = [wire EXCEPT ![Next1] = @ + 1]
      BY <1>t, <1>w, <3>1, <3>2, <3>4
    <3> QED BY <2>1, <3>3, <3>4 DEF SendNext, RequestSent
  <2>2. CASE NothingToSend \/ DropExpired \/ SendNextRaises
    <3>1. /\ \A c \in Cmd : result'[c] = "reply" => result[c] = "reply"
          /\ UNCHANGED <<confirmed, frame, unanswered, posts, wire>>
      BY <2>2 DEF NothingToSend, DropExpired, SendNextRaises, TransportFailure, Settle
    <3> QED BY <1>t, <1>w, <3>1
  <2> QED BY <1>4, <2>1, <2>2 DEF TrySendNext
<1>5. CASE Outbound
  <2>1. ASSUME NEW c \in Cmd, FrameWritten(c) PROVE Grows /\ \A d \in Cmd : Kept(d)
    <3>1. wire' = [wire EXCEPT ![c] = @ + 1] /\ UNCHANGED <<result, confirmed, posts>>
      BY <2>1 DEF FrameWritten, Reported
    <3>2. \A d \in Cmd \ {c} : frame'[d] = frame[d] /\ unanswered'[d] = unanswered[d]
      BY <1>t, <1>w, <2>1 DEF FrameWritten, Reported
    <3> QED BY <1>t, <1>w, <3>1, <3>2
  <2>2. ASSUME NEW c \in Cmd, OnSent(c) PROVE Grows /\ \A d \in Cmd : Kept(d)
    <3>1. /\ frame[c] = "written" /\ confirmed' \subseteq confirmed \cup {c}
          /\ \A d \in Cmd : frame'[d] = "written" => frame[d] = "written"
          /\ UNCHANGED <<result, posts, unanswered, wire>>
      BY <1>t, <1>w, <2>2 DEF OnSent, RequestSent
    <3> QED BY <1>t, <1>w, <3>1
  <2>3. ASSUME NEW c \in Cmd,
               PutFrame(c) \/ TakeFrame(c) \/ Throttled(c) \/ FrameNotWritten(c)
        PROVE  Grows /\ \A d \in Cmd : Kept(d)
    <3>1. /\ \A d \in Cmd : frame'[d] = "written" => frame[d] = "written"
          /\ UNCHANGED <<result, confirmed, posts, unanswered, wire>>
      BY <1>t, <1>w, <2>3 DEF PutFrame, TakeFrame, Throttled, FrameNotWritten, Reported
    <3> QED BY <1>t, <1>w, <3>1
  <2>4. ASSUME NEW c \in Cmd, OnSendFailed(c) PROVE Grows /\ \A d \in Cmd : Kept(d)
    <3>1. /\ \A d \in Cmd : frame'[d] = "written" => frame[d] = "written"
          /\ UNCHANGED <<confirmed, posts, unanswered, wire>>
      BY <1>t, <1>w, <2>4 DEF OnSendFailed
    <3>2. \A d \in Cmd : result'[d] = "reply" => result[d] = "reply"
      BY <2>4 DEF OnSendFailed, TransportFailure, Settle
    <3> QED BY <1>t, <1>w, <3>1, <3>2
  <2>5. ASSUME NEW c \in Cmd, OnSendIoError(c) PROVE Grows /\ \A d \in Cmd : Kept(d)
    <3>1. /\ \A d \in Cmd : frame'[d] = "written" => frame[d] = "written"
          /\ UNCHANGED <<confirmed, wire>>
      BY <1>t, <1>w, <2>5 DEF OnSendIoError
    <3>2. /\ \A d \in Cmd : result'[d] = "reply" => result[d] = "reply"
          /\ \A d \in Cmd : unanswered'[d] > 0 => unanswered[d] > 0
      BY <1>t, <1>w, <2>5 DEF OnSendIoError, TearDownOnLoop, Settle
    <3>3. posts' = posts \/ posts' = posts \o <<Stop, Gone>>
      BY <2>5 DEF OnSendIoError, TearDownOnLoop
    <3>4. Elems(posts') \subseteq Elems(posts) \cup {Stop, Gone}
      BY <1>t, <1>w, <3>3, PostElems
    <3>5. \A d \in Cmd : Message(d) \in Elems(posts') => Message(d) \in Elems(posts)
      BY <1>t, <1>w, <3>4, PostElems
    <3> QED BY <1>t, <1>w, <3>1, <3>2, <3>5
  <2>6. CASE StopQueue
    <3>1. /\ \A d \in Cmd : frame'[d] = "written" => frame[d] = "written"
          /\ \A d \in Cmd : result'[d] = "reply" => result[d] = "reply"
          /\ posts # <<>> /\ posts' = Tail(posts)
          /\ UNCHANGED <<confirmed, unanswered, wire>>
      BY <2>6 DEF StopQueue, Settle
    <3>2. Elems(posts') \subseteq Elems(posts)
      BY <1>t, <1>w, <3>1, PostElems
    <3> QED BY <1>t, <1>w, <3>1, <3>2
  <2> QED BY <1>5, <2>1, <2>2, <2>3, <2>4, <2>5, <2>6 DEF Outbound
<1>6. CASE Kernel
  <2>1. ASSUME NEW c \in Cmd, OnMessage(c) PROVE Grows /\ \A d \in Cmd : Kept(d)
    <3>1. /\ posts # <<>> /\ posts' = Tail(posts) /\ Head(posts) = Message(c)
          /\ \A d \in Cmd \ {c} : result'[d] = result[d]
          /\ UNCHANGED <<confirmed, frame, unanswered, wire>>
      BY <2>1 DEF OnMessage, Settle
    <3>2. Message(c) \in Elems(posts) /\ Elems(posts') \subseteq Elems(posts)
      BY <1>t, <1>w, <3>1, PostElems
    <3> QED BY <1>t, <1>w, <3>1, <3>2
  <2>2. CASE \/ OnDisconnected \/ Close
             \/ \E c \in Cmd : ReplyTimeout(c) \/ BackoffEnds(c)
    <3>1. /\ \A d \in Cmd : result'[d] = "reply" => result[d] = "reply"
          /\ posts' = posts \/ (posts # <<>> /\ posts' = Tail(posts))
          /\ UNCHANGED <<confirmed, frame, unanswered, wire>>
      BY <2>2 DEF OnDisconnected, Close, FailEverything, ReplyTimeout, BackoffEnds,
                  TransportFailure, Settle
    <3>2. Elems(posts') \subseteq Elems(posts)
      BY <1>t, <1>w, <3>1, PostElems
    <3> QED BY <1>t, <1>w, <3>1, <3>2
  <2> QED BY <1>6, <2>1, <2>2 DEF Kernel
<1> QED BY <1>1, <1>2, <1>3, <1>4, <1>5, <1>6 DEF Next

LEMMA ToldNext ==
  ASSUME TypeOK, ToldWhenDone, [Next]_vars
  PROVE  ToldWhenDone'
<1> USE DEF ToldWhenDone, TypeOK, callers
<1>1. CASE Callers
  BY <1>1 DEF Callers, Issue, IssueRefused, DeadlinePasses, CallerResumes,
              CallerTimesOut, CallerCancelled, Finish
<1>2. UNCHANGED callers => ToldWhenDone'
  OBVIOUS
<1>3. CASE Session \/ TrySendNext \/ Outbound \/ Kernel \/ UNCHANGED vars
  BY <1>2, <1>3
     DEF vars, Session, Connect, TeardownBegins, TeardownCloses, TeardownNotifies,
         PanelAnswers, TrySendNext, NothingToSend, DropExpired, SendNext,
         SendNextRaises, Outbound, StopQueue, PutFrame, TakeFrame, Throttled,
         FrameWritten, FrameNotWritten, Reported, OnSent, OnSendIoError, OnSendFailed,
         Kernel, OnMessage, ReplyTimeout, BackoffEnds, OnDisconnected, Close
<1> QED BY <1>1, <1>3 DEF Next

\* Every mark of a sent command has a frame on the wire behind it, and a caller
\* is told once.
THEOREM HonestHolds == Spec => [](BackedByWire /\ ToldWhenDone)
<1>1. /\ TypeOK /\ TypeOK' /\ Inv /\ BackedByWire /\ ToldWhenDone /\ [Next]_vars
      => BackedByWire' /\ ToldWhenDone'
  BY BackedNext, ToldNext
<1> QED BY BackedInit, <1>1, TypeCorrect, InvHolds, PTL DEF Spec

-----------------------------------------------------------------------------
(* The refinement.                                                         *)

Fresh == {c \in Cmd : caller[c] = "idle"}

ContractStep == Contract!Next \/ UNCHANGED Contract!vars

LEMMA GiveUpStep ==
  ASSUME Held' \subseteq Held, InTransit' \subseteq InTransit, Fresh' = Fresh,
         UNCHANGED <<wire, outcome>>
  PROVE  ContractStep
<1> DEFINE L == Held \ Held'
           T == InTransit \ InTransit'
<1>1. Contract!GiveUp(L, T)
  BY DEF Contract!GiveUp, Fresh
<1>2. L \in SUBSET Held /\ T \in SUBSET InTransit
  OBVIOUS
<1> QED BY <1>1, <1>2 DEF Contract!Next, ContractStep

LEMMA TellStep ==
  ASSUME NEW c \in Cmd, NEW o \in Outcome \ {"none"},
         ToldWhenDone, TypeOK, caller[c] \notin {"idle", "done"},
         o \in {"ok", "unknown", "cancelled_unknown"} => wire[c] > 0,
         outcome' = [outcome EXCEPT ![c] = o],
         Held' = Held \ {c}, InTransit' \subseteq InTransit, Fresh' = Fresh,
         wire' = wire
  PROVE  ContractStep
<1> DEFINE T == InTransit \ InTransit'
<1>1. T \in SUBSET InTransit /\ InTransit' = InTransit \ T
  OBVIOUS
<1>2. Contract!Tell(c, o, T)
  BY <1>1 DEF Contract!Tell, Contract!Acted, Fresh, ToldWhenDone
<1> QED BY <1>1, <1>2 DEF Contract!Next, ContractStep

\* Writing a frame stays within the contract's limit.
LEMMA WriteStep ==
  ASSUME TypeOK, NEW c \in Cmd, c \in Held \cup InTransit, wire[c] < Budget(c),
         wire' = [wire EXCEPT ![c] = @ + 1],
         Held' = Held, InTransit' = InTransit \ {c}, Fresh' = Fresh,
         UNCHANGED outcome
  PROVE  ContractStep
<1>1. /\ attempt[c] \in Nat /\ attempt[c] <= MaxRetries /\ wire[c] \in Nat
      /\ MaxRetries \in Nat
  BY Bounds DEF TypeOK
<1>2. wire[c] < IF c \in Resend \ NoRetry THEN MaxRetries + 1 ELSE 1
  BY <1>1 DEF Budget
<1>3. Contract!Write(c)
  BY <1>2 DEF Contract!Write, Fresh
<1> QED BY <1>3 DEF Contract!Next, ContractStep

LEMMA ContractInitially == Init => Contract!Init
<1> SUFFICES ASSUME Init PROVE Contract!Init
  OBVIOUS
<1>1. Held = {}
  BY ElemsEmpty DEF Init, Held, Queued
<1> QED BY <1>1 DEF Init, Contract!Init, InTransit

LEMMA ContractCallers ==
  ASSUME TypeOK, Inv, BackedByWire, ToldWhenDone, Callers
  PROVE  ContractStep
<1> USE DEF queues, gate, replies, callers, outbound, conn, panel
<1>t. /\ caller \in [Cmd -> {"idle", "waiting", "detached", "done"}]
      /\ frame \in [Cmd -> Stage] /\ outcome \in [Cmd -> Outcome] /\ QueuedOnce
  BY DEF TypeOK, Inv
<1>1. ASSUME NEW c \in Cmd, Issue(c) PROVE ContractStep
  <2>1. c \in Fresh /\ Fresh' = Fresh \ {c}
    BY <1>t, <1>1 DEF Issue, Fresh
  <2>2. Queued' = Queued \cup {c}
    <3>1. \/ highQ' = Append(highQ, c) /\ normalQ' = normalQ
          \/ normalQ' = Append(normalQ, c) /\ highQ' = highQ
      BY <1>1 DEF Issue
    <3> QED BY <1>t, <3>1, QueueElems DEF Queued
  <2>3. Held' = Held \cup {c} /\ UNCHANGED <<InTransit, wire, outcome>>
    BY <1>1, <2>2 DEF Issue, Held, InTransit
  <2>4. Contract!Accept(c)
    BY <2>1, <2>3 DEF Contract!Accept, Fresh
  <2> QED BY <2>4 DEF Contract!Next, ContractStep
<1>2. ASSUME NEW c \in Cmd, IssueRefused(c) PROVE ContractStep
  <2>1. c \in Fresh /\ Fresh' = Fresh \ {c}
    BY <1>t, <1>2 DEF IssueRefused, Fresh
  <2>2. UNCHANGED <<Held, InTransit, wire>> /\ outcome' = [outcome EXCEPT ![c] = "refused"]
    BY <1>2 DEF IssueRefused, Held, Queued, InTransit
  <2>3. Contract!Refuse(c)
    BY <2>1, <2>2 DEF Contract!Refuse, Fresh
  <2> QED BY <2>3 DEF Contract!Next, ContractStep
<1>3. ASSUME NEW c \in Cmd, DeadlinePasses(c) PROVE ContractStep
  BY <1>3, GiveUpStep DEF DeadlinePasses, Held, Queued, InTransit, Fresh
<1>4. ASSUME NEW c \in Cmd, CallerResumes(c) PROVE ContractStep
  <2> DEFINE o == CASE result[c] = "reply" -> "ok"
                    [] result[c] = "timeout" ->
                         IF OutcomeUnknown(c) THEN "unknown" ELSE "timeout"
                    [] OTHER -> "error"
  <2>1. /\ Finish(c, o) /\ caller[c] = "waiting" /\ result[c] # "none"
        /\ UNCHANGED <<queues, active, frame, wire>>
    BY <1>4 DEF CallerResumes
  <2>2. \/ o = "ok" /\ result[c] = "reply"
        \/ o = "unknown" /\ OutcomeUnknown(c)
        \/ o \in {"timeout", "error"}
    OBVIOUS
  <2> HIDE DEF o
  <2>3. o \in Outcome \ {"none"}
        /\ (o \in {"ok", "unknown", "cancelled_unknown"} => wire[c] > 0)
    BY <2>2 DEF Outcome, OutcomeUnknown, BackedByWire, Mark
  <2>4. UNCHANGED <<Held, InTransit>> /\ c \notin Held
    BY <2>1 DEF Held, Queued, InTransit, Inv, WaitingIsOpen, PendingIsHeld, HeldIsIssued
  <2>5. Fresh' = Fresh
    BY <1>t, <2>1 DEF Finish, Fresh
  <2> QED BY <2>1, <2>3, <2>4, <2>5, TellStep DEF Finish
<1>5. ASSUME NEW c \in Cmd, NEW o \in {"unknown", "timeout", "cancelled_unknown", "cancelled"},
             caller[c] = "waiting", Finish(c, o), CancelTransport(c), wire' = wire,
             o \in {"unknown", "cancelled_unknown"} => OutcomeUnknown(c)
      PROVE  ContractStep
  <2>1. /\ highQ' = Without(highQ, c) /\ normalQ' = Without(normalQ, c)
        /\ backoff' = backoff \ {c}
        /\ active' = IF active = c THEN NoCmd ELSE active
    BY <1>5 DEF CancelTransport, CompleteActive
  <2>2. Queued' = Queued \ {c}
    BY <1>t, <2>1, QueueElems DEF Queued
  <2>3. Held' = Held \ {c}
    BY <2>1, <2>2, CommandKinds DEF Held
  <2>4. InTransit' \subseteq InTransit
    BY <1>t, <1>5 DEF CancelTransport, InTransit
  <2>5. Fresh' = Fresh
    BY <1>t, <1>5 DEF Finish, Fresh
  <2>6. o \in Outcome \ {"none"}
        /\ (o \in {"ok", "unknown", "cancelled_unknown"} => wire[c] > 0)
    BY <1>5 DEF Outcome, OutcomeUnknown, BackedByWire, Mark
  <2> QED BY <1>5, <2>3, <2>4, <2>5, <2>6, TellStep DEF Finish
<1>6. ASSUME NEW c \in Cmd, CallerTimesOut(c) \/ CallerCancelled(c) PROVE ContractStep
  BY <1>5, <1>6 DEF CallerTimesOut, CallerCancelled
<1> QED BY <1>1, <1>2, <1>3, <1>4, <1>6 DEF Callers

LEMMA ContractSession ==
  ASSUME Session
  PROVE  ContractStep
  BY GiveUpStep
     DEF queues, gate, replies, callers, outbound, conn, panel, Held, Queued,
         InTransit, Fresh, Session, Connect, TeardownBegins, TeardownCloses,
         TeardownNotifies, PanelAnswers

LEMMA ContractTrySendNext ==
  ASSUME TypeOK, Inv, TrySendNext
  PROVE  ContractStep
<1> USE DEF queues, gate, replies, callers, outbound, conn, panel
<1>t. frame \in [Cmd -> Stage] /\ QueuedOnce /\ wire \in [Cmd -> Nat]
  BY DEF TypeOK, Inv
<1>n. ASSUME Sendable
      PROVE  /\ Next1 \in Queued /\ Next1 \in Cmd /\ active = NoCmd
             /\ highQ' = HighRest /\ normalQ' = NormalRest => Queued' = Queued \ {Next1}
  BY <1>n, <1>t, NextElems DEF Queued, Sendable
<1>1. CASE NothingToSend
  BY <1>1, GiveUpStep DEF NothingToSend, Held, Queued, InTransit, Fresh
<1>2. CASE DropExpired
  <2>1. /\ Sendable /\ highQ' = HighRest /\ normalQ' = NormalRest
        /\ backoff' = backoff \ {Next1} /\ UNCHANGED <<active, frame, callers, wire>>
    BY <1>2 DEF DropExpired
  <2>2. Held' \subseteq Held
    BY <1>n, <2>1 DEF Held
  <2> QED BY <2>1, <2>2, GiveUpStep DEF InTransit, Fresh
<1>3. CASE SendNext
  <2>1. /\ Sendable /\ highQ' = HighRest /\ normalQ' = NormalRest /\ active' = Next1
        /\ UNCHANGED <<backoff, attempt, callers>>
    BY <1>3 DEF SendNext
  <2>2. Held' = Held /\ Next1 \in Held /\ Next1 \in Cmd
    BY <1>n, <2>1, CommandKinds DEF Held, TypeOK
  <2>3. frame[Next1] = "none" /\ wire[Next1] < Budget(Next1)
    BY <1>n, <2>1, <2>2, CommandKinds DEF Inv, OneLiveFrame, WithinBudget
  <2>4. CASE frame' = [frame EXCEPT ![Next1] = "posted"] /\ wire' = wire
    <3>1. InTransit' = InTransit \cup {Next1} /\ Next1 \notin InTransit
      BY <1>t, <2>2, <2>3, <2>4 DEF InTransit
    <3>2. Contract!Hand(Next1)
      BY <2>1, <2>2, <2>4, <3>1 DEF Contract!Hand
    <3> QED BY <2>2, <3>2 DEF Contract!Next, ContractStep
  <2>5. CASE frame' = frame /\ wire' = [wire EXCEPT ![Next1] = @ + 1]
    <3>1. InTransit' = InTransit \ {Next1} /\ Fresh' = Fresh
      BY <2>1, <2>3, <2>5 DEF InTransit, Fresh
    <3> QED BY <2>1, <2>2, <2>3, <2>5, <3>1, WriteStep
  <2> QED BY <1>3, <2>4, <2>5 DEF SendNext
<1>4. CASE SendNextRaises
  <2>1. /\ Sendable /\ normalQ' = NormalRest /\ UNCHANGED <<frame, callers, wire>>
        /\ active' = NoCmd
        /\ \/ highQ' = HighRest /\ backoff' \subseteq backoff \cup {Next1}
           \/ highQ' = <<Next1>> \o HighRest /\ backoff' \subseteq backoff
    BY <1>4 DEF SendNextRaises, TransportFailure, CompleteActive
  <2>2. Queued' \subseteq Queued
    <3>1. /\ Elems(HighRest) \subseteq Elems(highQ)
          /\ Elems(NormalRest) \subseteq Elems(normalQ)
          /\ Elems(<<Next1>> \o HighRest) \subseteq Queued
      BY <1>t, <2>1, NextElems DEF Queued
    <3> QED BY <2>1, <3>1 DEF Queued
  <2>3. Held' \subseteq Held
    BY <1>n, <2>1, <2>2 DEF Held
  <2> QED BY <2>1, <2>3, GiveUpStep DEF InTransit, Fresh
<1> QED BY <1>1, <1>2, <1>3, <1>4 DEF TrySendNext

\* A transport failure of a command the scheduler holds adds nothing to it.
LEMMA TransportFailureGivesUp ==
  ASSUME TypeOK, Inv, NEW c \in Held, NEW sent, NEW r,
         TransportFailure(c, sent, highQ, r), normalQ' = normalQ
  PROVE  Held' \subseteq Held
<1>1. c \in Cmd /\ QueuedOnce
  BY HeldTyped DEF Inv
<1>2. /\ highQ' = highQ \/ highQ' = <<c>> \o highQ
      /\ backoff' \subseteq backoff \cup {c} /\ active' = NoCmd
  BY DEF TransportFailure, CompleteActive
<1>3. Elems(<<c>> \o highQ) = Elems(highQ) \cup {c}
  BY <1>1, QueueElems
<1>4. Queued' \subseteq Queued \cup {c}
  BY <1>2, <1>3 DEF Queued
<1> QED BY <1>2, <1>4 DEF Held

LEMMA ContractOutbound ==
  ASSUME TypeOK, Inv, Outbound
  PROVE  ContractStep
<1> USE DEF queues, gate, replies, callers, outbound, conn, panel
<1>t. frame \in [Cmd -> Stage]
  BY DEF TypeOK
<1>1. CASE StopQueue
  <2>1. /\ UNCHANGED <<queues, callers, wire>>
        /\ active' = active \/ active' = NoCmd
        /\ \A c \in Cmd : frame'[c] = frame[c] \/ frame'[c] = "none"
    BY <1>1 DEF StopQueue, CompleteActive
  <2> QED BY <2>1, GiveUpStep DEF Held, Queued, InTransit, Fresh
<1>2. ASSUME NEW c \in Cmd,
             PutFrame(c) \/ TakeFrame(c) \/ Throttled(c) \/ FrameNotWritten(c)
      PROVE  ContractStep
  <2>1. UNCHANGED <<queues, active, callers, wire>>
    BY <1>2 DEF PutFrame, TakeFrame, Throttled, FrameNotWritten, Reported
  <2>2. InTransit' \subseteq InTransit
    BY <1>t, <1>2 DEF PutFrame, TakeFrame, Throttled, FrameNotWritten, Reported, InTransit
  <2> QED BY <2>1, <2>2, GiveUpStep DEF Held, Queued, Fresh
<1>3. ASSUME NEW c \in Cmd, FrameWritten(c) PROVE ContractStep
  <2>1. /\ frame[c] = "sending" /\ frame' = [frame EXCEPT ![c] = Reported("written")]
        /\ wire' = [wire EXCEPT ![c] = @ + 1] /\ UNCHANGED <<queues, active, callers>>
    BY <1>3 DEF FrameWritten, Reported
  <2>2. c \in InTransit /\ InTransit' = InTransit \ {c}
    BY <1>t, <2>1 DEF InTransit, Reported
  <2>3. wire[c] < Budget(c)
    BY <2>1 DEF Inv, WithinBudget, Unwritten
  <2>4. Held' = Held /\ Fresh' = Fresh
    BY <2>1 DEF Held, Queued, Fresh
  <2> QED BY <2>1, <2>2, <2>3, <2>4, WriteStep
<1>4. ASSUME NEW c \in Cmd, OnSent(c) PROVE ContractStep
  BY <1>t, <1>4, GiveUpStep DEF OnSent, Held, Queued, InTransit, Fresh
<1>5. ASSUME NEW c \in Cmd, OnSendIoError(c) PROVE ContractStep
  <2>1. /\ UNCHANGED <<queues, callers, wire>> /\ frame' = [frame EXCEPT ![c] = "none"]
        /\ active' = active \/ active' = NoCmd
    BY <1>5 DEF OnSendIoError, CompleteActive
  <2> QED BY <1>t, <2>1, GiveUpStep DEF Held, Queued, InTransit, Fresh
<1>6. ASSUME NEW c \in Cmd, OnSendFailed(c) PROVE ContractStep
  <2>1. UNCHANGED <<callers, wire, normalQ>> /\ frame' = [frame EXCEPT ![c] = "none"]
    BY <1>6 DEF OnSendFailed
  <2>2. Held' \subseteq Held
    <3>1. CASE active = c
      BY <1>6, <3>1, CommandKinds, TransportFailureGivesUp DEF OnSendFailed, Held
    <3>2. CASE active # c
      BY <1>6, <3>2 DEF OnSendFailed, Held, Queued
    <3> QED BY <3>1, <3>2
  <2> QED BY <1>t, <2>1, <2>2, GiveUpStep DEF InTransit, Fresh
<1> QED BY <1>1, <1>2, <1>3, <1>4, <1>5, <1>6 DEF Outbound

LEMMA ContractKernel ==
  ASSUME TypeOK, Inv, Kernel
  PROVE  ContractStep
<1> USE DEF queues, gate, replies, callers, outbound, conn, panel
<1>t. QueuedOnce
  BY DEF Inv
<1>1. ASSUME Held' \subseteq Held, UNCHANGED <<frame, callers, wire>> PROVE ContractStep
  BY <1>1, GiveUpStep DEF InTransit, Fresh
<1>2. ASSUME NEW c \in Cmd, OnMessage(c) PROVE ContractStep
  <2>1. /\ highQ' = Without(highQ, c) /\ normalQ' = Without(normalQ, c)
        /\ backoff' \subseteq backoff /\ active' \in {active, NoCmd}
        /\ UNCHANGED <<frame, callers, wire>>
    BY <1>2 DEF OnMessage, CompleteActive
  <2>2. Queued' \subseteq Queued
    <3>1. Elems(Without(highQ, c)) \subseteq Elems(highQ) /\ Elems(Without(normalQ, c)) \subseteq Elems(normalQ)
      BY <1>t, <1>2, QueueElems
    <3>2. Elems(highQ') \subseteq Elems(highQ) /\ Elems(normalQ') \subseteq Elems(normalQ)
      BY <2>1, <3>1
    <3> QED BY <3>2 DEF Queued
  <2>3. Held' \subseteq Held
    BY <2>1, <2>2 DEF Held
  <2> QED BY <1>1, <2>1, <2>3
<1>3. ASSUME NEW c \in Cmd, ReplyTimeout(c) PROVE ContractStep
  <2>1. UNCHANGED <<frame, callers, wire, normalQ>>
    BY <1>3 DEF ReplyTimeout
  <2>2. CASE active = c
    BY <1>1, <1>3, <2>1, <2>2, CommandKinds, TransportFailureGivesUp DEF ReplyTimeout, Held
  <2>3. CASE active # c
    BY <1>1, <1>3, <2>1, <2>3 DEF ReplyTimeout, Held, Queued
  <2> QED BY <2>2, <2>3
<1>4. ASSUME NEW c \in Cmd, BackoffEnds(c) PROVE ContractStep
  <2>1. /\ c \in backoff /\ backoff' = backoff \ {c} /\ active' = active
        /\ UNCHANGED <<frame, callers, wire>>
        /\ highQ' = highQ \/ highQ' = Append(highQ, c)
        /\ normalQ' = normalQ \/ normalQ' = Append(normalQ, c)
    BY <1>4 DEF BackoffEnds
  <2>2. Queued' \subseteq Queued \cup {c}
    <3>1. Elems(Append(highQ, c)) = Elems(highQ) \cup {c} /\ Elems(Append(normalQ, c)) = Elems(normalQ) \cup {c}
      BY <1>t, <1>4, QueueElems
    <3>2. Elems(highQ') \subseteq Elems(highQ) \cup {c} /\ Elems(normalQ') \subseteq Elems(normalQ) \cup {c}
      BY <2>1, <3>1
    <3> QED BY <3>2 DEF Queued
  <2>3. Held' \subseteq Held
    BY <2>1, <2>2 DEF Held
  <2> QED BY <1>1, <2>1, <2>3
<1>5. CASE OnDisconnected \/ Close
  <2>1. /\ UNCHANGED <<frame, callers, wire>>
        /\ \/ highQ' = <<>> /\ normalQ' = <<>> /\ backoff' = {} /\ active' = NoCmd
           \/ UNCHANGED <<highQ, normalQ, backoff, active>>
    BY <1>5 DEF OnDisconnected, Close, FailEverything
  <2>2. Held' \subseteq Held
    BY <2>1, ElemsEmpty DEF Held, Queued
  <2> QED BY <1>1, <2>1, <2>2
<1> QED BY <1>2, <1>3, <1>4, <1>5 DEF Kernel

\* The request path of the client keeps the command contract, whatever the
\* commands, the retries and the sessions: what a caller is told is told once
\* and is true, a command given up never comes back, and no command is written
\* more often than its kind allows.
THEOREM ContractKept == Spec => ContractSpec
<1>1. TypeOK /\ Inv /\ BackedByWire /\ ToldWhenDone /\ [Next]_vars
      => [Contract!Next]_Contract!vars
  <2> SUFFICES ASSUME TypeOK, Inv, BackedByWire, ToldWhenDone, [Next]_vars
               PROVE  ContractStep
    BY DEF ContractStep
  <2>1. CASE UNCHANGED vars
    BY <2>1, GiveUpStep DEF vars, queues, gate, replies, callers, outbound, conn, panel,
                            Held, Queued, InTransit, Fresh
  <2> QED BY <2>1, ContractSession, ContractCallers, ContractTrySendNext,
             ContractOutbound, ContractKernel DEF Next
<1> QED BY ContractInitially, <1>1, TypeCorrect, InvHolds, HonestHolds, PTL
        DEF Spec, ContractSpec, Contract!Spec

-----------------------------------------------------------------------------
(* When a write is reported as a plain timeout.                            *)

\* A send is noted: the sent event of a pending future is registered until its
\* send is confirmed, and a frame on the wire is confirmed, or the worker has
\* yet to say so, for as long as a worker runs.
SendIsNoted ==
    \A c \in pending :
        /\ c \in sentEvents \cup confirmed
        /\ wire[c] > 0 /\ worker = "running" => frame[c] = "written" \/ c \in confirmed

\* A loss is reported: the link counts as up until the kernel is told, and a
\* future still pending on a lost link has the kernel's callback before it.
LossIsTold ==
    /\ session /\ link # "lost" => connected /\ Gone \notin Elems(posts)
    /\ pending # {} /\ link = "lost" => connected /\ Gone \in Elems(posts)

Noted == SendIsNoted /\ LossIsTold

\* A step that issues nothing, moves no link and reports no loss.
LEMMA QuietStep ==
  ASSUME Noted, pending' \subseteq pending,
         UNCHANGED <<session, connected, link>>,
         Gone \in Elems(posts') <=> Gone \in Elems(posts),
         worker' \in {worker, "stopped"},
         sentEvents \cap pending' \subseteq sentEvents' \cup confirmed',
         confirmed \cap pending' \subseteq confirmed',
         \A c \in pending' : /\ \/ wire'[c] = wire[c] \/ frame'[c] = "written"
                                \/ c \in confirmed' \/ worker' = "stopped"
                             /\ frame[c] = "written" /\ worker' = "running"
                                => frame'[c] = "written" \/ c \in confirmed'
  PROVE  Noted'
<1>1. SendIsNoted'
  <2> SUFFICES ASSUME NEW c \in pending'
               PROVE  /\ c \in sentEvents' \cup confirmed'
                      /\ wire'[c] > 0 /\ worker' = "running"
                         => frame'[c] = "written" \/ c \in confirmed'
    BY DEF SendIsNoted
  <2>1. /\ c \in pending /\ c \in sentEvents \cup confirmed
        /\ wire[c] > 0 /\ worker = "running" => frame[c] = "written" \/ c \in confirmed
    BY DEF Noted, SendIsNoted
  <2> QED BY <2>1
<1>2. LossIsTold'
  BY DEF Noted, LossIsTold
<1> QED BY <1>1, <1>2 DEF Noted

LEMMA NotedInit == Init => Noted
  BY DEF Init, Noted, SendIsNoted, LossIsTold

LEMMA NotedNext ==
  ASSUME TypeOK, Inv, Noted, [Next]_vars
  PROVE  Noted'
<1> USE DEF queues, gate, replies, callers, outbound, conn, panel
<1>t. /\ frame \in [Cmd -> Stage] /\ wire \in [Cmd -> Nat] /\ posts \in Seq(Post)
      /\ pending \subseteq Cmd /\ worker \in {"running", "stopped"}
      /\ session \in BOOLEAN /\ link \in {"active", "closing", "down", "lost"}
  BY DEF TypeOK
<1>p. /\ Gone \in Elems(Append(posts, Gone))
      /\ \A p \in {Stop} \cup {Message(c) : c \in Cmd} :
            Gone \in Elems(Append(posts, p)) <=> Gone \in Elems(posts)
      /\ Gone \in Elems(posts \o <<Stop, Gone>>)
      /\ posts # <<>> /\ Head(posts) # Gone
            => (Gone \in Elems(Tail(posts)) <=> Gone \in Elems(posts))
      /\ posts # <<>> => Head(posts) \in Elems(posts)
      /\ \A c \in Cmd : Message(c) # Gone
      /\ Stop # Gone
  <2>1. /\ \A p \in Post : Elems(Append(posts, p)) = Elems(posts) \cup {p}
        /\ Elems(posts \o <<Stop, Gone>>) = Elems(posts) \cup {Stop, Gone}
        /\ posts # <<>> => Elems(posts) = Elems(Tail(posts)) \cup {Head(posts)}
        /\ \A c \in Cmd : Message(c) \in Post /\ Message(c) # Gone
        /\ Stop \in Post /\ Gone \in Post /\ Stop # Gone
    BY <1>t, PostElems
  <2>2. /\ Gone \in Elems(Append(posts, Gone))
        /\ Gone \in Elems(posts \o <<Stop, Gone>>)
        /\ \A c \in Cmd : Message(c) # Gone
        /\ Stop # Gone
    BY <2>1
  <2>3. \A p \in {Stop} \cup {Message(c) : c \in Cmd} : p \in Post /\ p # Gone
    BY <2>1
  <2>4. \A p \in {Stop} \cup {Message(c) : c \in Cmd} :
           Gone \in Elems(Append(posts, p)) <=> Gone \in Elems(posts)
    BY <2>1, <2>3
  <2>5. /\ posts # <<>> /\ Head(posts) # Gone
              => (Gone \in Elems(Tail(posts)) <=> Gone \in Elems(posts))
        /\ posts # <<>> => Head(posts) \in Elems(posts)
    BY <2>1
  <2> QED BY <2>2, <2>4, <2>5
<1>0. CASE UNCHANGED vars
  BY <1>0, QuietStep DEF vars
<1>1. CASE Session
  <2>1. CASE Connect
    <3>1. pending = {} /\ pending' = {} /\ link' = "active" /\ connected' /\ posts' = <<>>
      BY <2>1, ElemsEmpty DEF Connect, Noted, LossIsTold
    <3> QED BY <3>1, ElemsEmpty DEF Noted, SendIsNoted, LossIsTold
  <2>2. CASE TeardownBegins
    <3>1. /\ link = "active" /\ link' = "closing" /\ posts' = Append(posts, Stop)
          /\ UNCHANGED <<session, connected>>
      BY <2>2 DEF TeardownBegins
    <3>2. LossIsTold'
      BY <1>p, <3>1 DEF Noted, LossIsTold
    <3>3. SendIsNoted'
      BY <2>2 DEF TeardownBegins, Noted, SendIsNoted
    <3> QED BY <3>2, <3>3 DEF Noted
  <2>3. CASE TeardownCloses
    BY <2>3 DEF TeardownCloses, Noted, SendIsNoted, LossIsTold
  <2>4. CASE TeardownNotifies
    <3>1. LossIsTold'
      BY <1>p, <2>4 DEF TeardownNotifies, Noted, LossIsTold, Inv, ClosedIsReleased
    <3>2. SendIsNoted'
      BY <2>4 DEF TeardownNotifies, Noted, SendIsNoted
    <3> QED BY <3>1, <3>2 DEF Noted
  <2>5. ASSUME NEW c \in Cmd, PanelAnswers(c) PROVE Noted'
    <3>1. posts' = Append(posts, Message(c))
          /\ UNCHANGED <<pending, session, connected, link, worker, sentEvents, confirmed,
                         wire, frame>>
      BY <2>5 DEF PanelAnswers
    <3>2. Gone \in Elems(posts') <=> Gone \in Elems(posts)
      BY <1>p, <3>1
    <3> QED BY <3>1, <3>2, QuietStep
  <2> QED BY <1>1, <2>1, <2>2, <2>3, <2>4, <2>5 DEF Session
<1>2. CASE Callers
  <2>1. ASSUME NEW c \in Cmd, Issue(c) PROVE Noted'
    <3>1. /\ link \in {"active", "closing"} /\ wire[c] = 0
          /\ pending' \subseteq pending \cup {c}
          /\ sentEvents \subseteq sentEvents' /\ (c \in pending' \ pending => c \in sentEvents')
          /\ UNCHANGED <<session, connected, link, posts, worker, confirmed, wire, frame>>
      BY <2>1 DEF Issue, StateActive, Inv, HeldIsIssued
    <3>2. SendIsNoted'
      BY <3>1 DEF Noted, SendIsNoted
    <3>3. LossIsTold'
      BY <3>1 DEF Noted, LossIsTold
    <3> QED BY <3>2, <3>3 DEF Noted
  <2>2. ASSUME NEW c \in Cmd, IssueRefused(c) \/ DeadlinePasses(c) PROVE Noted'
    BY <2>2, QuietStep DEF IssueRefused, DeadlinePasses
  <2>3. ASSUME NEW c \in Cmd, CallerResumes(c) PROVE Noted'
    <3>1. c \notin pending
      BY <2>3 DEF CallerResumes, Inv, WaitingIsOpen
    <3> QED BY <2>3, <3>1, QuietStep DEF CallerResumes
  <2>4. ASSUME NEW c \in Cmd, CancelTransport(c), UNCHANGED <<worker, conn, panel>>
        PROVE  Noted'
    <3>1. /\ pending' = pending \ {c} /\ sentEvents' = sentEvents \ {c}
          /\ confirmed' = confirmed \ {c}
          /\ \A d \in Cmd : frame[d] = "written" => frame'[d] = "written"
      BY <1>t, <2>4 DEF CancelTransport
    <3> QED BY <1>t, <2>4, <3>1, QuietStep
  <2> QED BY <1>2, <2>1, <2>2, <2>3, <2>4 DEF Callers, CallerTimesOut, CallerCancelled
<1>3. CASE TrySendNext
  <2>1. CASE SendNext
    <3>1. Next1 \in Cmd
      BY <2>1, QueuesTyped DEF SendNext
    <3>2. CASE /\ frame' = [frame EXCEPT ![Next1] = "posted"]
               /\ UNCHANGED <<confirmed, sentEvents, wire>>
      <4>1. frame[Next1] = "none"
        BY <2>1, NextElems DEF SendNext, Sendable, Inv, OneLiveFrame, QueuedOnce, Held
      <4>2. \A d \in Cmd : frame[d] = "written" => frame'[d] = "written"
        BY <1>t, <3>1, <3>2, <4>1
      <4> QED BY <1>t, <2>1, <3>2, <4>2, QuietStep DEF SendNext
    <3>3. CASE /\ RequestSent(Next1, TRUE) /\ frame' = frame
               /\ wire' = [wire EXCEPT ![Next1] = @ + 1]
      <4>1. /\ \A d \in Cmd \ {Next1} : wire'[d] = wire[d]
            /\ Next1 \in pending => Next1 \in confirmed'
            /\ confirmed \subseteq confirmed' /\ sentEvents \subseteq sentEvents' \cup confirmed'
        BY <1>t, <3>3 DEF RequestSent, Noted, SendIsNoted
      <4> QED BY <1>t, <2>1, <3>3, <4>1, QuietStep DEF SendNext
    <3> QED BY <2>1, <3>2, <3>3 DEF SendNext
  <2>2. CASE NothingToSend \/ DropExpired \/ SendNextRaises
    <3>1. /\ pending' \subseteq pending /\ sentEvents \cap pending' \subseteq sentEvents'
          /\ UNCHANGED <<session, connected, link, posts, worker, confirmed, wire, frame>>
      BY <2>2 DEF NothingToSend, DropExpired, SendNextRaises, TransportFailure, Settle
    <3> QED BY <1>t, <3>1, QuietStep
  <2> QED BY <1>3, <2>1, <2>2 DEF TrySendNext
<1>4. CASE Outbound
  <2>1. CASE StopQueue
    <3>1. /\ posts # <<>> /\ Head(posts) = Stop /\ posts' = Tail(posts)
          /\ worker' = "stopped" /\ pending' \subseteq pending
          /\ sentEvents \cap pending' \subseteq sentEvents'
          /\ UNCHANGED <<session, connected, link, confirmed, wire>>
      BY <2>1 DEF StopQueue, Settle
    <3>2. Gone \in Elems(posts') <=> Gone \in Elems(posts)
      BY <1>p, <3>1
    <3> QED BY <3>1, <3>2, QuietStep
  <2>2. ASSUME NEW c \in Cmd,
               PutFrame(c) \/ TakeFrame(c) \/ Throttled(c) \/ FrameNotWritten(c)
        PROVE  Noted'
    <3>1. /\ \A d \in Cmd : frame[d] = "written" => frame'[d] = "written"
          /\ UNCHANGED <<replies, conn, worker, wire>>
      BY <1>t, <2>2 DEF PutFrame, TakeFrame, Throttled, FrameNotWritten, Reported
    <3> QED BY <1>t, <3>1, QuietStep
  <2>3. ASSUME NEW c \in Cmd, FrameWritten(c) PROVE Noted'
    <3>1. \A d \in Cmd : IF d = c THEN frame'[d] = Reported("written")
                         ELSE frame'[d] = frame[d] /\ wire'[d] = wire[d]
      BY <1>t, <2>3 DEF FrameWritten
    <3>2. worker \in {"running", "stopped"} /\ worker' = worker
      BY <1>t, <2>3 DEF FrameWritten
    <3> QED BY <1>t, <2>3, <3>1, <3>2, QuietStep DEF FrameWritten, Reported
  <2>4. ASSUME NEW c \in Cmd, OnSent(c) PROVE Noted'
    <3>1. /\ \A d \in Cmd \ {c} : frame'[d] = frame[d]
          /\ c \in pending => c \in confirmed'
          /\ confirmed \subseteq confirmed' /\ sentEvents \subseteq sentEvents' \cup confirmed'
      BY <1>t, <2>4 DEF OnSent, RequestSent, Noted, SendIsNoted
    <3> QED BY <1>t, <2>4, <3>1, QuietStep DEF OnSent
  <2>5. ASSUME NEW c \in Cmd, OnSendIoError(c) PROVE Noted'
    <3>1. /\ \A d \in Cmd : frame[d] = "written" => frame'[d] = "written"
          /\ pending' \subseteq pending /\ sentEvents \cap pending' \subseteq sentEvents'
          /\ UNCHANGED <<confirmed, worker, session, connected, wire>>
      BY <1>t, <2>5 DEF OnSendIoError, Settle
    <3>2. SendIsNoted'
      BY <1>t, <3>1 DEF Noted, SendIsNoted
    <3>n. /\ pending' # {} => pending # {}
          /\ connected' = connected /\ session' = session /\ connected \in BOOLEAN
      BY <3>1 DEF TypeOK
    <3>3. CASE UNCHANGED <<link, posts>>
      BY <3>2, <3>n, <3>3 DEF Noted, LossIsTold
    <3>4. CASE session /\ link = "active" /\ link' = "lost" /\ posts' = posts \o <<Stop, Gone>>
      BY <1>p, <3>2, <3>n, <3>4 DEF Noted, LossIsTold
    <3> QED BY <2>5, <3>3, <3>4 DEF OnSendIoError, TearDownOnLoop
  <2>6. ASSUME NEW c \in Cmd, OnSendFailed(c) PROVE Noted'
    <3>1. \A d \in Cmd : frame[d] = "written" => frame'[d] = "written"
      BY <1>t, <2>6 DEF OnSendFailed
    <3>2. /\ pending' \subseteq pending /\ sentEvents \cap pending' \subseteq sentEvents'
          /\ UNCHANGED <<confirmed, worker, conn, wire>>
      BY <2>6 DEF OnSendFailed, TransportFailure, Settle
    <3> QED BY <1>t, <3>1, <3>2, QuietStep
  <2> QED BY <1>4, <2>1, <2>2, <2>3, <2>4, <2>5, <2>6 DEF Outbound
<1>5. CASE Kernel
  <2>1. ASSUME NEW c \in Cmd, OnMessage(c) PROVE Noted'
    <3>1. /\ posts # <<>> /\ Head(posts) = Message(c) /\ posts' = Tail(posts)
          /\ pending' \subseteq pending
          /\ UNCHANGED <<session, connected, link, sentEvents, confirmed, wire, frame, worker>>
      BY <2>1 DEF OnMessage, Settle
    <3>2. Gone \in Elems(posts') <=> Gone \in Elems(posts)
      BY <1>p, <3>1
    <3> QED BY <3>1, <3>2, QuietStep
  <2>2. ASSUME NEW c \in Cmd, ReplyTimeout(c) \/ BackoffEnds(c) PROVE Noted'
    <3>1. /\ pending' \subseteq pending /\ sentEvents \cap pending' \subseteq sentEvents'
          /\ UNCHANGED <<confirmed, outbound, conn, wire>>
      BY <2>2 DEF ReplyTimeout, BackoffEnds, TransportFailure, Settle
    <3> QED BY <3>1, QuietStep
  <2>3. CASE OnDisconnected
    <3>1. Gone \in Elems(posts) /\ UNCHANGED <<session, link, confirmed, outbound, wire>>
      BY <1>p, <2>3 DEF OnDisconnected
    <3>2. pending' = {}
      <4>1. CASE connected
        BY <1>t, <2>3, <4>1 DEF OnDisconnected, FailEverything, Settle
      <4>2. CASE ~connected
        BY <1>t, <2>3, <3>1, <4>2 DEF OnDisconnected, Noted, LossIsTold, Inv, ClosedIsReleased
      <4> QED BY <4>1, <4>2
    <3> QED BY <3>1, <3>2 DEF Noted, SendIsNoted, LossIsTold
  <2>4. CASE Close
    <3>1. pending' = {} /\ session' = FALSE
      BY <1>t, <2>4 DEF Close, FailEverything, Settle
    <3> QED BY <3>1 DEF Noted, SendIsNoted, LossIsTold
  <2> QED BY <1>5, <2>1, <2>2, <2>3, <2>4 DEF Kernel
<1> QED BY <1>0, <1>1, <1>2, <1>3, <1>4, <1>5 DEF Next

\* A frame that reached the wire is reported as a plain timeout only in the
\* three windows in which nobody could know better: the worker has not said so
\* yet, no worker runs, or the future was already settled.
THEOREM PlainTimeouts == Spec => PlainTimeoutWindow
<1> DEFINE Windows ==
      \A c \in Cmd \ ReadOnly :
         /\ outcome[c] = "none" /\ outcome'[c] = "timeout" /\ wire[c] > 0
         => frame[c] = "written" \/ worker = "stopped" \/ result[c] # "none"
<1>1. ASSUME TypeOK, Inv, Noted, [Next]_vars PROVE Windows
  <2> SUFFICES ASSUME NEW c \in Cmd \ ReadOnly, outcome[c] = "none",
                      outcome'[c] = "timeout", wire[c] > 0
               PROVE  frame[c] = "written" \/ worker = "stopped" \/ result[c] # "none"
    OBVIOUS
  <2> USE <1>1 DEF callers
  <2>1. outcome \in [Cmd -> Outcome] /\ outcome' # outcome
    BY DEF TypeOK
  <2>2. Callers
    BY <2>1
       DEF vars, Next, Session, Connect, TeardownBegins, TeardownCloses, TeardownNotifies,
           PanelAnswers, TrySendNext, NothingToSend, DropExpired, SendNext,
           SendNextRaises, Outbound, StopQueue, PutFrame, TakeFrame, Throttled,
           FrameWritten, FrameNotWritten, Reported, OnSent, OnSendIoError, OnSendFailed,
           Kernel, OnMessage, ReplyTimeout, BackoffEnds, OnDisconnected, Close
  <2>3. ASSUME NEW d \in Cmd,
               Issue(d) \/ IssueRefused(d) \/ DeadlinePasses(d) \/ CallerCancelled(d)
        PROVE  FALSE
    BY <2>1, <2>3 DEF Issue, IssueRefused, DeadlinePasses, CallerCancelled, Finish
  <2>4. ASSUME NEW d \in Cmd, CallerResumes(d) PROVE result[c] # "none"
    BY <2>1, <2>4 DEF CallerResumes, Finish
  <2>5. ASSUME NEW d \in Cmd, CallerTimesOut(d)
        PROVE  frame[c] = "written" \/ worker = "stopped" \/ result[c] # "none"
    <3>1. d = c /\ caller[c] = "waiting" /\ c \notin confirmed
      BY <2>1, <2>5 DEF CallerTimesOut, Finish, OutcomeUnknown
    <3>2. c \in pending \/ result[c] # "none"
      BY <3>1 DEF Inv, WaitingIsOpen
    <3> QED BY <3>1, <3>2 DEF Noted, SendIsNoted, TypeOK
  <2> QED BY <2>2, <2>3, <2>4, <2>5 DEF Callers
<1>2. Windows => [Windows]_vars
  OBVIOUS
<1>3. Spec => []Noted
  <2>1. TypeOK /\ Inv /\ Noted /\ [Next]_vars => Noted'
    BY NotedNext
  <2> QED BY NotedInit, <2>1, TypeCorrect, InvHolds, PTL DEF Spec
<1> QED BY InvHolds, TypeCorrect, <1>1, <1>2, <1>3, PTL DEF Spec, PlainTimeoutWindow
=============================================================================
