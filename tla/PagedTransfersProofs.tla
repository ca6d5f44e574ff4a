------------------------ MODULE PagedTransfersProofs ------------------------
(***************************************************************************)
(* Theorems about PagedTransfers for every size of the panel's table and   *)
(* any number of reads, retries and faults.                                *)
(***************************************************************************)
EXTENDS PagedTransfers, QueueProofs, FiniteSetTheorems, TLAPS

-----------------------------------------------------------------------------
(* The operators.                                                          *)

LEMMA Appended ==
  ASSUME TypeOK, NEW r \in Req
  PROVE  /\ Append(queue, r) \in Seq(Req)
         /\ Elems(Append(queue, r)) = Queued \cup {r}
         /\ Distinct(queue) /\ r \notin Queued => Distinct(Append(queue, r))
BY ElemsAppend DEF TypeOK, Queued

LEMMA Taken ==
  ASSUME TypeOK, queue # <<>>
  PROVE  /\ Head(queue) \in Req /\ Tail(queue) \in Seq(Req)
         /\ Queued = Elems(Tail(queue)) \cup {Head(queue)}
         /\ Distinct(queue) => Distinct(Tail(queue)) /\ Head(queue) \notin Elems(Tail(queue))
BY ElemsHeadTail DEF TypeOK, Queued

LEMMA LiveTyped ==
  ASSUME TypeOK
  PROVE  Live \subseteq Req /\ Queued \subseteq Req
BY ElemsTyped DEF TypeOK, Queued, Live

\* What is left of the queue without the request of a seq.
LEMMA Unretried ==
  ASSUME TypeOK, Numbered, NEW s
  PROVE  /\ NotRetried(s) \in Seq(Req)
         /\ Elems(NotRetried(s)) = {r \in Queued : r.seq # s}
         /\ Distinct(NotRetried(s))
<1>1. queue \in Seq(Req) /\ Distinct(queue)
  BY DEF TypeOK, Numbered
<1>2. CASE \E r \in Queued : r.seq = s
  <2> DEFINE c == CHOOSE r \in Queued : r.seq = s
  <2>1. c \in Queued /\ c.seq = s
    BY <1>2
  <2>2. \A r \in Queued : r.seq = s => r = c
    BY <2>1 DEF Numbered, Live
  <2>3. NotRetried(s) = Without(queue, c)
    BY <1>2 DEF NotRetried
  <2> HIDE DEF c
  <2>4. /\ Without(queue, c) \in Seq(Req) /\ Distinct(Without(queue, c))
        /\ Elems(Without(queue, c)) = Queued \ {c}
    BY <1>1, ElemsWithout DEF Queued
  <2> QED BY <2>1, <2>2, <2>3, <2>4
<1>3. CASE ~ \E r \in Queued : r.seq = s
  BY <1>1, <1>3 DEF NotRetried, Queued
<1> QED BY <1>2, <1>3

LEMMA Arrived ==
  ASSUME TypeOK, inbox # <<>>
  PROVE  /\ Head(inbox) \in Message /\ Tail(inbox) \in Seq(Message)
         /\ Elems(inbox) = Elems(Tail(inbox)) \cup {Head(inbox)}
         /\ Len(Tail(inbox)) = Len(inbox) - 1 /\ Len(inbox) \in Nat \ {0}
<1>1. inbox \in Seq(Message)
  BY DEF TypeOK
<1> QED BY <1>1, ElemsHeadTail

LEMMA Shrunk ==
  ASSUME NEW f, NEW K, K \subseteq DOMAIN f
  PROVE  /\ Restrict(f, K) = [k \in K |-> f[k]]
         /\ DOMAIN Restrict(f, K) = K
         /\ \A k \in K : Restrict(f, K)[k] = f[k]
BY DEF Restrict

LEMMA Extended ==
  ASSUME NEW f, NEW k, NEW v
  PROVE  LET g == Extend(f, k, v)
         IN /\ g = [x \in DOMAIN g |-> g[x]]
            /\ DOMAIN g = DOMAIN f \cup {k} /\ g[k] = v
            /\ \A x \in DOMAIN f : x # k => g[x] = f[x]
BY DEF Extend

LEMMA NoBlocks == DOMAIN <<>> = {} /\ <<>> = [b \in {} |-> <<>>[b]] /\ Blocks(<<>>)
<1>1. <<>> \in Seq({}) /\ Len(<<>>) = 0
  OBVIOUS
<1>2. DOMAIN <<>> = {}
  BY <1>1, LenProperties
<1>3. <<>> = [b \in {} |-> <<>>[b]]
  BY <1>2
<1> QED BY <1>2, <1>3 DEF Blocks

LEMMA UnexpiredShape ==
  ASSUME TypeOK
  PROVE  /\ Unexpired = [k \in DOMAIN Unexpired |-> Unexpired[k]]
         /\ DOMAIN Unexpired = DOMAIN transfers \ stale
         /\ \A k \in DOMAIN Unexpired : Unexpired[k] = transfers[k] /\ Transfer(Unexpired[k])
         /\ \A k : /\ Ended(k) = [j \in DOMAIN Ended(k) |-> Ended(k)[j]]
                   /\ DOMAIN Ended(k) = DOMAIN Unexpired \ {k}
                   /\ \A j \in DOMAIN Ended(k) : Ended(k)[j] = transfers[j] /\ Transfer(Ended(k)[j])
<1>1. /\ Unexpired = [k \in DOMAIN Unexpired |-> Unexpired[k]]
      /\ DOMAIN Unexpired = DOMAIN transfers \ stale
      /\ \A k \in DOMAIN Unexpired : Unexpired[k] = transfers[k]
  BY DEF Unexpired, Restrict
<1>2. \A k \in DOMAIN Unexpired : Transfer(Unexpired[k])
  BY <1>1 DEF TypeOK
<1>3. ASSUME NEW k
      PROVE  /\ Ended(k) = [j \in DOMAIN Ended(k) |-> Ended(k)[j]]
             /\ DOMAIN Ended(k) = DOMAIN Unexpired \ {k}
             /\ \A j \in DOMAIN Ended(k) : Ended(k)[j] = Unexpired[j]
  BY DEF Ended, Restrict
<1> QED BY <1>1, <1>2, <1>3

-----------------------------------------------------------------------------
(* Types.                                                                  *)

LEMMA TypeInit == Init => TypeOK
<1> SUFFICES ASSUME Init PROVE TypeOK
  OBVIOUS
<1>1. Blocks(NoInventory.got) /\ NoInventory.got = <<>> /\ NoInventory.count = 0
      /\ NoInventory = [got |-> <<>>, count |-> 0, raw |-> FALSE]
  BY NoBlocks DEF NoInventory
<1>2. transfers = [k \in DOMAIN transfers |-> transfers[k]] /\ DOMAIN transfers = {}
  BY NoBlocks DEF Init
<1>3. queue \in Seq(Req) /\ wire \in Seq(Frame) /\ inbox \in Seq(Message)
  BY DEF Init
<1>4. MaxCount \in 1..MaxCount /\ 0 \in 0..MaxCount
  BY PagedBounds
<1> QED BY <1>1, <1>2, <1>3, <1>4 DEF Init, TypeOK

LEMMA NewRequest ==
  ASSUME TypeOK, NEW b \in 1..MaxCount, NEW k \in Nat
  PROVE  /\ Request(nextSeq, b, k) \in Req /\ nextSeq + 1 \in Nat \ {0}
         /\ Append(queue, Request(nextSeq, b, k)) \in Seq(Req)
<1>1. Request(nextSeq, b, k) \in Req /\ nextSeq + 1 \in Nat \ {0}
  <2>1. nextSeq \in Nat
    BY DEF TypeOK
  <2>2. nextSeq + 1 \in Nat \ {0} /\ 0 \in 0..MaxRetries
    BY <2>1, PagedBounds
  <2> QED BY <2>1, <2>2 DEF Request, Req
<1> QED BY <1>1, Appended

LEMMA TypeAsking == TypeOK /\ (Connect \/ Read) => TypeOK'
<1> SUFFICES ASSUME TypeOK, Connect \/ Read PROVE TypeOK'
  OBVIOUS
<1>1. 1 \in 1..MaxCount /\ NoKey \in Nat /\ 0 \in 0..MaxCount
  BY PagedBounds DEF NoKey
<1>2. /\ nextSeq + 1 \in Nat \ {0}
      /\ Append(queue, Request(nextSeq, 1, NoKey)) \in Seq(Req)
  BY <1>1, NewRequest
<1>3. NoInventory = [got |-> <<>>, count |-> 0, raw |-> FALSE] /\ Blocks(<<>>)
  BY NoBlocks DEF NoInventory
<1>4. CASE Connect
  <2>1. /\ reads' \in Nat /\ session' \in Nat /\ queue' \in Seq(Req)
        /\ nextSeq' \in Nat \ {0}
    BY <1>2, <1>4, SMTT(40) DEF Connect, TypeOK
  <2>2. /\ inventory' = [got |-> inventory'.got, count |-> inventory'.count, raw |-> inventory'.raw]
        /\ Blocks(inventory'.got) /\ inventory'.count \in 0..MaxCount
        /\ inventory'.raw \in BOOLEAN
    BY <1>1, <1>3, <1>4 DEF Connect
  <2> QED BY <1>4, <2>1, <2>2 DEF Connect, TypeOK, panel
<1>5. CASE Read
  <2>1. reads' \in Nat /\ queue' \in Seq(Req) /\ nextSeq' \in Nat \ {0}
    BY <1>2, <1>5, SMTT(40) DEF Read, TypeOK
  <2> QED BY <1>5, <2>1 DEF Read, TypeOK, panel, blocks
<1> QED BY <1>4, <1>5

LEMMA TypeScheduler ==
  TypeOK /\ (TrySendNext \/ DeadlineExpired \/ ReplyTimeout \/ BackoffEnds) => TypeOK'
<1> SUFFICES ASSUME TypeOK, TrySendNext \/ DeadlineExpired \/ ReplyTimeout \/ BackoffEnds
             PROVE  TypeOK'
  OBVIOUS
<1>1. CASE TrySendNext
  <2> DEFINE r == Head(queue)
             k == IF r.key = NoKey THEN nextKey ELSE r.key
  <2>1. r \in Req /\ Tail(queue) \in Seq(Req)
    BY <1>1, Taken DEF TrySendNext
  <2>2. /\ k \in Nat /\ [r EXCEPT !.key = k] \in Req /\ [seq |-> r.seq, key |-> k] \in [seq : Nat, key : Nat]
        /\ [seq |-> r.seq, block |-> r.block] \in Frame
    BY <2>1 DEF TypeOK, Req, Frame
  <2>3. Append(wire, [seq |-> r.seq, block |-> r.block]) \in Seq(Frame)
    BY <2>2, ElemsAppend DEF TypeOK
  <2>4. /\ queue' = Tail(queue) /\ active' = {[r EXCEPT !.key = k]}
        /\ pending' = pending \cup {[seq |-> r.seq, key |-> k]}
        /\ wire' = Append(wire, [seq |-> r.seq, block |-> r.block])
        /\ nextKey' = nextKey \/ nextKey' = nextKey + 1
        /\ UNCHANGED <<link, session, backoff, transfers, stale, inventory, nextSeq,
                       inbox, size, stalled, troubles, reads, faults, elapses>>
    BY <1>1 DEF TrySendNext, bounds
  <2>5. nextKey' \in Nat \ {0}
    BY <2>4, SMTT(40) DEF TypeOK
  <2> HIDE DEF r, k
  <2> QED BY <2>1, <2>2, <2>3, <2>4, <2>5 DEF TypeOK
<1>2. CASE DeadlineExpired
  <2>1. Head(queue) \in Req /\ Tail(queue) \in Seq(Req)
    BY <1>2, Taken DEF DeadlineExpired
  <2>2. Head(queue).key \in Nat
    BY <2>1 DEF Req
  <2> QED BY <1>2, <2>1, <2>2 DEF DeadlineExpired, GiveUp, TypeOK, blocks, counter, panel, bounds
<1>3. CASE ReplyTimeout
  <2>1. PICK r \in active :
          /\ pending' = {p \in pending : p.seq # r.seq}
          /\ \/ /\ MayRetry(r)
                /\ backoff' = backoff \cup {[r EXCEPT !.attempt = @ + 1]}
                /\ UNCHANGED stalled
             \/ GiveUp(r) /\ UNCHANGED backoff
    BY <1>3 DEF ReplyTimeout
  <2>2. r \in Req /\ r.key \in Nat /\ r.attempt \in 0..MaxRetries
    BY DEF TypeOK, Req
  <2>3. MayRetry(r) => [r EXCEPT !.attempt = @ + 1] \in Req
    BY <2>2, PagedBounds DEF MayRetry, Req
  <2>4. backoff' \subseteq Req /\ stalled' \subseteq Nat /\ pending' \subseteq [seq : Nat, key : Nat]
    BY <2>1, <2>2, <2>3 DEF TypeOK, GiveUp
  <2> QED BY <1>3, <2>4 DEF ReplyTimeout, TypeOK, counter, panel, bounds
<1>4. CASE BackoffEnds
  <2>1. PICK r \in backoff :
          /\ backoff' = backoff \ {r}
          /\ \/ queue' = Append(queue, r) /\ UNCHANGED stalled
             \/ GiveUp(r) /\ UNCHANGED queue
    BY <1>4 DEF BackoffEnds
  <2>2. r \in Req /\ r.key \in Nat
    BY DEF TypeOK, Req
  <2>3. Append(queue, r) \in Seq(Req)
    BY <2>2, Appended
  <2>4. queue' \in Seq(Req) /\ stalled' \subseteq Nat /\ backoff' \subseteq Req
    BY <2>1, <2>2, <2>3 DEF TypeOK, GiveUp
  <2> QED BY <1>4, <2>4 DEF BackoffEnds, TypeOK, blocks, counter, panel, bounds
<1> QED BY <1>1, <1>2, <1>3, <1>4

LEMMA TypePanel == TypeOK /\ (PanelAnswers \/ PanelIgnores \/ TableChanges) => TypeOK'
<1> SUFFICES ASSUME TypeOK, PanelAnswers \/ PanelIgnores \/ TableChanges PROVE TypeOK'
  OBVIOUS
<1>1. wire # <<>> => Head(wire) \in Frame /\ Tail(wire) \in Seq(Frame)
  BY ElemsHeadTail DEF TypeOK
<1>2. CASE PanelAnswers
  <2>1. PICK kind \in {"block", "bad", "denied"} :
          /\ faults' = IF kind = "block" THEN faults ELSE faults + 1
          /\ inbox' = Append(inbox, [seq |-> Head(wire).seq, kind |-> kind,
                                     block |-> Head(wire).block, count |-> size,
                                     session |-> session])
          /\ troubles' = IF kind = "block" THEN troubles ELSE troubles \cup {"refused"}
    BY <1>2 DEF PanelAnswers
  <2> DEFINE m == [seq |-> Head(wire).seq, kind |-> kind, block |-> Head(wire).block,
                   count |-> size, session |-> session]
  <2>2. m \in Message
    BY <1>1, <1>2 DEF PanelAnswers, Frame, Message, TypeOK
  <2>3. inbox' \in Seq(Message)
    BY <2>1, <2>2, ElemsAppend DEF TypeOK
  <2>4. faults' \in Nat /\ troubles' \subseteq {"late", "changed", "refused", "lost", "closed"}
    BY <2>1, SMTT(40) DEF TypeOK
  <2> QED BY <1>1, <1>2, <2>3, <2>4 DEF PanelAnswers, TypeOK, sched, blocks, counter
<1>3. CASE PanelIgnores
  <2>1. faults' \in Nat /\ wire' \in Seq(Frame)
    BY <1>1, <1>3, SMTT(40) DEF PanelIgnores, TypeOK
  <2> QED BY <1>3, <2>1 DEF PanelIgnores, TypeOK, sched, blocks, counter
<1>4. CASE TableChanges
  <2>1. /\ size' \in 1..MaxCount /\ faults' \in Nat
        /\ troubles' \subseteq {"late", "changed", "refused", "lost", "closed"}
    BY <1>4, SMTT(40) DEF TableChanges, TypeOK
  <2> QED BY <1>4, <2>1 DEF TableChanges, TypeOK, sched, blocks, counter
<1> QED BY <1>2, <1>3, <1>4

LEMMA TypeEnds == TypeOK /\ (Elapse \/ LinkLost \/ OnDisconnected \/ Close) => TypeOK'
<1> SUFFICES ASSUME TypeOK, Elapse \/ LinkLost \/ OnDisconnected \/ Close PROVE TypeOK'
  OBVIOUS
<1>1. <<>> \in Seq(Req) /\ <<>> \in Seq(Frame)
  OBVIOUS
<1>2. CASE Elapse
  BY <1>2, SMTT(40) DEF Elapse, TypeOK, sched, counter, panel
<1>3. CASE LinkLost
  BY <1>1, <1>3 DEF LinkLost, TypeOK, sched, blocks, counter, bounds
<1>4. CASE OnDisconnected
  <2>1. transfers' = [k \in DOMAIN transfers' |-> transfers'[k]] /\ DOMAIN transfers' = {}
    BY <1>4, NoBlocks DEF OnDisconnected
  <2> QED BY <1>1, <1>4, <2>1
          DEF OnDisconnected, AbortRequests, TypeOK, counter, panel, bounds
<1>5. CASE Close
  BY <1>1, <1>5 DEF Close, AbortRequests, TypeOK, counter, bounds
<1> QED BY <1>2, <1>3, <1>4, <1>5
\* What a message leaves of the requests and of the transfers that go on.
LEMMA TypeReceived ==
  ASSUME TypeOK, inbox # <<>>, NEW m, Received(m)
  PROVE  /\ m \in Message /\ inbox' \in Seq(Message)
         /\ active' \subseteq Req /\ backoff' \subseteq Req
         /\ pending' \subseteq [seq : Nat, key : Nat] /\ stale' = {}
         /\ KeyOf(m) \subseteq Nat /\ Dropped(m.seq) \subseteq Nat
         /\ UNCHANGED <<link, session, nextKey, wire, size, troubles, reads, faults, elapses>>
<1>1. Head(inbox) \in Message /\ Tail(inbox) \in Seq(Message)
  BY Arrived
<1>2. KeyOf(m) \subseteq Nat
  BY DEF TypeOK, KeyOf
<1>3. Queued \cup backoff \subseteq Req
  BY LiveTyped DEF TypeOK
<1>4. Dropped(m.seq) \subseteq Nat
  BY <1>3 DEF Dropped, Req
<1> QED BY <1>1, <1>2, <1>4 DEF Received, TypeOK, bounds

LEMMA TypeRaw ==
  ASSUME TypeOK, NEW m \in Message, HandleRaw(m)
  PROVE  /\ inventory' = [got |-> inventory'.got, count |-> inventory'.count, raw |-> inventory'.raw]
         /\ Blocks(inventory'.got) /\ inventory'.count \in 0..MaxCount
         /\ inventory'.raw \in BOOLEAN
<1>1. CASE m.kind = "block"
  <2>1. m.block \in 1..MaxCount /\ m.count \in 1..MaxCount /\ m.session \in Nat
    BY DEF Message
  <2>2. m.count \in 0..MaxCount
    BY <2>1, PagedBounds
  <2>3. Blocks([b \in {m.block} |-> m.session])
    BY <2>1 DEF Blocks
  <2>4. inventory' = [got |-> [b \in {m.block} |-> m.session], count |-> m.count, raw |-> TRUE]
    BY <1>1 DEF HandleRaw
  <2> QED BY <2>2, <2>3, <2>4
<1>2. CASE m.kind # "block"
  BY <1>2 DEF HandleRaw, TypeOK
<1> QED BY <1>1, <1>2

LEMMA FiledTyped ==
  ASSUME TypeOK, NEW m \in Message, NEW k
  PROVE  LET t == Filed(Opened(m, k), m)
         IN /\ Transfer(Opened(m, k)) /\ Transfer(t)
            /\ t.count = Opened(m, k).count
            /\ t.requested = Opened(m, k).requested \cup {m.block}
            /\ DOMAIN t.got = DOMAIN Opened(m, k).got \cup {m.block}
            /\ t.got[m.block] = m.session
            /\ \A b \in DOMAIN Opened(m, k).got : b # m.block => t.got[b] = Opened(m, k).got[b]
<1> DEFINE o == Opened(m, k)
           t == Filed(o, m)
<1>1. m.block \in 1..MaxCount /\ m.count \in 1..MaxCount /\ m.session \in Nat
  BY DEF Message
<1>2. Transfer(o)
  <2>1. CASE k \in DOMAIN Unexpired
    BY <2>1, UnexpiredShape DEF Opened
  <2>2. CASE k \notin DOMAIN Unexpired
    <3>1. o = [got |-> <<>>, count |-> m.count, requested |-> {}]
      BY <2>2 DEF Opened
    <3> HIDE DEF o
    <3> QED BY <1>1, <3>1, NoBlocks DEF Transfer
  <2> QED BY <2>1, <2>2
<1>3. /\ t = [got |-> t.got, count |-> t.count, requested |-> t.requested]
      /\ t.got = Extend(o.got, m.block, m.session)
      /\ t.count = o.count /\ t.requested = o.requested \cup {m.block}
  BY DEF Filed
<1> HIDE DEF o
<1> DEFINE g == Extend(o.got, m.block, m.session)
<1>4. /\ g = [b \in DOMAIN g |-> g[b]] /\ DOMAIN g = DOMAIN o.got \cup {m.block}
      /\ g[m.block] = m.session /\ \A b \in DOMAIN o.got : b # m.block => g[b] = o.got[b]
  BY DEF Extend
<1> HIDE DEF g, t
<1>5. t.got = g
  BY <1>3 DEF g
<1>6. Blocks(g)
  BY <1>1, <1>2, <1>4 DEF Blocks, Transfer
<1>7. Transfer(t)
  BY <1>1, <1>2, <1>3, <1>5, <1>6 DEF Transfer
<1> QED BY <1>2, <1>3, <1>4, <1>5, <1>7 DEF o, t

LEMMA FirstIsIn ==
  ASSUME NEW S \in SUBSET Nat, S # {}
  PROVE  First(S) \in S
<1>1. \E x \in S : \A y \in S : x <= y
  BY FirstExists
<1> QED BY <1>1 DEF First

LEMMA NextIsMissing ==
  ASSUME NEW t, Transfer(t), NextBlocks(t) # {}
  PROVE  LET b == First(NextBlocks(t))
         IN b \in 1..t.count /\ b \in 1..MaxCount /\ b \notin DOMAIN t.got /\ b \notin t.requested
<1>1. NextBlocks(t) \in SUBSET Nat /\ t.count \in 1..MaxCount
  BY DEF NextBlocks, Transfer
<1>2. First(NextBlocks(t)) \in NextBlocks(t)
  BY <1>1, FirstIsIn
<1>3. \A b \in 1..t.count : b \in 1..MaxCount
  BY <1>1, PagedBounds
<1> QED BY <1>2, <1>3 DEF NextBlocks

LEMMA AskedTyped ==
  ASSUME NEW t, Transfer(t)
  PROVE  /\ Transfer(Asked(t)) /\ Asked(t).got = t.got /\ Asked(t).count = t.count
         /\ Asked(t).requested = IF NextBlocks(t) # {} /\ link = "up"
                                 THEN t.requested \cup {First(NextBlocks(t))}
                                 ELSE t.requested
<1>1. /\ Asked(t) = [got |-> Asked(t).got, count |-> Asked(t).count,
                     requested |-> Asked(t).requested]
      /\ Asked(t).got = t.got /\ Asked(t).count = t.count
      /\ Asked(t).requested = IF NextBlocks(t) # {} /\ link = "up"
                              THEN t.requested \cup {First(NextBlocks(t))}
                              ELSE t.requested
  BY DEF Asked
<1>2. Asked(t).requested \subseteq 1..MaxCount
  BY <1>1, NextIsMissing DEF Transfer
<1> QED BY <1>1, <1>2 DEF Transfer

LEMMA TypeRequestNext ==
  ASSUME TypeOK, NEW t, Transfer(t), NEW k \in Nat, NEW q \in Seq(Req), RequestNext(t, k, q)
  PROVE  queue' \in Seq(Req) /\ nextSeq' \in Nat \ {0} /\ stalled' \subseteq Nat
<1>1. CASE NextBlocks(t) = {}
  BY <1>1 DEF RequestNext, TypeOK
<1>2. CASE NextBlocks(t) # {}
  <2> DEFINE b == First(NextBlocks(t))
  <2>1. b \in 1..MaxCount
    BY <1>2, NextIsMissing
  <2>2. RequestBlock(q, b, k)
    BY <1>2 DEF RequestNext
  <2> HIDE DEF b
  <2>3. Request(nextSeq, b, k) \in Req /\ nextSeq + 1 \in Nat \ {0}
    BY <2>1, NewRequest
  <2>4. Append(q, Request(nextSeq, b, k)) \in Seq(Req)
    BY <2>3, ElemsAppend
  <2>5. Request(nextSeq, b, k).key = k
    BY DEF Request
  <2> QED BY <2>2, <2>3, <2>4, <2>5 DEF RequestBlock, GiveUp, TypeOK
<1> QED BY <1>1, <1>2

LEMMA TypeKeep ==
  ASSUME TypeOK, NEW t, Transfer(t), NEW k \in Nat, Keep(t, k)
  PROVE  /\ transfers' = [j \in DOMAIN transfers' |-> transfers'[j]]
         /\ DOMAIN transfers' \subseteq Nat
         /\ \A j \in DOMAIN transfers' : Transfer(transfers'[j])
         /\ inventory' = [got |-> inventory'.got, count |-> inventory'.count, raw |-> inventory'.raw]
         /\ Blocks(inventory'.got) /\ inventory'.count \in 0..MaxCount
         /\ inventory'.raw \in BOOLEAN
<1>1. CASE IsWhole(t)
  <2>1. /\ transfers' = Ended(k)
        /\ inventory' = [got |-> t.got, count |-> t.count, raw |-> FALSE]
    BY <1>1 DEF Keep
  <2>2. Blocks(t.got) /\ t.count \in 1..MaxCount
    BY DEF Transfer
  <2>3. t.count \in 0..MaxCount
    BY <2>2, PagedBounds
  <2>4. DOMAIN Ended(k) \subseteq Nat
    BY UnexpiredShape DEF TypeOK
  <2> QED BY <2>1, <2>2, <2>3, <2>4, UnexpiredShape
<1>2. CASE ~IsWhole(t)
  <2> DEFINE g == Extend(Unexpired, k, Asked(t))
  <2>1. transfers' = g /\ inventory' = inventory
    BY <1>2 DEF Keep
  <2>2. /\ g = [j \in DOMAIN g |-> g[j]] /\ DOMAIN g = DOMAIN Unexpired \cup {k}
        /\ g[k] = Asked(t) /\ \A j \in DOMAIN Unexpired : j # k => g[j] = Unexpired[j]
    BY DEF Extend
  <2> HIDE DEF g
  <2>3. Transfer(Asked(t)) /\ \A j \in DOMAIN Unexpired : Transfer(Unexpired[j])
    BY AskedTyped, UnexpiredShape
  <2>4. DOMAIN g \subseteq Nat
    BY <2>2, UnexpiredShape DEF TypeOK
  <2>5. \A j \in DOMAIN g : Transfer(g[j])
    BY <2>2, <2>3
  <2> QED BY <2>1, <2>2, <2>4, <2>5 DEF TypeOK
<1> QED BY <1>1, <1>2

LEMMA TypeDispatch == TypeOK /\ Numbered /\ (Dispatch \/ OtherMessage) => TypeOK'
<1> SUFFICES ASSUME TypeOK, Numbered, Dispatch \/ OtherMessage PROVE TypeOK'
  OBVIOUS
<1> DEFINE m == Head(inbox)
<1>1. ASSUME inbox # <<>>, Received(m), queue' \in Seq(Req), nextSeq' \in Nat \ {0},
             stalled' \subseteq Nat,
             transfers' = [k \in DOMAIN transfers' |-> transfers'[k]],
             DOMAIN transfers' \subseteq Nat,
             \A k \in DOMAIN transfers' : Transfer(transfers'[k]),
             inventory' = [got |-> inventory'.got, count |-> inventory'.count, raw |-> inventory'.raw],
             Blocks(inventory'.got), inventory'.count \in 0..MaxCount,
             inventory'.raw \in BOOLEAN
      PROVE  TypeOK'
  <2>1. /\ inbox' \in Seq(Message) /\ active' \subseteq Req /\ backoff' \subseteq Req
        /\ pending' \subseteq [seq : Nat, key : Nat] /\ stale' = {}
        /\ UNCHANGED <<link, session, nextKey, wire, size, troubles, reads, faults, elapses>>
    BY <1>1, TypeReceived
  <2> QED BY <1>1, <2>1 DEF TypeOK
<1>2. inbox # <<>> => m \in Message
  BY Arrived
<1>3. \A s : NotRetried(s) \in Seq(Req)
  BY Unretried
<1>4. /\ Unexpired = [k \in DOMAIN Unexpired |-> Unexpired[k]]
      /\ DOMAIN Unexpired \subseteq Nat /\ \A k \in DOMAIN Unexpired : Transfer(Unexpired[k])
      /\ \A k : /\ Ended(k) = [j \in DOMAIN Ended(k) |-> Ended(k)[j]]
                /\ DOMAIN Ended(k) \subseteq Nat
                /\ \A j \in DOMAIN Ended(k) : Transfer(Ended(k)[j])
  BY UnexpiredShape DEF TypeOK
<1>5. ASSUME UNCHANGED inventory
      PROVE  /\ inventory' = [got |-> inventory'.got, count |-> inventory'.count, raw |-> inventory'.raw]
             /\ Blocks(inventory'.got) /\ inventory'.count \in 0..MaxCount
             /\ inventory'.raw \in BOOLEAN
  BY <1>5 DEF TypeOK
<1>6. nextSeq \in Nat \ {0} /\ stalled \subseteq Nat
  BY DEF TypeOK
<1> HIDE DEF m
<1>7. CASE Unsolicited
  <2>1. /\ inbox # <<>> /\ Received(m) /\ HandleRaw(m) /\ queue' = NotRetried(m.seq)
        /\ stalled' = stalled \cup Dropped(m.seq) /\ transfers' = Unexpired /\ nextSeq' = nextSeq
    BY <1>7 DEF Unsolicited, m
  <2>2. Dropped(m.seq) \subseteq Nat
    BY <2>1, TypeReceived
  <2> QED BY <1>1, <1>2, <1>3, <1>4, <1>6, <2>1, <2>2, TypeRaw
<1>8. CASE Denied
  <2>1. /\ inbox # <<>> /\ Received(m) /\ queue' = NotRetried(m.seq)
        /\ \E k : transfers' = Ended(k)
        /\ UNCHANGED <<nextSeq, inventory, stalled>>
    BY <1>8 DEF Denied, m
  <2> QED BY <1>1, <1>2, <1>3, <1>4, <1>5, <1>6, <2>1
<1>9. CASE Malformed
  <2>1. /\ inbox # <<>> /\ Received(m) /\ queue' = NotRetried(m.seq)
        /\ transfers' = Unexpired
        /\ \E k \in KeyOf(m) : stalled' = stalled \cup {k}
        /\ UNCHANGED <<nextSeq, inventory>>
    BY <1>9 DEF Malformed, m
  <2>2. KeyOf(m) \subseteq Nat
    BY <2>1, TypeReceived
  <2> QED BY <1>1, <1>2, <1>3, <1>4, <1>5, <1>6, <2>1, <2>2
<1>10. CASE Mismatch
  <2>1. /\ inbox # <<>> /\ Received(m) /\ HandleRaw(m) /\ queue' = NotRetried(m.seq)
        /\ \E k : transfers' = Ended(k)
        /\ UNCHANGED <<nextSeq, stalled>>
    BY <1>10 DEF Mismatch, m
  <2> QED BY <1>1, <1>2, <1>3, <1>4, <1>6, <2>1, TypeRaw
<1>11. CASE File
  <2>1. inbox # <<>> /\ Received(m)
    BY <1>11 DEF File, m
  <2>2. PICK k \in KeyOf(m) :
          IF m.block \in DOMAIN Opened(m, k).got
          THEN /\ transfers' = Unexpired /\ queue' = NotRetried(m.seq)
               /\ UNCHANGED <<inventory, nextSeq, stalled>>
          ELSE /\ RequestNext(Filed(Opened(m, k), m), k, NotRetried(m.seq))
               /\ Keep(Filed(Opened(m, k), m), k)
    BY <1>11 DEF File, m
  <2>3. CASE m.block \in DOMAIN Opened(m, k).got
    BY <1>1, <1>3, <1>4, <1>5, <1>6, <2>1, <2>2, <2>3
  <2>4. CASE m.block \notin DOMAIN Opened(m, k).got
    <3> DEFINE t == Filed(Opened(m, k), m)
    <3>1. Transfer(t) /\ k \in Nat
      BY <1>2, <2>1, FiledTyped, TypeReceived
    <3>2. RequestNext(t, k, NotRetried(m.seq)) /\ Keep(t, k)
      BY <2>2, <2>4
    <3> HIDE DEF t
    <3>3. queue' \in Seq(Req) /\ nextSeq' \in Nat \ {0} /\ stalled' \subseteq Nat
      BY <1>3, <3>1, <3>2, TypeRequestNext
    <3> QED BY <1>1, <2>1, <3>1, <3>2, <3>3, TypeKeep
  <2> QED BY <2>3, <2>4
<1>12. CASE OtherMessage
  <2>1. /\ transfers' = Unexpired /\ stale' = {}
        /\ UNCHANGED <<link, session, sched, pending, inventory, counter, panel,
                       stalled, troubles, bounds>>
    BY <1>12 DEF OtherMessage
  <2> QED BY <1>4, <2>1 DEF TypeOK, sched, counter, panel, bounds
<1> QED BY <1>7, <1>8, <1>9, <1>10, <1>11, <1>12 DEF Dispatch

LEMMA TypeStep == TypeOK /\ Numbered /\ [Next]_vars => TypeOK'
<1> SUFFICES ASSUME TypeOK, Numbered, [Next]_vars PROVE TypeOK'
  OBVIOUS
<1>1. CASE UNCHANGED vars
  BY <1>1 DEF vars, sched, blocks, counter, panel, bounds, TypeOK
<1>2. CASE Next
  BY <1>2, TypeAsking, TypeScheduler, TypePanel, TypeEnds, TypeDispatch DEF Next
<1> QED BY <1>1, <1>2

-----------------------------------------------------------------------------
(* Numbers.                                                                *)

\* Requests, messages and transfers have numbers.
LEMMA NumbersTyped ==
  ASSUME TypeOK
  PROVE  /\ \A r \in Live : r \in Req /\ r.seq \in Nat /\ r.key \in Nat /\ r.block \in 1..MaxCount
         /\ \A m \in Carried : m.seq \in Nat
         /\ DOMAIN transfers \subseteq Nat
         /\ nextSeq \in Nat /\ nextKey \in Nat /\ nextSeq > 0 /\ nextKey > 0
<1>1. Live \subseteq Req
  BY LiveTyped
<1>2. Elems(wire) \subseteq Frame /\ Elems(inbox) \subseteq Message
  BY ElemsTyped DEF TypeOK
<1>3. \A m \in Carried : m.seq \in Nat
  BY <1>2 DEF Carried, Frame, Message
<1>4. DOMAIN transfers \subseteq Nat /\ nextSeq \in Nat \ {0} /\ nextKey \in Nat \ {0}
  BY DEF TypeOK
<1> QED BY <1>1, <1>3, <1>4 DEF Req

\* One more request, with the next seq.
LEMMA NumberedMore ==
  ASSUME TypeOK, Numbered, NEW b \in 1..MaxCount, NEW k \in Nat, k < nextKey,
         NEW q \in Seq(Req), Elems(q) \subseteq Queued, Distinct(q),
         queue' = Append(q, Request(nextSeq, b, k)), nextSeq' = nextSeq + 1,
         active' \subseteq active, backoff' \subseteq backoff, nextKey' = nextKey,
         Carried' \subseteq Carried,
         \A j \in DOMAIN transfers' : 0 < j /\ j < nextKey
  PROVE  Numbered' /\ Queued' = Elems(q) \cup {Request(nextSeq, b, k)}
<1> DEFINE n == Request(nextSeq, b, k)
<1>1. n \in Req /\ n.seq = nextSeq /\ n.key = k
  BY NewRequest DEF Request
<1> HIDE DEF n
<1>2. \A r \in Live : r.seq \in Nat /\ r.key \in Nat /\ r.seq < nextSeq /\ r.key < nextKey
  BY NumbersTyped DEF Numbered
<1>3. \A r \in Live : r # n
  BY <1>1, <1>2, NumbersTyped
<1>4. n \notin Elems(q)
  BY <1>3 DEF Live
<1>5. Elems(queue') = Elems(q) \cup {n} /\ Distinct(queue')
  BY <1>1, <1>4, ElemsAppend DEF n
<1>6. Queued' = Elems(q) \cup {n}
  BY <1>5 DEF Queued
<1>7. Live' \subseteq Live \cup {n}
  BY <1>6 DEF Live
<1>8. \A r \in Live' : r.seq < nextSeq' /\ r.key < nextKey'
  BY <1>1, <1>2, <1>7, NumbersTyped
<1>9. \A m \in Carried' : m.seq < nextSeq'
  BY NumbersTyped DEF Numbered
<1>10. \A r, s \in Live' : r.seq = s.seq => r = s
  <2>1. \A r \in Live : r.seq # n.seq
    BY <1>1, <1>2, NumbersTyped
  <2>2. \A r, s \in Live : r.seq = s.seq => r = s
    BY DEF Numbered
  <2> QED BY <1>7, <2>1, <2>2
<1>11. Queued' \cap active' = {} /\ Queued' \cap backoff' = {} /\ active' \cap backoff' = {}
  BY <1>3, <1>6 DEF Numbered, Live
<1> QED BY <1>5, <1>6, <1>8, <1>9, <1>10, <1>11 DEF Numbered, n

\* Fewer requests, in the places where they were.
LEMMA NumberedLess ==
  ASSUME TypeOK, Numbered,
         Queued' \subseteq Queued, Distinct(queue'), active' \subseteq active, backoff' \subseteq backoff,
         nextSeq' = nextSeq, nextKey' = nextKey,
         \A m \in Carried' : m.seq < nextSeq,
         \A j \in DOMAIN transfers' : 0 < j /\ j < nextKey
  PROVE  Numbered'
<1>1. Live' \subseteq Live
  BY DEF Live
<1>2. \A r \in Live' : r.seq < nextSeq' /\ r.key < nextKey'
  BY <1>1 DEF Numbered
<1>3. \A r, s \in Live' : r.seq = s.seq => r = s
  BY <1>1 DEF Numbered
<1>4. Queued' \cap active' = {} /\ Queued' \cap backoff' = {} /\ active' \cap backoff' = {}
  BY DEF Numbered
<1> QED BY <1>2, <1>3, <1>4 DEF Numbered

LEMMA NumberedInit == Init => Numbered
<1> SUFFICES ASSUME Init PROVE Numbered
  OBVIOUS
<1>1. Elems(queue) = {} /\ Elems(wire) = {} /\ Elems(inbox) = {} /\ Distinct(queue)
  BY ElemsEmpty DEF Init
<1>2. DOMAIN transfers = {}
  BY NoBlocks DEF Init
<1> QED BY <1>1, <1>2 DEF Init, Numbered, Live, Carried, Queued

LEMMA NumberedAsking == TypeOK /\ Numbered /\ (Connect \/ Read) => Numbered'
<1> SUFFICES ASSUME TypeOK, Numbered, Connect \/ Read PROVE Numbered'
  OBVIOUS
<1>1. /\ queue' = Append(queue, Request(nextSeq, 1, NoKey)) /\ nextSeq' = nextSeq + 1
      /\ UNCHANGED <<active, backoff, nextKey, transfers, wire, inbox>>
  BY DEF Connect, Read, blocks, panel
<1>2. 1 \in 1..MaxCount /\ NoKey \in Nat /\ NoKey < nextKey
  BY PagedBounds, NumbersTyped DEF NoKey
<1>3. queue \in Seq(Req) /\ Elems(queue) \subseteq Queued /\ Distinct(queue)
  BY DEF TypeOK, Queued, Numbered
<1>4. Carried' \subseteq Carried /\ \A j \in DOMAIN transfers' : 0 < j /\ j < nextKey
  BY <1>1 DEF Carried, Numbered
<1> QED BY <1>1, <1>2, <1>3, <1>4, NumberedMore

\* The request whose turn it is, as the gate holds it.
Sent == [Head(queue) EXCEPT !.key = IF Head(queue).key = NoKey THEN nextKey ELSE Head(queue).key]

LEMMA SentShape ==
  ASSUME TypeOK, Numbered, TrySendNext
  PROVE  /\ Head(queue) \in Req /\ Head(queue) \in Queued /\ Sent \in Req
         /\ Sent.seq = Head(queue).seq /\ Sent.block = Head(queue).block /\ Sent.key # NoKey
         /\ IF Head(queue).key = NoKey
            THEN Sent.key = nextKey /\ nextKey' = nextKey + 1
            ELSE Sent.key = Head(queue).key /\ nextKey' = nextKey
         /\ active = {} /\ active' = {Sent}
         /\ pending' = pending \cup {[seq |-> Sent.seq, key |-> Sent.key]}
         /\ wire' = Append(wire, [seq |-> Sent.seq, block |-> Sent.block])
         /\ Elems(wire') = Elems(wire) \cup {[seq |-> Sent.seq, block |-> Sent.block]}
         /\ Queued = Queued' \cup {Head(queue)} /\ Head(queue) \notin Queued' /\ Distinct(queue')
         /\ UNCHANGED <<backoff, transfers, nextSeq, inbox>>
<1> DEFINE h == Head(queue)
           k == IF h.key = NoKey THEN nextKey ELSE h.key
<1>1. queue # <<>> /\ active = {} /\ queue' = Tail(queue) /\ Distinct(queue)
  BY DEF TrySendNext, Numbered
<1>2. /\ h \in Req /\ Queued = Elems(queue') \cup {h} /\ Distinct(queue') /\ h \notin Elems(queue')
  BY <1>1, Taken
<1>3. k \in Nat /\ k # NoKey
  BY <1>2, NumbersTyped DEF Req, NoKey
<1>4. /\ nextKey' = IF h.key = NoKey THEN nextKey + 1 ELSE nextKey
      /\ active' = {[h EXCEPT !.key = k]}
      /\ pending' = pending \cup {[seq |-> h.seq, key |-> k]}
      /\ wire' = Append(wire, [seq |-> h.seq, block |-> h.block])
      /\ UNCHANGED <<backoff, transfers, nextSeq, inbox>>
  BY DEF TrySendNext
<1>5. Sent = [h EXCEPT !.key = k]
  BY DEF Sent
<1> HIDE DEF h
<1>6. Sent \in Req /\ Sent.key = k /\ Sent.seq = h.seq /\ Sent.block = h.block
  BY <1>2, <1>3, <1>5 DEF Req
<1>7. [seq |-> Sent.seq, block |-> Sent.block] \in Frame
  BY <1>6 DEF Req, Frame
<1>8. wire' = Append(wire, [seq |-> Sent.seq, block |-> Sent.block])
  BY <1>4, <1>6
<1>9. Elems(wire') = Elems(wire) \cup {[seq |-> Sent.seq, block |-> Sent.block]}
  BY <1>7, <1>8, ElemsAppend, SMTT(40) DEF TypeOK
<1>10. active' = {Sent} /\ pending' = pending \cup {[seq |-> Sent.seq, key |-> Sent.key]}
  BY <1>4, <1>5, <1>6
<1> QED BY <1>1, <1>2, <1>3, <1>4, <1>6, <1>8, <1>9, <1>10 DEF h, Queued

LEMMA NumberedScheduler ==
  TypeOK /\ Numbered /\ (TrySendNext \/ DeadlineExpired \/ ReplyTimeout \/ BackoffEnds)
     => Numbered'
<1> SUFFICES ASSUME TypeOK, Numbered, TrySendNext \/ DeadlineExpired \/ ReplyTimeout \/ BackoffEnds
             PROVE  Numbered'
  OBVIOUS
<1>1. CASE TrySendNext
  <2> DEFINE h == Head(queue)
             f == [seq |-> Sent.seq, block |-> Sent.block]
  <2>1. /\ h \in Queued /\ Sent.seq = h.seq /\ Sent.key # NoKey
        /\ IF h.key = NoKey
           THEN Sent.key = nextKey /\ nextKey' = nextKey + 1
           ELSE Sent.key = h.key /\ nextKey' = nextKey
        /\ active = {} /\ active' = {Sent}
        /\ Elems(wire') = Elems(wire) \cup {f}
        /\ Queued = Queued' \cup {h} /\ h \notin Queued' /\ Distinct(queue')
        /\ UNCHANGED <<backoff, transfers, nextSeq, inbox>>
    BY <1>1, SentShape
  <2>2. f.seq = h.seq
    BY <2>1
  <2> HIDE DEF h, f
  <2>3. /\ h \in Live /\ Live' = Queued' \cup {Sent} \cup backoff
        /\ \A r \in Live' : r = Sent \/ (r \in Live /\ r # h)
        /\ Carried' = Carried \cup {f}
    BY <2>1 DEF Live, Carried, Numbered
  <2>4. \A r \in Live : r.seq < nextSeq /\ r.key < nextKey /\ r.seq \in Nat /\ r.key \in Nat
    BY NumbersTyped DEF Numbered
  <2>5. nextKey <= nextKey' /\ Sent.key < nextKey' /\ nextKey' \in Nat
    BY <2>1, <2>3, <2>4, NumbersTyped
  <2>6. \A r \in Live' : r.seq < nextSeq' /\ r.key < nextKey'
    BY <2>1, <2>3, <2>4, <2>5, NumbersTyped
  <2>7. \A m \in Carried' : m.seq < nextSeq'
    BY <2>1, <2>2, <2>3, <2>4 DEF Numbered
  <2>8. \A k \in DOMAIN transfers' : 0 < k /\ k < nextKey'
    BY <2>1, <2>5, NumbersTyped DEF Numbered
  <2>9. \A r \in Live : r.seq = h.seq => r = h
    BY <2>3 DEF Numbered
  <2>10. \A r \in Live' : r = Sent \/ r.seq # Sent.seq
    BY <2>1, <2>3, <2>9
  <2>11. \A r, s \in Live' : r.seq = s.seq => r = s
    <3>1. \A r, s \in Live : r.seq = s.seq => r = s
      BY DEF Numbered
    <3> QED BY <2>3, <2>10, <3>1
  <2>12. Sent \notin Queued' /\ Sent \notin backoff
    <3>1. ASSUME Sent \in Queued' \cup backoff PROVE FALSE
      <4>1. Sent \in Live /\ Sent # h
        BY <2>1, <3>1 DEF Live, Numbered
      <4> QED BY <2>1, <2>9, <4>1
    <3> QED BY <3>1
  <2>13. Queued' \cap active' = {} /\ Queued' \cap backoff' = {} /\ active' \cap backoff' = {}
    BY <2>1, <2>12 DEF Numbered
  <2> QED BY <2>1, <2>6, <2>7, <2>8, <2>11, <2>13 DEF Numbered
<1>2. CASE DeadlineExpired
  <2>1. /\ queue # <<>> /\ queue' = Tail(queue)
        /\ UNCHANGED <<active, backoff, transfers, nextSeq, nextKey, wire, inbox>>
    BY <1>2 DEF DeadlineExpired, blocks, counter, panel
  <2>2. Elems(queue') \subseteq Queued /\ Distinct(queue')
    BY <2>1, Taken DEF Numbered
  <2> QED BY <2>1, <2>2, NumberedLess DEF Queued, Carried, Numbered
<1>3. CASE ReplyTimeout
  <2>1. PICK r \in active :
          \/ MayRetry(r) /\ backoff' = backoff \cup {[r EXCEPT !.attempt = @ + 1]}
          \/ UNCHANGED backoff
    BY <1>3 DEF ReplyTimeout
  <2>2. active' = {} /\ UNCHANGED <<queue, transfers, nextSeq, nextKey, wire, inbox>>
    BY <1>3 DEF ReplyTimeout, counter, panel
  <2>3. Queued' = Queued /\ Carried' = Carried /\ Distinct(queue')
    BY <2>2 DEF Queued, Carried, Numbered
  <2>4. CASE backoff' = backoff
    BY <2>2, <2>3, <2>4, NumberedLess DEF Numbered
  <2>5. CASE backoff' = backoff \cup {[r EXCEPT !.attempt = @ + 1]}
    <3> DEFINE a == [r EXCEPT !.attempt = @ + 1]
    <3>1. r \in Live /\ r \in Req /\ r \notin Queued /\ r \notin backoff
      BY NumbersTyped DEF Live, Numbered
    <3>2. a.seq = r.seq /\ a.key = r.key
      BY <3>1 DEF Req
    <3> HIDE DEF a
    <3>3. backoff' = backoff \cup {a}
      BY <2>5 DEF a
    <3>4. \A q \in Live' : q = a \/ (q \in Live /\ q # r)
      BY <2>2, <2>3, <3>1, <3>3 DEF Live
    <3>5. \A q \in Live : q.seq = r.seq => q = r
      BY <3>1 DEF Numbered
    <3>6. \A q \in Live' : q = a \/ q.seq # a.seq
      BY <3>2, <3>4, <3>5
    <3>7. \A q, s \in Live' : q.seq = s.seq => q = s
      <4>1. \A q, s \in Live : q.seq = s.seq => q = s
        BY DEF Numbered
      <4> QED BY <3>4, <3>6, <4>1
    <3>8. a \notin Queued
      <4>1. \A q \in Queued : q \in Live /\ q # r
        BY <3>1 DEF Live
      <4> QED BY <3>2, <3>5, <4>1
    <3>9. \A q \in Live' : q.seq < nextSeq' /\ q.key < nextKey'
      BY <2>2, <3>1, <3>2, <3>4 DEF Numbered
    <3>10. Queued' \cap active' = {} /\ Queued' \cap backoff' = {} /\ active' \cap backoff' = {}
      BY <2>2, <2>3, <3>3, <3>8 DEF Numbered
    <3> QED BY <2>2, <2>3, <3>7, <3>9, <3>10 DEF Numbered
  <2> QED BY <2>1, <2>4, <2>5
<1>4. CASE BackoffEnds
  <2>1. PICK r \in backoff :
          /\ backoff' = backoff \ {r}
          /\ queue' = Append(queue, r) \/ queue' = queue
    BY <1>4 DEF BackoffEnds
  <2>2. UNCHANGED <<active, transfers, nextSeq, nextKey, wire, inbox>>
    BY <1>4 DEF BackoffEnds, blocks, counter, panel
  <2>3. Carried' = Carried
    BY <2>2 DEF Carried
  <2>4. CASE queue' = queue
    BY <2>1, <2>2, <2>3, <2>4, NumberedLess DEF Queued, Numbered
  <2>5. CASE queue' = Append(queue, r)
    <3>1. r \in Req /\ r \in Live /\ r \notin Queued /\ r \notin active
      BY NumbersTyped DEF Live, Numbered
    <3>2. Queued' = Queued \cup {r} /\ Distinct(queue')
      BY <2>5, <3>1, Appended DEF Numbered, Queued
    <3>3. Live' = Live
      BY <2>1, <2>2, <3>1, <3>2 DEF Live
    <3>4. Queued' \cap active' = {} /\ Queued' \cap backoff' = {} /\ active' \cap backoff' = {}
      BY <2>1, <2>2, <3>1, <3>2 DEF Numbered
    <3> QED BY <2>2, <2>3, <3>2, <3>3, <3>4 DEF Numbered
  <2> QED BY <2>1, <2>4, <2>5
<1> QED BY <1>1, <1>2, <1>3, <1>4

\* What the panel puts before the loop answers a frame that it was sent.
LEMMA AnswerShape ==
  ASSUME TypeOK, PanelAnswers
  PROVE  LET f == Head(wire)
         IN /\ f \in Elems(wire) /\ Elems(wire) = Elems(wire') \cup {f}
            /\ Len(wire) = Len(wire') + 1 /\ Len(wire) \in Nat /\ Len(wire') \in Nat
            /\ \E m \in Message : /\ m.seq = f.seq /\ m.block = f.block
                                  /\ m.count = size /\ m.session = session
                                  /\ inbox' = Append(inbox, m)
                                  /\ Elems(inbox') = Elems(inbox) \cup {m}
            /\ UNCHANGED <<link, session, queue, active, backoff, pending, transfers, stale,
                           inventory, nextSeq, nextKey, size, stalled>>
<1>1. wire # <<>> /\ wire' = Tail(wire) /\ wire \in Seq(Frame) /\ inbox \in Seq(Message)
  BY DEF PanelAnswers, TypeOK
<1>2. /\ Head(wire) \in Frame /\ Elems(wire) = Elems(wire') \cup {Head(wire)}
      /\ Len(wire) = Len(wire') + 1 /\ Len(wire) \in Nat /\ Len(wire') \in Nat
  BY <1>1, ElemsHeadTail
<1>3. PICK kind \in {"block", "bad", "denied"} :
         inbox' = Append(inbox, [seq |-> Head(wire).seq, kind |-> kind,
                                 block |-> Head(wire).block, count |-> size, session |-> session])
  BY DEF PanelAnswers
<1> DEFINE m == [seq |-> Head(wire).seq, kind |-> kind, block |-> Head(wire).block,
                 count |-> size, session |-> session]
<1>4. m \in Message
  BY <1>2 DEF Frame, Message, TypeOK
<1>5. /\ m.seq = Head(wire).seq /\ m.block = Head(wire).block /\ m.count = size
      /\ m.session = session
  OBVIOUS
<1>6. inbox' = Append(inbox, m)
  BY <1>3
<1> HIDE DEF m
<1>7. Elems(inbox') = Elems(inbox) \cup {m}
  BY <1>1, <1>4, <1>6, ElemsAppend
<1>8. UNCHANGED <<link, session, queue, active, backoff, pending, transfers, stale,
                  inventory, nextSeq, nextKey, size, stalled>>
  BY DEF PanelAnswers, sched, blocks, counter
<1> QED BY <1>2, <1>4, <1>5, <1>6, <1>7, <1>8

LEMMA NumberedPanel ==
  TypeOK /\ Numbered /\ (PanelAnswers \/ PanelIgnores \/ TableChanges) => Numbered'
<1> SUFFICES ASSUME TypeOK, Numbered, PanelAnswers \/ PanelIgnores \/ TableChanges
             PROVE  Numbered'
  OBVIOUS
<1>1. UNCHANGED <<queue, active, backoff, transfers, nextSeq, nextKey>>
  BY DEF PanelAnswers, PanelIgnores, TableChanges, sched, blocks, counter
<1>2. \A m \in Carried' : \E n \in Carried : m.seq = n.seq
  <2>1. CASE PanelAnswers
    BY <2>1, AnswerShape DEF Carried
  <2>2. CASE PanelIgnores
    <3>1. Elems(wire) = Elems(wire') \cup {Head(wire)} /\ inbox' = inbox
      BY <2>2, ElemsHeadTail DEF PanelIgnores, TypeOK
    <3> QED BY <3>1 DEF Carried
  <2>3. CASE TableChanges
    BY <2>3 DEF TableChanges, Carried
  <2> QED BY <2>1, <2>2, <2>3
<1>3. \A m \in Carried' : m.seq < nextSeq
  BY <1>2 DEF Numbered
<1> QED BY <1>1, <1>3, NumberedLess DEF Queued, Numbered

LEMMA NumberedEnds ==
  TypeOK /\ Numbered /\ (Elapse \/ LinkLost \/ OnDisconnected \/ Close) => Numbered'
<1> SUFFICES ASSUME TypeOK, Numbered, Elapse \/ LinkLost \/ OnDisconnected \/ Close
             PROVE  Numbered'
  OBVIOUS
<1>1. UNCHANGED <<nextSeq, nextKey, inbox>> /\ (wire' = wire \/ wire' = <<>>)
  BY DEF Elapse, LinkLost, OnDisconnected, Close, counter, panel
<1>2. /\ active' \subseteq active /\ backoff' \subseteq backoff /\ (queue' = queue \/ queue' = <<>>)
      /\ (transfers' = transfers \/ transfers' = <<>>)
  BY DEF Elapse, LinkLost, OnDisconnected, Close, AbortRequests, sched, blocks
<1>3. Queued' \subseteq Queued /\ Distinct(queue') /\ Carried' \subseteq Carried
  BY <1>1, <1>2, ElemsEmpty DEF Queued, Carried, Numbered
<1>4. \A m \in Carried' : m.seq < nextSeq
  BY <1>3 DEF Numbered
<1>5. \A j \in DOMAIN transfers' : 0 < j /\ j < nextKey
  BY <1>2, NoBlocks DEF Numbered
<1> QED BY <1>1, <1>2, <1>3, <1>4, <1>5, NumberedLess

\* What the loop does with every message.
LEMMA ReceivedShape ==
  ASSUME TypeOK, inbox # <<>>, NEW m, Received(m)
  PROVE  /\ m = Head(inbox) /\ m \in Message /\ m \in Elems(inbox) /\ m \in Carried
         /\ Elems(inbox') \subseteq Elems(inbox) /\ Carried' \subseteq Carried
         /\ Len(inbox') = Len(inbox) - 1 /\ Len(inbox) \in Nat \ {0}
         /\ active' = {r \in active : r.seq # m.seq}
         /\ backoff' = {r \in backoff : r.seq # m.seq}
         /\ pending' = {p \in pending : p.seq # m.seq}
         /\ stale' = {}
         /\ UNCHANGED <<link, session, nextKey, wire, size, troubles>>
<1>1. /\ Head(inbox) \in Message /\ Elems(inbox) = Elems(Tail(inbox)) \cup {Head(inbox)}
      /\ Len(Tail(inbox)) = Len(inbox) - 1 /\ Len(inbox) \in Nat \ {0}
  BY Arrived
<1>2. /\ m = Head(inbox) /\ inbox' = Tail(inbox) /\ stale' = {}
      /\ active' = {r \in active : r.seq # m.seq}
      /\ backoff' = {r \in backoff : r.seq # m.seq}
      /\ pending' = {p \in pending : p.seq # m.seq}
      /\ UNCHANGED <<link, session, nextKey, wire, size, troubles>>
  BY DEF Received
<1> QED BY <1>1, <1>2 DEF Carried

\* The request that a message answers.
LEMMA Answered ==
  ASSUME TypeOK, Numbered, Correlated, NEW m \in Carried
  PROVE  /\ \A k \in KeyOf(m) :
               \E a \in active : /\ active = {a} /\ a \in Live /\ a.seq = m.seq /\ a.key = k
                                 /\ a.block = m.block /\ k # NoKey /\ k \in Nat /\ k < nextKey
                                 /\ \A r \in Live : r.seq = m.seq => r = a
         /\ KeyOf(m) = {} => \A a \in active : a.seq # m.seq
<1>1. pending = {[seq |-> r.seq, key |-> r.key] : r \in active}
  BY DEF Correlated
<1>2. ASSUME NEW k \in KeyOf(m)
      PROVE  \E a \in active : /\ active = {a} /\ a \in Live /\ a.seq = m.seq /\ a.key = k
                               /\ a.block = m.block /\ k # NoKey /\ k \in Nat /\ k < nextKey
                               /\ \A r \in Live : r.seq = m.seq => r = a
  <2>1. PICK p \in pending : p.seq = m.seq /\ p.key = k
    BY <1>2 DEF KeyOf
  <2>2. PICK a \in active : p = [seq |-> a.seq, key |-> a.key]
    BY <1>1, <2>1
  <2>3. a.seq = m.seq /\ a.key = k /\ a \in Live
    BY <2>1, <2>2 DEF Live
  <2>4. active = {a} /\ k # NoKey /\ a.block = m.block
    BY <2>3 DEF Correlated
  <2>5. k \in Nat /\ k < nextKey
    BY <2>3, NumbersTyped DEF Numbered
  <2>6. \A r \in Live : r.seq = m.seq => r = a
    BY <2>3 DEF Numbered
  <2> QED BY <2>3, <2>4, <2>5, <2>6
<1>3. ASSUME KeyOf(m) = {}, NEW a \in active PROVE a.seq # m.seq
  <2>1. [seq |-> a.seq, key |-> a.key] \in pending
    BY <1>1
  <2> QED BY <1>3, <2>1 DEF KeyOf
<1> QED BY <1>2, <1>3

LEMMA LeftAlone ==
  ASSUME TypeOK, Numbered, inbox # <<>>, NEW m, Received(m)
  PROVE  /\ queue' = NotRetried(m.seq) =>
               /\ Queued' = {r \in Queued : r.seq # m.seq} /\ Distinct(queue')
               /\ Live' = {r \in Live : r.seq # m.seq}
         /\ \A n : Queued' = {r \in Queued : r.seq # m.seq} \cup {n} =>
               Live' = {r \in Live : r.seq # m.seq} \cup {n}
<1>1. /\ active' = {r \in active : r.seq # m.seq} /\ backoff' = {r \in backoff : r.seq # m.seq}
  BY ReceivedShape
<1>2. /\ Elems(NotRetried(m.seq)) = {r \in Queued : r.seq # m.seq}
      /\ Distinct(NotRetried(m.seq))
  BY Unretried
<1>3. queue' = NotRetried(m.seq) => Queued' = {r \in Queued : r.seq # m.seq} /\ Distinct(queue')
  BY <1>2 DEF Queued
<1> QED BY <1>1, <1>3 DEF Live

\* A message either takes requests away, or asks for a block of its transfer too.
Asks(m, k) ==
  LET t == Filed(Opened(m, k), m)
      b == First(NextBlocks(t))
  IN /\ NextBlocks(t) # {} /\ link = "up" /\ b \in 1..MaxCount
     /\ queue' = Append(NotRetried(m.seq), Request(nextSeq, b, k)) /\ nextSeq' = nextSeq + 1
     /\ stalled' = stalled

LEMMA DispatchShape ==
  ASSUME TypeOK, Numbered, Dispatch
  PROVE  LET m == Head(inbox)
         IN /\ inbox # <<>> /\ Received(m)
            /\ \/ queue' = NotRetried(m.seq) /\ nextSeq' = nextSeq
               \/ File /\ \E k \in KeyOf(m) : /\ Asks(m, k) /\ ~Inconsistent(m, k)
                                             /\ m.block \notin DOMAIN Opened(m, k).got
                                             /\ Keep(Filed(Opened(m, k), m), k)
<1> DEFINE m == Head(inbox)
<1>1. inbox # <<>> /\ Received(m)
  BY DEF Dispatch, Unsolicited, Denied, Malformed, Mismatch, File
<1>2. CASE Unsolicited \/ Denied \/ Malformed \/ Mismatch
  BY <1>1, <1>2 DEF Unsolicited, Denied, Malformed, Mismatch
<1>3. CASE File
  <2>1. PICK k \in KeyOf(m) :
          /\ ~Inconsistent(m, k)
          /\ IF m.block \in DOMAIN Opened(m, k).got
             THEN queue' = NotRetried(m.seq) /\ nextSeq' = nextSeq
             ELSE /\ RequestNext(Filed(Opened(m, k), m), k, NotRetried(m.seq))
                  /\ Keep(Filed(Opened(m, k), m), k)
    BY <1>3 DEF File
  <2>2. CASE m.block \in DOMAIN Opened(m, k).got
    BY <1>1, <2>1, <2>2
  <2>3. CASE m.block \notin DOMAIN Opened(m, k).got
    <3> DEFINE t == Filed(Opened(m, k), m)
               b == First(NextBlocks(t))
    <3>1. RequestNext(t, k, NotRetried(m.seq)) /\ Keep(t, k)
      BY <2>1, <2>3
    <3>2. CASE NextBlocks(t) = {}
      BY <1>1, <3>1, <3>2 DEF RequestNext
    <3>3. CASE NextBlocks(t) # {}
      <4>1. RequestBlock(NotRetried(m.seq), b, k)
        BY <3>1, <3>3 DEF RequestNext
      <4>2. CASE link # "up"
        BY <1>1, <4>1, <4>2 DEF RequestBlock
      <4>3. CASE link = "up"
        <5>1. m \in Message
          BY <1>1, ReceivedShape
        <5>2. Transfer(t)
          BY <5>1, FiledTyped
        <5>3. b \in 1..MaxCount
          BY <3>3, <5>2, NextIsMissing
        <5>4. /\ queue' = Append(NotRetried(m.seq), Request(nextSeq, b, k))
              /\ nextSeq' = nextSeq + 1 /\ stalled' = stalled
          BY <4>1, <4>3 DEF RequestBlock
        <5>5. Asks(m, k)
          BY <3>3, <4>3, <5>3, <5>4 DEF Asks
        <5> QED BY <1>1, <1>3, <2>1, <2>3, <3>1, <5>5
      <4> QED BY <4>2, <4>3
    <3> QED BY <3>2, <3>3
  <2> QED BY <2>2, <2>3
<1> QED BY <1>2, <1>3 DEF Dispatch

\* Only transfers that there were, or the one of the message.
LEMMA DispatchTransfers ==
  ASSUME TypeOK, Numbered, Correlated, Dispatch
  PROVE  \A j \in DOMAIN transfers' : 0 < j /\ j < nextKey
<1> DEFINE m == Head(inbox)
<1>1. /\ inbox # <<>> /\ Received(m)
  BY DispatchShape
<1>2. m \in Carried
  BY <1>1, ReceivedShape
<1>3. \A k \in KeyOf(m) : 0 < k /\ k < nextKey
  BY <1>2, Answered DEF NoKey
<1>4. \A j \in DOMAIN transfers : 0 < j /\ j < nextKey
  BY DEF Numbered
<1>5. /\ DOMAIN Unexpired \subseteq DOMAIN transfers
      /\ \A k : DOMAIN Ended(k) \subseteq DOMAIN transfers
  BY UnexpiredShape
<1>6. \A k, t : Keep(t, k) => DOMAIN transfers' \subseteq DOMAIN transfers \cup {k}
  <2>1. \A k, t : DOMAIN Extend(Unexpired, k, Asked(t)) = DOMAIN Unexpired \cup {k}
    BY DEF Extend
  <2>2. ASSUME NEW k, NEW t, Keep(t, k)
        PROVE  transfers' = Ended(k) \/ transfers' = Extend(Unexpired, k, Asked(t))
    BY <2>2 DEF Keep
  <2> QED BY <1>5, <2>1, <2>2, ZenonT(60)
<1>7. CASE Unsolicited \/ Denied \/ Malformed \/ Mismatch
  BY <1>4, <1>5, <1>7 DEF Unsolicited, Denied, Malformed, Mismatch
<1>8. CASE File
  <2>1. \E k \in KeyOf(m) : transfers' = Unexpired \/ Keep(Filed(Opened(m, k), m), k)
    BY <1>8 DEF File
  <2>2. \E k \in KeyOf(m) : DOMAIN transfers' \subseteq DOMAIN transfers \cup {k}
    BY <1>5, <1>6, <2>1
  <2> HIDE DEF m
  <2> QED BY <1>3, <1>4, <2>2
<1> QED BY <1>7, <1>8 DEF Dispatch

LEMMA NumberedDispatch ==
  TypeOK /\ Numbered /\ Correlated /\ (Dispatch \/ OtherMessage) => Numbered'
<1> SUFFICES ASSUME TypeOK, Numbered, Correlated, Dispatch \/ OtherMessage PROVE Numbered'
  OBVIOUS
<1>1. CASE Dispatch
  <2> DEFINE m == Head(inbox)
  <2>1. inbox # <<>> /\ Received(m)
    BY <1>1, DispatchShape
  <2>2. /\ active' \subseteq active /\ backoff' \subseteq backoff /\ Carried' \subseteq Carried
        /\ nextKey' = nextKey /\ m \in Carried
    BY <2>1, ReceivedShape
  <2>3. \A j \in DOMAIN transfers' : 0 < j /\ j < nextKey
    BY <1>1, DispatchTransfers
  <2>4. \A c \in Carried' : c.seq < nextSeq
    BY <2>2 DEF Numbered
  <2>5. CASE queue' = NotRetried(m.seq) /\ nextSeq' = nextSeq
    <3>1. Queued' \subseteq Queued /\ Distinct(queue')
      BY <2>1, <2>5, LeftAlone
    <3> QED BY <2>2, <2>3, <2>4, <2>5, <3>1, NumberedLess
  <2>6. CASE \E k \in KeyOf(m) : Asks(m, k)
    <3>1. PICK k \in KeyOf(m) : Asks(m, k)
      BY <2>6
    <3>2. PICK b \in 1..MaxCount :
             queue' = Append(NotRetried(m.seq), Request(nextSeq, b, k)) /\ nextSeq' = nextSeq + 1
      BY <3>1 DEF Asks
    <3>3. k \in Nat /\ k < nextKey
      BY <2>2, Answered
    <3>4. /\ NotRetried(m.seq) \in Seq(Req) /\ Elems(NotRetried(m.seq)) \subseteq Queued
          /\ Distinct(NotRetried(m.seq))
      BY Unretried
    <3> HIDE DEF m
    <3> QED BY <2>2, <2>3, <3>2, <3>3, <3>4, NumberedMore
  <2> QED BY <1>1, <2>5, <2>6, DispatchShape
<1>2. CASE OtherMessage
  <2>1. /\ transfers' = Unexpired
        /\ UNCHANGED <<queue, active, backoff, nextSeq, nextKey, wire, inbox>>
    BY <1>2 DEF OtherMessage, sched, counter, panel
  <2>2. DOMAIN transfers' \subseteq DOMAIN transfers
    BY <2>1, UnexpiredShape
  <2> QED BY <2>1, <2>2, NumberedLess DEF Queued, Carried, Numbered
<1> QED BY <1>1, <1>2

LEMMA NumberedStep == TypeOK /\ Numbered /\ Correlated /\ [Next]_vars => Numbered'
<1> SUFFICES ASSUME TypeOK, Numbered, Correlated, [Next]_vars PROVE Numbered'
  OBVIOUS
<1>1. CASE UNCHANGED vars
  BY <1>1, NumberedLess DEF vars, sched, blocks, counter, panel, Queued, Carried, Numbered
<1>2. CASE Next
  BY <1>2, NumberedAsking, NumberedScheduler, NumberedPanel, NumberedEnds, NumberedDispatch
     DEF Next
<1> QED BY <1>1, <1>2

-----------------------------------------------------------------------------
(* The gate and its correlation.                                           *)

SameBlock == \A m \in Carried, r \in Live : m.seq = r.seq => m.block = r.block

OneAtTheGate ==
    /\ \A r, s \in active : r = s
    /\ \A r \in active : r.key # NoKey
    /\ pending = {[seq |-> r.seq, key |-> r.key] : r \in active}

LEMMA CorrelatedParts == Correlated <=> OneAtTheGate /\ SameBlock
BY DEF Correlated, OneAtTheGate, SameBlock

\* The numbers and blocks of before are right together.
LEMMA SameBlockKept ==
  ASSUME SameBlock,
         \A m \in Carried' : \E n \in Carried : m.seq = n.seq /\ m.block = n.block,
         \A r \in Live' : \E s \in Live : r.seq = s.seq /\ r.block = s.block
  PROVE  SameBlock'
<1> SUFFICES ASSUME NEW m \in Carried', NEW r \in Live', m.seq = r.seq
             PROVE  m.block = r.block
  BY DEF SameBlock
<1>1. PICK n \in Carried : m.seq = n.seq /\ m.block = n.block
  OBVIOUS
<1>2. PICK s \in Live : r.seq = s.seq /\ r.block = s.block
  OBVIOUS
<1> QED BY <1>1, <1>2 DEF SameBlock

\* A new seq is on no frame yet.
LEMMA SameBlockMore ==
  ASSUME TypeOK, Numbered, SameBlock, Carried' \subseteq Carried,
         NEW n, n.seq = nextSeq, Live' \subseteq Live \cup {n}
  PROVE  SameBlock'
<1>1. \A m \in Carried : m.seq # n.seq
  BY NumbersTyped DEF Numbered
<1> QED BY <1>1 DEF SameBlock

LEMMA CorrelatedInit == Init => Correlated
<1> SUFFICES ASSUME Init PROVE Correlated
  OBVIOUS
<1>1. Elems(queue) = {} /\ Elems(wire) = {} /\ Elems(inbox) = {}
  BY ElemsEmpty DEF Init
<1> QED BY <1>1 DEF Init, Correlated, Live, Carried, Queued

LEMMA CorrelatedAsking == TypeOK /\ Numbered /\ Correlated /\ (Connect \/ Read) => Correlated'
<1> SUFFICES ASSUME TypeOK, Numbered, Correlated, Connect \/ Read PROVE Correlated'
  OBVIOUS
<1> DEFINE n == Request(nextSeq, 1, NoKey)
<1>1. /\ queue' = Append(queue, n) /\ UNCHANGED <<active, backoff, pending, wire, inbox>>
  BY DEF Connect, Read, blocks, panel
<1>2. n \in Req /\ n.seq = nextSeq
  <2>1. 1 \in 1..MaxCount /\ NoKey \in Nat
    BY PagedBounds DEF NoKey
  <2> QED BY <2>1, NewRequest DEF Request
<1> HIDE DEF n
<1>3. Live' = Live \cup {n} /\ Carried' = Carried
  BY <1>1, <1>2, Appended DEF Live, Queued, Carried
<1>4. SameBlock'
  BY <1>2, <1>3, SameBlockMore, CorrelatedParts
<1> QED BY <1>1, <1>4 DEF Correlated, SameBlock

LEMMA CorrelatedScheduler ==
  TypeOK /\ Numbered /\ Correlated
     /\ (TrySendNext \/ DeadlineExpired \/ ReplyTimeout \/ BackoffEnds) => Correlated'
<1> SUFFICES ASSUME TypeOK, Numbered, Correlated,
                    TrySendNext \/ DeadlineExpired \/ ReplyTimeout \/ BackoffEnds
             PROVE  Correlated'
  OBVIOUS
<1>s. SameBlock /\ OneAtTheGate
  BY CorrelatedParts
<1>1. CASE TrySendNext
  <2> DEFINE h == Head(queue)
             f == [seq |-> Sent.seq, block |-> Sent.block]
  <2>1. /\ h \in Queued /\ Sent.seq = h.seq /\ Sent.block = h.block /\ Sent.key # NoKey
        /\ active = {} /\ active' = {Sent}
        /\ pending' = pending \cup {[seq |-> Sent.seq, key |-> Sent.key]}
        /\ Elems(wire') = Elems(wire) \cup {f}
        /\ Queued = Queued' \cup {h}
        /\ UNCHANGED <<backoff, inbox>>
    BY <1>1, SentShape
  <2>2. f.seq = h.seq /\ f.block = h.block
    BY <2>1
  <2> HIDE DEF f, h
  <2>3. pending = {}
    BY <1>s, <2>1 DEF OneAtTheGate
  <2>4. OneAtTheGate'
    BY <2>1, <2>3 DEF OneAtTheGate
  <2>5. h \in Live /\ Carried' = Carried \cup {f}
    BY <2>1 DEF Live, Carried
  <2>6. \A r \in Live' : \E s \in Live : r.seq = s.seq /\ r.block = s.block
    BY <2>1, <2>5 DEF Live
  <2>7. ASSUME NEW m \in Carried', NEW r \in Live', m.seq = r.seq
        PROVE  m.block = r.block
    <3>1. PICK s \in Live : r.seq = s.seq /\ r.block = s.block
      BY <2>6
    <3>2. CASE m = f
      <4>1. s = h
        BY <2>2, <2>5, <2>7, <3>1, <3>2 DEF Numbered
      <4> QED BY <2>2, <3>1, <3>2, <4>1
    <3>3. CASE m \in Carried
      BY <1>s, <2>7, <3>1, <3>3 DEF SameBlock
    <3> QED BY <2>5, <3>2, <3>3
  <2> QED BY <2>4, <2>7 DEF Correlated, OneAtTheGate
<1>2. CASE DeadlineExpired
  <2>1. /\ queue # <<>> /\ queue' = Tail(queue) /\ UNCHANGED <<active, backoff, pending, wire, inbox>>
    BY <1>2 DEF DeadlineExpired, blocks, panel
  <2>2. Queued' \subseteq Queued
    BY <2>1, Taken DEF Queued
  <2>3. Live' \subseteq Live /\ Carried' = Carried
    BY <2>1, <2>2 DEF Live, Carried
  <2> QED BY <2>1, <2>3 DEF Correlated
<1>3. CASE ReplyTimeout
  <2>1. PICK r \in active :
          /\ pending' = {p \in pending : p.seq # r.seq}
          /\ \/ backoff' = backoff \cup {[r EXCEPT !.attempt = @ + 1]}
             \/ UNCHANGED backoff
    BY <1>3 DEF ReplyTimeout
  <2>2. active' = {} /\ UNCHANGED <<queue, wire, inbox>>
    BY <1>3 DEF ReplyTimeout, panel
  <2>3. \A p \in pending : p.seq = r.seq
    BY <1>s DEF OneAtTheGate
  <2>4. OneAtTheGate'
    BY <2>1, <2>2, <2>3 DEF OneAtTheGate
  <2> DEFINE a == [r EXCEPT !.attempt = @ + 1]
  <2>5. r \in Live /\ a.seq = r.seq /\ a.block = r.block
    BY NumbersTyped DEF Live, Req
  <2> HIDE DEF a
  <2>6. Live' \subseteq Live \cup {a} /\ Carried' = Carried
    BY <2>1, <2>2 DEF Live, Queued, Carried, a
  <2>7. \A q \in Live' : \E s \in Live : q.seq = s.seq /\ q.block = s.block
    BY <2>5, <2>6
  <2>8. SameBlock'
    BY <1>s, <2>6, <2>7, SameBlockKept
  <2> QED BY <2>4, <2>8 DEF Correlated, OneAtTheGate, SameBlock
<1>4. CASE BackoffEnds
  <2>1. PICK r \in backoff :
          /\ backoff' = backoff \ {r}
          /\ queue' = Append(queue, r) \/ queue' = queue
    BY <1>4 DEF BackoffEnds
  <2>2. UNCHANGED <<active, pending, wire, inbox>>
    BY <1>4 DEF BackoffEnds, blocks, panel
  <2>3. r \in Req
    BY DEF TypeOK
  <2>4. Queued' \subseteq Queued \cup {r}
    BY <2>1, <2>3, Appended DEF Queued
  <2>5. Live' \subseteq Live /\ Carried' = Carried
    BY <2>1, <2>2, <2>4 DEF Live, Carried
  <2> QED BY <2>2, <2>5 DEF Correlated
<1> QED BY <1>1, <1>2, <1>3, <1>4

LEMMA CorrelatedPanel ==
  TypeOK /\ Correlated /\ (PanelAnswers \/ PanelIgnores \/ TableChanges) => Correlated'
<1> SUFFICES ASSUME TypeOK, Correlated, PanelAnswers \/ PanelIgnores \/ TableChanges
             PROVE  Correlated'
  OBVIOUS
<1>1. UNCHANGED <<queue, active, backoff, pending>>
  BY DEF PanelAnswers, PanelIgnores, TableChanges, sched, blocks
<1>2. \A m \in Carried' : \E n \in Carried : m.seq = n.seq /\ m.block = n.block
  <2>1. CASE PanelAnswers
    <3> DEFINE f == Head(wire)
    <3>1. PICK m : m.seq = f.seq /\ m.block = f.block /\ Elems(inbox') = Elems(inbox) \cup {m}
      BY <2>1, AnswerShape
    <3>2. f \in Elems(wire) /\ Elems(wire') \subseteq Elems(wire)
      BY <2>1, AnswerShape
    <3> HIDE DEF f
    <3> QED BY <3>1, <3>2 DEF Carried
  <2>2. CASE PanelIgnores
    <3>1. Elems(wire) = Elems(wire') \cup {Head(wire)} /\ inbox' = inbox
      BY <2>2, ElemsHeadTail DEF PanelIgnores, TypeOK
    <3> QED BY <3>1 DEF Carried
  <2>3. CASE TableChanges
    BY <2>3 DEF TableChanges, Carried
  <2> QED BY <2>1, <2>2, <2>3
<1>3. Live' = Live
  BY <1>1 DEF Live, Queued
<1>4. SameBlock'
  BY <1>2, <1>3, SameBlockKept, CorrelatedParts
<1> QED BY <1>1, <1>4 DEF Correlated, SameBlock

LEMMA CorrelatedEnds ==
  TypeOK /\ Correlated /\ (Elapse \/ LinkLost \/ OnDisconnected \/ Close) => Correlated'
<1> SUFFICES ASSUME TypeOK, Correlated, Elapse \/ LinkLost \/ OnDisconnected \/ Close
             PROVE  Correlated'
  OBVIOUS
<1>1. inbox' = inbox /\ (wire' = wire \/ wire' = <<>>)
  BY DEF Elapse, LinkLost, OnDisconnected, Close, panel
<1>2. \/ UNCHANGED <<queue, active, backoff, pending>>
      \/ queue' = <<>> /\ active' = {} /\ backoff' = {} /\ pending' = {}
  BY DEF Elapse, LinkLost, OnDisconnected, Close, AbortRequests, sched, blocks
<1>3. Live' \subseteq Live /\ Carried' \subseteq Carried
  BY <1>1, <1>2, ElemsEmpty DEF Live, Queued, Carried
<1> QED BY <1>2, <1>3 DEF Correlated

LEMMA CorrelatedDispatch ==
  TypeOK /\ Numbered /\ Correlated /\ (Dispatch \/ OtherMessage) => Correlated'
<1> SUFFICES ASSUME TypeOK, Numbered, Correlated, Dispatch \/ OtherMessage PROVE Correlated'
  OBVIOUS
<1>s. SameBlock /\ OneAtTheGate
  BY CorrelatedParts
<1>1. CASE Dispatch
  <2> DEFINE m == Head(inbox)
  <2>1. inbox # <<>> /\ Received(m)
    BY <1>1, DispatchShape
  <2>2. /\ active' = {r \in active : r.seq # m.seq} /\ Carried' \subseteq Carried
        /\ pending' = {p \in pending : p.seq # m.seq}
    BY <2>1, ReceivedShape
  <2> HIDE DEF m
  <2>3. OneAtTheGate'
    BY <1>s, <2>2 DEF OneAtTheGate
  <2>4. SameBlock'
    <3>1. CASE queue' = NotRetried(m.seq)
      <4>1. Live' \subseteq Live
        BY <2>1, <3>1, LeftAlone
      <4> QED BY <1>s, <2>2, <4>1 DEF SameBlock
    <3>2. CASE \E k \in KeyOf(m) : Asks(m, k)
      <4>1. PICK k \in KeyOf(m), b \in 1..MaxCount :
               queue' = Append(NotRetried(m.seq), Request(nextSeq, b, k))
        BY <3>2 DEF Asks
      <4> DEFINE n == Request(nextSeq, b, k)
      <4>2. k \in Nat
        BY <2>1, TypeReceived
      <4>3. n \in Req /\ n.seq = nextSeq
        BY <4>2, NewRequest DEF Request
      <4> HIDE DEF n
      <4>4. Elems(queue') = {r \in Queued : r.seq # m.seq} \cup {n}
        BY <4>1, <4>3, Unretried, ElemsAppend DEF n
      <4>5. Live' \subseteq Live \cup {n}
        <5>1. Queued' = {r \in Queued : r.seq # m.seq} \cup {n}
          BY <4>4 DEF Queued
        <5>2. active' \subseteq active /\ backoff' \subseteq backoff
          BY <2>1, ReceivedShape
        <5> QED BY <5>1, <5>2 DEF Live
      <4> QED BY <1>s, <2>2, <4>3, <4>5, SameBlockMore
    <3> QED BY <1>1, <3>1, <3>2, DispatchShape DEF m
  <2> QED BY <2>3, <2>4 DEF Correlated, OneAtTheGate, SameBlock
<1>2. CASE OtherMessage
  BY <1>2 DEF OtherMessage, sched, panel, Correlated, Live, Queued, Carried
<1> QED BY <1>1, <1>2

LEMMA CorrelatedStep == TypeOK /\ Numbered /\ Correlated /\ [Next]_vars => Correlated'
<1> SUFFICES ASSUME TypeOK, Numbered, Correlated, [Next]_vars PROVE Correlated'
  OBVIOUS
<1>1. CASE UNCHANGED vars
  BY <1>1 DEF vars, sched, blocks, panel, Correlated, Live, Queued, Carried
<1>2. CASE Next
  BY <1>2, CorrelatedAsking, CorrelatedScheduler, CorrelatedPanel, CorrelatedEnds,
     CorrelatedDispatch DEF Next
<1> QED BY <1>1, <1>2

LEMMA EmptiedStep == TypeOK /\ Numbered /\ Emptied /\ [Next]_vars => Emptied'
<1> SUFFICES ASSUME TypeOK, Numbered, Emptied, [Next]_vars PROVE Emptied'
  OBVIOUS
<1> USE DEF Emptied, sched, blocks, counter, panel, bounds
<1>1. CASE UNCHANGED vars
  BY <1>1 DEF vars
<1>2. CASE Connect \/ Read
  BY <1>2 DEF Connect, Read
<1>3. CASE TrySendNext \/ DeadlineExpired
  BY <1>3 DEF TrySendNext, DeadlineExpired
<1>4. CASE ReplyTimeout \/ BackoffEnds
  BY <1>4 DEF ReplyTimeout, BackoffEnds
<1>5. CASE PanelAnswers \/ PanelIgnores \/ TableChanges
  BY <1>5 DEF PanelAnswers, PanelIgnores, TableChanges
<1>6. CASE Dispatch
  <2> DEFINE m == Head(inbox)
  <2>1. inbox # <<>> /\ Received(m)
    BY <1>6, DispatchShape
  <2>2. /\ active' = {r \in active : r.seq # m.seq} /\ backoff' = {r \in backoff : r.seq # m.seq}
        /\ UNCHANGED <<link, wire>>
    BY <2>1, ReceivedShape
  <2>3. queue' = NotRetried(m.seq) \/ link = "up"
    BY <1>6, DispatchShape DEF Asks
  <2>4. queue = <<>> => NotRetried(m.seq) = <<>>
    BY ElemsEmpty DEF NotRetried, Queued
  <2> QED BY <2>2, <2>3, <2>4
<1>7. CASE OtherMessage \/ Elapse \/ LinkLost \/ OnDisconnected \/ Close
  BY <1>7 DEF OtherMessage, Elapse, LinkLost, OnDisconnected, Close, AbortRequests
<1> QED BY <1>1, <1>2, <1>3, <1>4, <1>5, <1>6, <1>7 DEF Next

-----------------------------------------------------------------------------
(* A message and the transfers.                                            *)

LEMMA KeepShape ==
  ASSUME TypeOK, NEW t, NEW k, Keep(t, k)
  PROVE  /\ \A j \in DOMAIN transfers' :
               \/ j # k /\ j \in DOMAIN transfers /\ transfers'[j] = transfers[j]
               \/ j = k /\ ~IsWhole(t) /\ transfers'[j] = Asked(t)
         /\ \/ /\ IsWhole(t)
               /\ inventory' = [got |-> t.got, count |-> t.count, raw |-> FALSE]
            \/ ~IsWhole(t) /\ inventory' = inventory
<1>1. CASE IsWhole(t)
  <2>1. /\ transfers' = Ended(k)
        /\ inventory' = [got |-> t.got, count |-> t.count, raw |-> FALSE]
    BY <1>1 DEF Keep
  <2>2. \A j \in DOMAIN Ended(k) : j # k /\ j \in DOMAIN transfers /\ Ended(k)[j] = transfers[j]
    BY UnexpiredShape
  <2> QED BY <1>1, <2>1, <2>2
<1>2. CASE ~IsWhole(t)
  <2> DEFINE g == Extend(Unexpired, k, Asked(t))
  <2>1. transfers' = g /\ inventory' = inventory
    BY <1>2 DEF Keep
  <2>2. /\ DOMAIN g = DOMAIN Unexpired \cup {k} /\ g[k] = Asked(t)
        /\ \A j \in DOMAIN Unexpired : j # k => g[j] = Unexpired[j]
    BY DEF Extend
  <2> HIDE DEF g
  <2>3. \A j \in DOMAIN Unexpired : j \in DOMAIN transfers /\ Unexpired[j] = transfers[j]
    BY UnexpiredShape
  <2> QED BY <1>2, <2>1, <2>2, <2>3
<1> QED BY <1>1, <1>2

\* A message that is not filed changes no transfer that it leaves.
LEMMA PlainShape ==
  ASSUME TypeOK, Numbered, Dispatch
  PROVE  LET m == Head(inbox)
         IN \/ /\ queue' = NotRetried(m.seq) /\ nextSeq' = nextSeq
               /\ \A j \in DOMAIN transfers' : j \in DOMAIN transfers /\ transfers'[j] = transfers[j]
               /\ inventory' = inventory \/ inventory'.raw
               /\ stalled \subseteq stalled'
            \/ \E k \in KeyOf(m) :
                  /\ InRange(m) /\ ~Inconsistent(m, k) /\ m.block \notin DOMAIN Opened(m, k).got
                  /\ RequestNext(Filed(Opened(m, k), m), k, NotRetried(m.seq))
                  /\ Keep(Filed(Opened(m, k), m), k)
<1> DEFINE m == Head(inbox)
<1>1. /\ \A j \in DOMAIN Unexpired : j \in DOMAIN transfers /\ Unexpired[j] = transfers[j]
      /\ \A k : \A j \in DOMAIN Ended(k) : j \in DOMAIN transfers /\ Ended(k)[j] = transfers[j]
  BY UnexpiredShape
<1>2. HandleRaw(m) => inventory' = inventory \/ inventory'.raw
  <2>1. [got |-> [b \in {m.block} |-> m.session], count |-> m.count, raw |-> TRUE].raw
    OBVIOUS
  <2> QED BY <2>1 DEF HandleRaw
<1>3. CASE Unsolicited \/ Denied \/ Malformed \/ Mismatch
  <2>1. /\ queue' = NotRetried(m.seq) /\ nextSeq' = nextSeq
        /\ transfers' = Unexpired \/ \E k : transfers' = Ended(k)
        /\ inventory' = inventory \/ HandleRaw(m)
        /\ stalled \subseteq stalled'
    BY <1>3 DEF Unsolicited, Denied, Malformed, Mismatch
  <2> HIDE DEF m
  <2> QED BY <1>1, <1>2, <2>1 DEF m
<1>4. CASE File
  <2>1. PICK k \in KeyOf(m) :
          /\ InRange(m) /\ ~Inconsistent(m, k)
          /\ IF m.block \in DOMAIN Opened(m, k).got
             THEN /\ transfers' = Unexpired /\ queue' = NotRetried(m.seq)
                  /\ UNCHANGED <<inventory, nextSeq, stalled>>
             ELSE /\ RequestNext(Filed(Opened(m, k), m), k, NotRetried(m.seq))
                  /\ Keep(Filed(Opened(m, k), m), k)
    BY <1>4 DEF File
  <2> HIDE DEF m
  <2>2. CASE m.block \in DOMAIN Opened(m, k).got
    BY <1>1, <2>1, <2>2 DEF m
  <2>3. CASE m.block \notin DOMAIN Opened(m, k).got
    BY <2>1, <2>3 DEF m
  <2> QED BY <2>2, <2>3
<1> QED BY <1>3, <1>4 DEF Dispatch

\* The transfer with the block that is filed.
LEMMA FiledFits ==
  ASSUME TypeOK, Progressing, NEW m \in Message, NEW k, InRange(m), ~Inconsistent(m, k)
  PROVE  LET t == Filed(Opened(m, k), m)
         IN /\ t.count = m.count
            /\ m.block \in DOMAIN t.got /\ DOMAIN t.got \subseteq t.requested
            /\ t.requested \subseteq 1..t.count
            /\ IsWhole(t) <=> DOMAIN t.got = 1..t.count
<1> DEFINE o == Opened(m, k)
           t == Filed(o, m)
<1>1. /\ Transfer(t) /\ t.count = o.count /\ t.requested = o.requested \cup {m.block}
      /\ DOMAIN t.got = DOMAIN o.got \cup {m.block}
  BY FiledTyped
<1>2. m.block \in 1..m.count
  BY DEF InRange, Message
<1>3. /\ o.count = m.count /\ DOMAIN o.got \subseteq o.requested
      /\ o.requested \subseteq 1..m.count
  <2>1. CASE k \in DOMAIN Unexpired
    <3>1. k \in DOMAIN transfers /\ Unexpired[k] = transfers[k]
      BY <2>1, UnexpiredShape
    <3>2. o = transfers[k] /\ transfers[k].count = m.count
      BY <2>1, <3>1 DEF Opened, Inconsistent
    <3> QED BY <3>1, <3>2 DEF Progressing
  <2>2. CASE k \notin DOMAIN Unexpired
    <3>1. o = [got |-> <<>>, count |-> m.count, requested |-> {}]
      BY <2>2 DEF Opened
    <3> HIDE DEF o
    <3> QED BY <3>1, NoBlocks
  <2> QED BY <2>1, <2>2
<1> HIDE DEF o, t
<1>4. DOMAIN t.got \subseteq t.requested /\ t.requested \subseteq 1..t.count /\ t.count = m.count
  BY <1>1, <1>2, <1>3
<1>5. t.count \in Nat
  BY <1>1, PagedBounds DEF Transfer
<1>6. IsFiniteSet(1..t.count) /\ Cardinality(1..t.count) = t.count
  <2>1. 1 \in Int /\ t.count \in Int
    BY <1>5
  <2>2. /\ IsFiniteSet(1..t.count)
        /\ Cardinality(1..t.count) = IF 1 > t.count THEN 0 ELSE t.count - 1 + 1
    BY <2>1, FS_Interval
  <2> QED BY <1>5, <2>2
<1>7. DOMAIN t.got \in SUBSET (1..t.count)
  BY <1>4
<1>8. /\ IsFiniteSet(DOMAIN t.got) /\ Cardinality(DOMAIN t.got) <= Cardinality(1..t.count)
      /\ Cardinality(1..t.count) = Cardinality(DOMAIN t.got) => 1..t.count = DOMAIN t.got
  BY <1>6, <1>7, FS_Subset
<1>9. Cardinality(DOMAIN t.got) \in Nat
  BY <1>8, FS_CardinalityType
<1>10. IsWhole(t) <=> DOMAIN t.got = 1..t.count
  BY <1>5, <1>6, <1>8, <1>9 DEF IsWhole
<1> QED BY <1>1, <1>4, <1>10 DEF o, t

-----------------------------------------------------------------------------
(* Sessions.                                                               *)

Stamped == \A m \in Elems(inbox) : m.session = session
SameSession ==
    \A r \in Live : r.key \in DOMAIN transfers =>
       \A b \in DOMAIN transfers[r.key].got : transfers[r.key].got[b] = session
WholeInventory ==
    ~inventory.raw => /\ DOMAIN inventory.got = 1..inventory.count
                      /\ \A b \in DOMAIN inventory.got : inventory.got[b] = session

LEMMA OfOneSessionParts == OfOneSession <=> Stamped /\ SameSession /\ WholeInventory
BY DEF OfOneSession, Stamped, SameSession, WholeInventory

\* The keys that are asked for are those of before, with the same blocks.
LEMMA SameSessionKept ==
  ASSUME SameSession, session' = session,
         \A r \in Live' : r.key \in DOMAIN transfers' =>
            \E s \in Live : /\ s.key = r.key /\ r.key \in DOMAIN transfers
                            /\ transfers'[r.key] = transfers[r.key]
  PROVE  SameSession'
BY DEF SameSession

\* What the actions outside the dispatcher do to the requests of a transfer.
LEMMA KeysKept ==
  ASSUME TypeOK, Numbered,
         Read \/ TrySendNext \/ DeadlineExpired \/ ReplyTimeout \/ BackoffEnds
         \/ PanelAnswers \/ PanelIgnores \/ TableChanges \/ Elapse \/ LinkLost
         \/ OnDisconnected \/ Close \/ OtherMessage \/ UNCHANGED vars
  PROVE  \A r \in Live' : r.key \in DOMAIN transfers' =>
            \E s \in Live : /\ s.key = r.key /\ r.key \in DOMAIN transfers
                            /\ transfers'[r.key] = transfers[r.key]
<1>1. CASE Read
  <2> DEFINE n == Request(nextSeq, 1, NoKey)
  <2>1. queue' = Append(queue, n) /\ UNCHANGED <<active, backoff, transfers>>
    BY <1>1 DEF Read, blocks
  <2>2. 1 \in 1..MaxCount /\ NoKey \in Nat
    BY PagedBounds DEF NoKey
  <2>3. n \in Req /\ n.key = NoKey
    BY <2>2, NewRequest DEF Request
  <2> HIDE DEF n
  <2>4. Live' = Live \cup {n}
    BY <2>1, <2>3, Appended DEF Live, Queued
  <2>5. NoKey \notin DOMAIN transfers
    BY DEF Numbered, NoKey
  <2> QED BY <2>1, <2>3, <2>4, <2>5
<1>2. CASE TrySendNext
  <2>1. /\ Head(queue) \in Queued /\ UNCHANGED <<backoff, transfers>>
        /\ active' = {Sent} /\ Queued' \subseteq Queued
        /\ Sent.key = nextKey \/ Sent.key = Head(queue).key
    BY <1>2, SentShape
  <2>2. Head(queue) \in Live /\ \A r \in Live' : r = Sent \/ r \in Live
    BY <2>1 DEF Live
  <2>3. nextKey \notin DOMAIN transfers
    BY NumbersTyped DEF Numbered
  <2> QED BY <2>1, <2>2, <2>3
<1>3. CASE DeadlineExpired
  <2>1. queue # <<>> /\ queue' = Tail(queue) /\ UNCHANGED <<active, backoff, transfers>>
    BY <1>3 DEF DeadlineExpired, blocks
  <2>2. Queued' \subseteq Queued
    BY <2>1, Taken DEF Queued
  <2>3. Live' \subseteq Live
    BY <2>1, <2>2 DEF Live
  <2> QED BY <2>1, <2>3
<1>4. CASE ReplyTimeout
  <2>1. PICK r \in active : \/ backoff' = backoff \cup {[r EXCEPT !.attempt = @ + 1]}
                            \/ UNCHANGED backoff
    BY <1>4 DEF ReplyTimeout
  <2>2. active' = {} /\ UNCHANGED <<queue, transfers>>
    BY <1>4 DEF ReplyTimeout
  <2> DEFINE a == [r EXCEPT !.attempt = @ + 1]
  <2>3. r \in Live /\ a.key = r.key
    BY NumbersTyped DEF Live, Req
  <2> HIDE DEF a
  <2>4. Live' \subseteq Live \cup {a}
    BY <2>1, <2>2 DEF Live, Queued, a
  <2> QED BY <2>2, <2>3, <2>4
<1>5. CASE BackoffEnds
  <2>1. PICK r \in backoff :
          /\ backoff' = backoff \ {r}
          /\ queue' = Append(queue, r) \/ queue' = queue
    BY <1>5 DEF BackoffEnds
  <2>2. UNCHANGED <<active, transfers>>
    BY <1>5 DEF BackoffEnds, blocks
  <2>3. r \in Req
    BY DEF TypeOK
  <2>4. Queued' \subseteq Queued \cup {r}
    BY <2>1, <2>3, Appended DEF Queued
  <2>5. Live' \subseteq Live
    BY <2>1, <2>2, <2>4 DEF Live
  <2> QED BY <2>2, <2>5
<1>6. CASE PanelAnswers \/ PanelIgnores \/ TableChanges \/ Elapse \/ LinkLost \/ UNCHANGED vars
  <2>1. UNCHANGED <<queue, active, backoff, transfers>>
    BY <1>6 DEF PanelAnswers, PanelIgnores, TableChanges, Elapse, LinkLost, vars, sched, blocks
  <2>2. Live' = Live
    BY <2>1 DEF Live, Queued
  <2> QED BY <2>1, <2>2
<1>7. CASE OnDisconnected \/ Close
  <2>1. queue' = <<>> /\ active' = {} /\ backoff' = {}
    BY <1>7 DEF OnDisconnected, Close, AbortRequests
  <2>2. Live' = {}
    BY <2>1, ElemsEmpty DEF Live, Queued
  <2> QED BY <2>2
<1>8. CASE OtherMessage
  <2>1. UNCHANGED <<queue, active, backoff>> /\ transfers' = Unexpired
    BY <1>8 DEF OtherMessage, sched
  <2>2. Live' = Live
    BY <2>1 DEF Live, Queued
  <2>3. \A j \in DOMAIN Unexpired : j \in DOMAIN transfers /\ Unexpired[j] = transfers[j]
    BY UnexpiredShape
  <2> QED BY <2>1, <2>2, <2>3
<1> QED BY <1>1, <1>2, <1>3, <1>4, <1>5, <1>6, <1>7, <1>8

\* A connection begins with one request, whose key is none.
LEMMA ConnectShape ==
  ASSUME TypeOK, Numbered, Emptied, Connect
  PROVE  /\ wire' = <<>> /\ inbox' = <<>> /\ inventory' = NoInventory /\ troubles' = {}
         /\ Live' = {Request(nextSeq, 1, NoKey)} /\ active' = {}
         /\ transfers' = transfers /\ stalled' = stalled /\ NoKey \notin DOMAIN transfers
         /\ \A r \in Live' : r.key = NoKey
         /\ Live = {}
<1>1. /\ link # "up" /\ inbox = <<>> /\ queue = <<>> /\ active = {} /\ backoff = {} /\ wire = <<>>
  BY DEF Connect, Emptied
<1>2. /\ queue' = Append(queue, Request(nextSeq, 1, NoKey)) /\ inventory' = NoInventory
      /\ troubles' = {}
      /\ UNCHANGED <<active, backoff, transfers, wire, inbox, stalled>>
  BY DEF Connect, panel
<1>3. 1 \in 1..MaxCount /\ NoKey \in Nat
  BY PagedBounds DEF NoKey
<1>4. Elems(queue) = {} /\ Queued = {}
  BY <1>1, ElemsEmpty DEF Queued
<1>5. Queued' = {Request(nextSeq, 1, NoKey)}
  <2>1. Request(nextSeq, 1, NoKey) \in Req
    BY <1>3, NewRequest
  <2> QED BY <1>2, <1>4, <2>1, Appended DEF Queued
<1>6. Request(nextSeq, 1, NoKey).key = NoKey
  BY DEF Request
<1>7. NoKey \notin DOMAIN transfers
  BY DEF Numbered, NoKey
<1> QED BY <1>1, <1>2, <1>4, <1>5, <1>6, <1>7 DEF Live

\* The requests that a message leaves, and the one it may ask for.
LEMMA DispatchLive ==
  ASSUME TypeOK, Numbered, inbox # <<>>, NEW m, Received(m)
  PROVE  /\ queue' = NotRetried(m.seq) => Live' = {r \in Live : r.seq # m.seq}
         /\ \A t, k : Transfer(t) /\ k \in Nat /\ RequestNext(t, k, NotRetried(m.seq)) =>
               \/ /\ NextBlocks(t) # {} /\ link = "up" /\ stalled' = stalled
                  /\ Live' = {r \in Live : r.seq # m.seq}
                                \cup {Request(nextSeq, First(NextBlocks(t)), k)}
               \/ /\ NextBlocks(t) = {} /\ stalled' = stalled
                  /\ Live' = {r \in Live : r.seq # m.seq}
               \/ /\ link # "up" /\ stalled' = stalled \cup {k}
                  /\ Live' = {r \in Live : r.seq # m.seq}
<1>1. queue' = NotRetried(m.seq) => Live' = {r \in Live : r.seq # m.seq}
  BY LeftAlone
<1>2. ASSUME NEW t, NEW k \in Nat, Transfer(t), RequestNext(t, k, NotRetried(m.seq))
      PROVE  \/ /\ NextBlocks(t) # {} /\ link = "up" /\ stalled' = stalled
                /\ Live' = {r \in Live : r.seq # m.seq}
                              \cup {Request(nextSeq, First(NextBlocks(t)), k)}
             \/ /\ NextBlocks(t) = {} /\ stalled' = stalled
                /\ Live' = {r \in Live : r.seq # m.seq}
             \/ /\ link # "up" /\ stalled' = stalled \cup {k}
                /\ Live' = {r \in Live : r.seq # m.seq}
  <2>1. CASE NextBlocks(t) = {}
    BY <1>1, <1>2, <2>1 DEF RequestNext
  <2>2. CASE NextBlocks(t) # {}
    <3> DEFINE n == Request(nextSeq, First(NextBlocks(t)), k)
    <3>1. RequestBlock(NotRetried(m.seq), First(NextBlocks(t)), k)
      BY <1>2, <2>2 DEF RequestNext
    <3>2. CASE link = "up"
      <4>1. queue' = Append(NotRetried(m.seq), n) /\ stalled' = stalled
        BY <3>1, <3>2 DEF RequestBlock
      <4>2. n \in Req
        BY <1>2, <2>2, NextIsMissing, NewRequest
      <4> HIDE DEF n
      <4>3. Queued' = {r \in Queued : r.seq # m.seq} \cup {n}
        BY <4>1, <4>2, Unretried, ElemsAppend DEF Queued
      <4>4. Live' = {r \in Live : r.seq # m.seq} \cup {n}
        BY <4>3, LeftAlone
      <4> QED BY <2>2, <3>2, <4>1, <4>4 DEF n
    <3>3. CASE link # "up"
      <4>1. queue' = NotRetried(m.seq) /\ GiveUp(Request(nextSeq, First(NextBlocks(t)), k))
        BY <3>1, <3>3 DEF RequestBlock
      <4>2. Request(nextSeq, First(NextBlocks(t)), k).key = k
        BY DEF Request
      <4>3. stalled' = stalled \cup {k}
        BY <4>1, <4>2 DEF GiveUp
      <4> QED BY <1>1, <3>3, <4>1, <4>3
    <3> QED BY <3>2, <3>3
  <2> QED BY <2>1, <2>2
<1> QED BY <1>1, <1>2

LEMMA OfOneSessionInit == Init => OfOneSession
<1> SUFFICES ASSUME Init PROVE OfOneSession
  OBVIOUS
<1>1. Elems(queue) = {} /\ Elems(inbox) = {} /\ inventory.got = <<>> /\ inventory.count = 0
  BY ElemsEmpty DEF Init, NoInventory
<1>2. DOMAIN inventory.got = {} /\ 1..inventory.count = {}
  BY <1>1, NoBlocks
<1> QED BY <1>1, <1>2 DEF Init, OfOneSession, Live, Queued

LEMMA StampedStep ==
  ASSUME TypeOK, Numbered, Emptied, Stamped, [Next]_vars
  PROVE  Stamped'
<1>1. CASE Connect
  BY <1>1, ConnectShape, ElemsEmpty DEF Stamped
<1>2. CASE PanelAnswers
  BY <1>2, AnswerShape DEF Stamped
<1>3. CASE Dispatch
  BY <1>3, DispatchShape, ReceivedShape DEF Stamped
<1>4. CASE UNCHANGED vars
  BY <1>4 DEF vars, panel, Stamped
<1>5. CASE Read \/ TrySendNext \/ DeadlineExpired \/ ReplyTimeout \/ BackoffEnds
           \/ PanelIgnores \/ TableChanges \/ OtherMessage \/ Elapse
           \/ LinkLost \/ OnDisconnected \/ Close
  <2>1. inbox' = inbox /\ session' = session
    BY <1>5 DEF Read, TrySendNext, DeadlineExpired, ReplyTimeout, BackoffEnds, PanelIgnores,
                TableChanges, OtherMessage, Elapse, LinkLost, OnDisconnected, Close, panel
  <2> QED BY <2>1 DEF Stamped
<1> QED BY <1>1, <1>2, <1>3, <1>4, <1>5 DEF Next

\* A block that is filed is of the session of the others.
LEMMA FiledStamped ==
  ASSUME TypeOK, Numbered, Correlated, Stamped, SameSession,
         NEW m \in Elems(inbox), m \in Message, NEW k \in KeyOf(m)
  PROVE  \A b \in DOMAIN Filed(Opened(m, k), m).got : Filed(Opened(m, k), m).got[b] = session
<1> DEFINE o == Opened(m, k)
           t == Filed(o, m)
<1>1. /\ DOMAIN t.got = DOMAIN o.got \cup {m.block} /\ t.got[m.block] = m.session
      /\ \A b \in DOMAIN o.got : b # m.block => t.got[b] = o.got[b]
  BY FiledTyped
<1>2. m.session = session
  BY DEF Stamped
<1>3. PICK a \in Live : a.key = k
  <2>1. m \in Carried
    BY DEF Carried
  <2> QED BY <2>1, Answered
<1>4. \A b \in DOMAIN o.got : o.got[b] = session
  <2>1. CASE k \in DOMAIN Unexpired
    <3>1. k \in DOMAIN transfers /\ o = transfers[k]
      BY <2>1, UnexpiredShape DEF Opened
    <3> QED BY <1>3, <3>1 DEF SameSession
  <2>2. CASE k \notin DOMAIN Unexpired
    <3>1. o = [got |-> <<>>, count |-> m.count, requested |-> {}]
      BY <2>2 DEF Opened
    <3> HIDE DEF o
    <3> QED BY <3>1, NoBlocks
  <2> QED BY <2>1, <2>2
<1> HIDE DEF o, t
<1>5. \A b \in DOMAIN t.got : t.got[b] = session
  BY <1>1, <1>2, <1>4
<1> QED BY <1>5 DEF o, t

LEMMA SameSessionStep ==
  ASSUME TypeOK, Numbered, Correlated, Emptied, Stamped, SameSession, [Next]_vars
  PROVE  SameSession'
<1>1. CASE Connect
  <2>1. \A r \in Live' : r.key \notin DOMAIN transfers'
    BY <1>1, ConnectShape
  <2> QED BY <2>1 DEF SameSession
<1>2. CASE Dispatch
  <2> DEFINE m == Head(inbox)
  <2>1. inbox # <<>> /\ Received(m)
    BY <1>2, DispatchShape
  <2>2. m \in Message /\ m \in Elems(inbox) /\ m \in Carried /\ session' = session
    BY <2>1, ReceivedShape
  <2>3. CASE /\ queue' = NotRetried(m.seq)
             /\ \A j \in DOMAIN transfers' : j \in DOMAIN transfers /\ transfers'[j] = transfers[j]
    <3>1. Live' \subseteq Live
      BY <2>1, <2>3, LeftAlone
    <3> QED BY <2>2, <2>3, <3>1, SameSessionKept
  <2>4. ASSUME NEW k \in KeyOf(m), RequestNext(Filed(Opened(m, k), m), k, NotRetried(m.seq)),
               Keep(Filed(Opened(m, k), m), k)
        PROVE  SameSession'
    <3> DEFINE t == Filed(Opened(m, k), m)
               n == Request(nextSeq, First(NextBlocks(t)), k)
    <3>1. Transfer(t) /\ \A b \in DOMAIN t.got : t.got[b] = session
      BY <2>2, FiledTyped, FiledStamped
    <3>2. PICK a \in Live : a.key = k
      BY <2>2, Answered
    <3>3. k \in Nat
      BY <2>1, TypeReceived
    <3>4. Live' \subseteq Live \cup {n} /\ n.key = k
      <4>1. RequestNext(t, k, NotRetried(m.seq))
        BY <2>4
      <4>2. n.key = k
        BY DEF Request
      <4> HIDE DEF m, t
      <4> QED BY <2>1, <3>1, <3>3, <4>1, <4>2, DispatchLive
    <3>5. Asked(t).got = t.got
      BY <3>1, AskedTyped
    <3>6. \A j \in DOMAIN transfers' :
             \/ j # k /\ j \in DOMAIN transfers /\ transfers'[j] = transfers[j]
             \/ j = k /\ transfers'[j] = Asked(t)
      BY <2>4, KeepShape
    <3> HIDE DEF m, t, n
    <3>7. \A r \in Live' : \E s \in Live : s.key = r.key
      BY <3>2, <3>4
    <3> SUFFICES ASSUME NEW r \in Live', r.key \in DOMAIN transfers',
                        NEW b \in DOMAIN transfers'[r.key].got
                 PROVE  transfers'[r.key].got[b] = session
      BY <2>2 DEF SameSession
    <3>8. CASE r.key = k /\ transfers'[r.key] = Asked(t)
      BY <3>1, <3>5, <3>8
    <3>9. CASE r.key \in DOMAIN transfers /\ transfers'[r.key] = transfers[r.key]
      BY <3>7, <3>9 DEF SameSession
    <3> QED BY <3>6, <3>8, <3>9
  <2> HIDE DEF m
  <2>5. \/ /\ queue' = NotRetried(m.seq)
           /\ \A j \in DOMAIN transfers' : j \in DOMAIN transfers /\ transfers'[j] = transfers[j]
        \/ \E k \in KeyOf(m) : /\ RequestNext(Filed(Opened(m, k), m), k, NotRetried(m.seq))
                               /\ Keep(Filed(Opened(m, k), m), k)
    BY <1>2, PlainShape DEF m
  <2> QED BY <2>3, <2>4, <2>5
<1>3. CASE Read \/ TrySendNext \/ DeadlineExpired \/ ReplyTimeout \/ BackoffEnds
           \/ PanelAnswers \/ PanelIgnores \/ TableChanges \/ Elapse \/ LinkLost
           \/ OnDisconnected \/ Close \/ OtherMessage \/ UNCHANGED vars
  <2>1. session' = session
    BY <1>3 DEF Read, TrySendNext, DeadlineExpired, ReplyTimeout, BackoffEnds, PanelAnswers,
                PanelIgnores, TableChanges, OtherMessage, Elapse, LinkLost, OnDisconnected,
                Close, vars
  <2> QED BY <1>3, <2>1, KeysKept, SameSessionKept
<1> QED BY <1>1, <1>2, <1>3 DEF Next

LEMMA WholeInventoryStep ==
  ASSUME TypeOK, Numbered, Correlated, Emptied, Progressing, Stamped, SameSession,
         WholeInventory, [Next]_vars
  PROVE  WholeInventory'
<1>1. CASE Connect
  <2>1. inventory'.got = <<>> /\ inventory'.count = 0
    BY <1>1, ConnectShape DEF NoInventory
  <2>2. DOMAIN inventory'.got = {} /\ 1..inventory'.count = {}
    BY <2>1, NoBlocks
  <2> QED BY <2>2 DEF WholeInventory
<1>2. CASE Dispatch
  <2> DEFINE m == Head(inbox)
  <2>1. inbox # <<>> /\ Received(m)
    BY <1>2, DispatchShape
  <2>2. m \in Message /\ m \in Elems(inbox) /\ session' = session
    BY <2>1, ReceivedShape
  <2>3. CASE inventory' = inventory \/ inventory'.raw
    BY <2>2, <2>3 DEF WholeInventory
  <2>4. ASSUME NEW k \in KeyOf(m), InRange(m), ~Inconsistent(m, k),
               Keep(Filed(Opened(m, k), m), k)
        PROVE  WholeInventory'
    <3> DEFINE t == Filed(Opened(m, k), m)
    <3>1. \/ /\ IsWhole(t)
             /\ inventory' = [got |-> t.got, count |-> t.count, raw |-> FALSE]
          \/ ~IsWhole(t) /\ inventory' = inventory
      BY <2>4, KeepShape
    <3>2. IsWhole(t) <=> DOMAIN t.got = 1..t.count
      BY <2>2, <2>4, FiledFits
    <3>3. \A b \in DOMAIN t.got : t.got[b] = session
      BY <2>2, FiledStamped
    <3> HIDE DEF m, t
    <3> QED BY <2>2, <3>1, <3>2, <3>3 DEF WholeInventory
  <2> HIDE DEF m
  <2>5. \/ inventory' = inventory \/ inventory'.raw
        \/ \E k \in KeyOf(m) : /\ InRange(m) /\ ~Inconsistent(m, k)
                               /\ Keep(Filed(Opened(m, k), m), k)
    BY <1>2, PlainShape DEF m
  <2> QED BY <2>3, <2>4, <2>5
<1>3. CASE Read \/ TrySendNext \/ DeadlineExpired \/ ReplyTimeout \/ BackoffEnds
           \/ PanelAnswers \/ PanelIgnores \/ TableChanges \/ Elapse \/ LinkLost
           \/ OnDisconnected \/ Close \/ OtherMessage \/ UNCHANGED vars
  <2>1. session' = session /\ inventory' = inventory
    BY <1>3 DEF Read, TrySendNext, DeadlineExpired, ReplyTimeout, BackoffEnds, PanelAnswers,
                PanelIgnores, TableChanges, OtherMessage, Elapse, LinkLost, OnDisconnected,
                Close, blocks, vars
  <2> QED BY <2>1 DEF WholeInventory
<1> QED BY <1>1, <1>2, <1>3 DEF Next

-----------------------------------------------------------------------------
(* The requests of a transfer.                                             *)

\* What Progressing says of one transfer.
Goes(t, k) ==
    /\ DOMAIN t.got # {} /\ DOMAIN t.got \subseteq t.requested
    /\ t.requested \subseteq 1..t.count /\ DOMAIN t.got # 1..t.count
    /\ k \notin stalled =>
          /\ t.requested # DOMAIN t.got
          /\ \A b \in t.requested \ DOMAIN t.got : \E r \in Live : r.key = k /\ r.block = b

LEMMA ProgressingParts == Progressing <=> \A k \in DOMAIN transfers : Goes(transfers[k], k)
BY DEF Progressing, Goes

\* A transfer goes on while the requests for its missing blocks do.
LEMMA GoesOn ==
  ASSUME NEW k \in DOMAIN transfers, Goes(transfers[k], k),
         transfers'[k] = transfers[k], k \in stalled => k \in stalled',
         \A r \in Live : \/ \E s \in Live' : s.key = r.key /\ s.block = r.block
                         \/ r.key # k \/ k \in stalled'
                         \/ r.block \in DOMAIN transfers[k].got
  PROVE  Goes(transfers[k], k)'
BY DEF Goes

\* A request that leaves gives way to the like, or its transfer is stalled.
LEMMA GoesTogether ==
  ASSUME Progressing, stalled \subseteq stalled',
         \A k \in DOMAIN transfers' : k \in DOMAIN transfers /\ transfers'[k] = transfers[k],
         \A r \in Live : \/ \E s \in Live' : s.key = r.key /\ s.block = r.block
                         \/ r.key \notin DOMAIN transfers' \/ r.key \in stalled'
                         \/ r.block \in DOMAIN transfers[r.key].got
  PROVE  Progressing'
<1>1. ASSUME NEW k \in DOMAIN transfers' PROVE Goes(transfers[k], k)'
  BY ProgressingParts, GoesOn
<1>2. \A k \in DOMAIN transfers' : Goes(transfers[k], k)'
  BY <1>1
<1>3. Progressing' <=> \A k \in DOMAIN transfers' : Goes(transfers[k], k)'
  BY DEF Progressing, Goes
<1> QED BY <1>2, <1>3

LEMMA ProgressingAsking ==
  TypeOK /\ Numbered /\ Emptied /\ Progressing /\ (Connect \/ Read) => Progressing'
<1> SUFFICES ASSUME TypeOK, Numbered, Emptied, Progressing, Connect \/ Read PROVE Progressing'
  OBVIOUS
<1>1. /\ queue' = Append(queue, Request(nextSeq, 1, NoKey))
      /\ UNCHANGED <<active, backoff, transfers, stalled>>
  BY DEF Connect, Read, blocks
<1>2. Request(nextSeq, 1, NoKey) \in Req
  <2>1. 1 \in 1..MaxCount /\ NoKey \in Nat
    BY PagedBounds DEF NoKey
  <2> QED BY <2>1, NewRequest
<1>3. Live \subseteq Live'
  BY <1>1, <1>2, Appended DEF Live, Queued
<1> QED BY <1>1, <1>3, GoesTogether

LEMMA ProgressingScheduler ==
  TypeOK /\ Numbered /\ Correlated /\ Progressing
     /\ (TrySendNext \/ DeadlineExpired \/ ReplyTimeout \/ BackoffEnds) => Progressing'
<1> SUFFICES ASSUME TypeOK, Numbered, Correlated, Progressing,
                    TrySendNext \/ DeadlineExpired \/ ReplyTimeout \/ BackoffEnds
             PROVE  Progressing'
  OBVIOUS
<1>1. CASE TrySendNext
  <2> DEFINE h == Head(queue)
  <2>1. /\ Queued = Queued' \cup {h} /\ active = {} /\ active' = {Sent}
        /\ Sent.block = h.block /\ (h.key # NoKey => Sent.key = h.key)
        /\ UNCHANGED <<backoff, transfers>>
    BY <1>1, SentShape
  <2>2. stalled' = stalled
    BY <1>1 DEF TrySendNext
  <2>3. NoKey \notin DOMAIN transfers
    BY DEF Numbered, NoKey
  <2> HIDE DEF h
  <2>4. \A r \in Live : r = h \/ r \in Live'
    BY <2>1 DEF Live
  <2>5. Sent \in Live'
    BY <2>1 DEF Live
  <2> QED BY <2>1, <2>2, <2>3, <2>4, <2>5, GoesTogether
<1>2. CASE DeadlineExpired
  <2>1. /\ queue # <<>> /\ queue' = Tail(queue) /\ UNCHANGED <<active, backoff, transfers>>
        /\ stalled' = stalled \cup {Head(queue).key}
    BY <1>2 DEF DeadlineExpired, GiveUp, blocks
  <2>2. Queued = Queued' \cup {Head(queue)}
    BY <2>1, Taken DEF Queued
  <2>3. \A r \in Live : r = Head(queue) \/ r \in Live'
    BY <2>1, <2>2 DEF Live
  <2> QED BY <2>1, <2>3, GoesTogether
<1>3. CASE ReplyTimeout
  <2>1. PICK r \in active :
          \/ backoff' = backoff \cup {[r EXCEPT !.attempt = @ + 1]} /\ stalled' = stalled
          \/ stalled' = stalled \cup {r.key} /\ backoff' = backoff
    BY <1>3 DEF ReplyTimeout, GiveUp
  <2>2. active' = {} /\ UNCHANGED <<queue, transfers>>
    BY <1>3 DEF ReplyTimeout
  <2>3. \A s \in active : s = r
    BY DEF Correlated
  <2> DEFINE a == [r EXCEPT !.attempt = @ + 1]
  <2>4. a.key = r.key /\ a.block = r.block
    BY NumbersTyped DEF Live, Req
  <2> HIDE DEF a
  <2>5. Queued' = Queued
    BY <2>2 DEF Queued
  <2>6. \A s \in Live : s = r \/ s \in Live'
    BY <2>1, <2>2, <2>3, <2>5 DEF Live
  <2>7. a \in Live' \/ r.key \in stalled'
    BY <2>1 DEF Live, a
  <2>8. stalled \subseteq stalled'
    BY <2>1
  <2> QED BY <2>2, <2>4, <2>6, <2>7, <2>8, GoesTogether
<1>4. CASE BackoffEnds
  <2>1. PICK r \in backoff :
          /\ backoff' = backoff \ {r}
          /\ \/ queue' = Append(queue, r) /\ stalled' = stalled
             \/ stalled' = stalled \cup {r.key} /\ queue' = queue
    BY <1>4 DEF BackoffEnds, GiveUp
  <2>2. UNCHANGED <<active, transfers>>
    BY <1>4 DEF BackoffEnds, blocks
  <2>3. r \in Req
    BY DEF TypeOK
  <2>4. \/ Queued' = Queued \cup {r} /\ stalled' = stalled
        \/ Queued' = Queued /\ stalled' = stalled \cup {r.key}
    BY <2>1, <2>3, Appended DEF Queued
  <2>5. \A s \in Live : s \in Live' \/ s.key \in stalled'
    BY <2>1, <2>2, <2>4 DEF Live
  <2>6. stalled \subseteq stalled'
    BY <2>4
  <2> QED BY <2>2, <2>5, <2>6, GoesTogether
<1> QED BY <1>1, <1>2, <1>3, <1>4

LEMMA ProgressingEnds ==
  TypeOK /\ Progressing
     /\ (PanelAnswers \/ PanelIgnores \/ TableChanges \/ Elapse \/ LinkLost \/ OnDisconnected
         \/ Close \/ OtherMessage \/ UNCHANGED vars) => Progressing'
<1> SUFFICES ASSUME TypeOK, Progressing,
                    \/ PanelAnswers \/ PanelIgnores \/ TableChanges \/ Elapse \/ LinkLost
                       \/ OnDisconnected \/ Close \/ OtherMessage
                    \/ UNCHANGED vars
             PROVE  Progressing'
  OBVIOUS
<1>1. CASE PanelAnswers \/ PanelIgnores \/ TableChanges \/ Elapse \/ LinkLost \/ UNCHANGED vars
  <2>1. UNCHANGED <<queue, active, backoff, transfers, stalled>>
    BY <1>1 DEF PanelAnswers, PanelIgnores, TableChanges, Elapse, LinkLost, vars, sched, blocks
  <2>2. Live' = Live
    BY <2>1 DEF Live, Queued
  <2> QED BY <2>1, <2>2, GoesTogether
<1>2. CASE OtherMessage
  <2>1. UNCHANGED <<queue, active, backoff, stalled>> /\ transfers' = Unexpired
    BY <1>2 DEF OtherMessage, sched
  <2>2. Live' = Live
    BY <2>1 DEF Live, Queued
  <2>3. \A k \in DOMAIN transfers' : k \in DOMAIN transfers /\ transfers'[k] = transfers[k]
    BY <2>1, UnexpiredShape
  <2> QED BY <2>1, <2>2, <2>3, GoesTogether
<1>3. CASE OnDisconnected
  <2>1. DOMAIN transfers' = {}
    BY <1>3, NoBlocks DEF OnDisconnected
  <2> QED BY <2>1 DEF Progressing
<1>4. CASE Close
  <2>1. transfers' = transfers /\ stalled' = stalled \cup DOMAIN transfers
    BY <1>4 DEF Close
  <2> QED BY <2>1, GoesTogether
<1> QED BY <1>1, <1>2, <1>3, <1>4

\* The transfer of a block that is filed.
LEMMA FiledGoesOn ==
  ASSUME TypeOK, Numbered, Correlated, Progressing, inbox # <<>>, NEW m, Received(m),
         NEW k \in KeyOf(m), InRange(m), ~Inconsistent(m, k),
         m.block \notin DOMAIN Opened(m, k).got,
         RequestNext(Filed(Opened(m, k), m), k, NotRetried(m.seq)),
         ~IsWhole(Filed(Opened(m, k), m)),
         k \in DOMAIN transfers', transfers'[k] = Asked(Filed(Opened(m, k), m))
  PROVE  Goes(transfers[k], k)'
<1> DEFINE o == Opened(m, k)
           t == Filed(o, m)
           u == Asked(t)
           b == First(NextBlocks(t))
           n == Request(nextSeq, b, k)
<1>1. m \in Message /\ m \in Carried
  BY ReceivedShape
<1>2. /\ Transfer(t) /\ t.requested = o.requested \cup {m.block}
      /\ DOMAIN t.got = DOMAIN o.got \cup {m.block}
  BY <1>1, FiledTyped
<1>3. /\ m.block \in DOMAIN t.got /\ DOMAIN t.got \subseteq t.requested
      /\ t.requested \subseteq 1..t.count
      /\ IsWhole(t) <=> DOMAIN t.got = 1..t.count
  BY <1>1, FiledFits
<1>4. /\ u.got = t.got /\ u.count = t.count
      /\ u.requested = IF NextBlocks(t) # {} /\ link = "up"
                       THEN t.requested \cup {b} ELSE t.requested
  BY <1>2, AskedTyped
<1>5. NextBlocks(t) # {} => b \in 1..t.count /\ b \notin DOMAIN t.got
  BY <1>2, NextIsMissing
<1>6. k \in Nat
  BY TypeReceived
<1>7. \/ /\ NextBlocks(t) # {} /\ link = "up" /\ stalled' = stalled
         /\ Live' = {r \in Live : r.seq # m.seq} \cup {n}
      \/ /\ NextBlocks(t) = {} /\ stalled' = stalled
         /\ Live' = {r \in Live : r.seq # m.seq}
      \/ /\ link # "up" /\ stalled' = stalled \cup {k}
         /\ Live' = {r \in Live : r.seq # m.seq}
  BY <1>2, <1>6, DispatchLive
<1>8. n.key = k /\ n.block = b
  BY DEF Request
<1>9. \A r \in Live : r.seq = m.seq => r.block = m.block
  BY <1>1 DEF Correlated
<1>10. k \notin stalled =>
          \A c \in o.requested \ DOMAIN o.got : \E r \in Live : r.key = k /\ r.block = c
  <2>1. CASE k \in DOMAIN Unexpired
    <3>1. k \in DOMAIN transfers /\ o = transfers[k]
      BY <2>1, UnexpiredShape DEF Opened
    <3> QED BY <3>1 DEF Progressing
  <2>2. CASE k \notin DOMAIN Unexpired
    <3>1. o.requested = {}
      BY <2>2 DEF Opened
    <3> QED BY <3>1
  <2> QED BY <2>1, <2>2
<1>11. NextBlocks(t) = {} => 1..t.count \subseteq t.requested
  BY <1>3 DEF NextBlocks
<1>12. transfers'[k] = u /\ ~IsWhole(t) /\ m.block \notin DOMAIN o.got
  OBVIOUS
<1> HIDE DEF o, t, u, b, n
<1>13. /\ DOMAIN u.got # {} /\ DOMAIN u.got \subseteq u.requested
       /\ u.requested \subseteq 1..u.count /\ DOMAIN u.got # 1..u.count
  BY <1>3, <1>4, <1>5, <1>12
<1>14. ASSUME k \notin stalled'
       PROVE  /\ u.requested # DOMAIN u.got
              /\ \A c \in u.requested \ DOMAIN u.got : \E r \in Live' : r.key = k /\ r.block = c
  <2>1. k \notin stalled /\ (NextBlocks(t) # {} => link = "up")
    BY <1>7, <1>14
  <2>2. u.requested # DOMAIN u.got
    <3>1. CASE NextBlocks(t) = {}
      BY <1>3, <1>4, <1>11, <1>12, <3>1
    <3>2. CASE NextBlocks(t) # {}
      BY <1>4, <1>5, <2>1, <3>2
    <3> QED BY <3>1, <3>2
  <2>3. ASSUME NEW c \in u.requested \ DOMAIN u.got
        PROVE  \E r \in Live' : r.key = k /\ r.block = c
    <3>1. CASE c \in t.requested
      <4>1. c \in o.requested \ DOMAIN o.got /\ c # m.block
        BY <1>2, <1>4, <2>3, <3>1
      <4>2. PICK r \in Live : r.key = k /\ r.block = c
        BY <1>10, <2>1, <4>1
      <4>3. r.seq # m.seq
        BY <1>9, <4>1, <4>2
      <4> QED BY <1>7, <4>2, <4>3
    <3>2. CASE c \notin t.requested
      <4>1. c = b /\ NextBlocks(t) # {} /\ link = "up"
        BY <1>4, <2>3, <3>2
      <4> QED BY <1>7, <1>8, <4>1
    <3> QED BY <3>1, <3>2
  <2> QED BY <2>2, <2>3
<1> QED BY <1>12, <1>13, <1>14 DEF Goes

LEMMA ProgressingDispatch ==
  TypeOK /\ Numbered /\ Correlated /\ Progressing /\ Dispatch => Progressing'
<1> SUFFICES ASSUME TypeOK, Numbered, Correlated, Progressing, Dispatch PROVE Progressing'
  OBVIOUS
<1> DEFINE m == Head(inbox)
<1>1. inbox # <<>> /\ Received(m)
  BY DispatchShape
<1>2. m \in Message /\ m \in Carried /\ backoff' \subseteq backoff
  BY <1>1, ReceivedShape
<1>3. \A k \in KeyOf(m) : \A r \in Live : r.seq = m.seq => r.key = k /\ r.block = m.block
  BY <1>2, Answered
<1>4. /\ \A j \in DOMAIN Unexpired : j \in DOMAIN transfers /\ Unexpired[j] = transfers[j]
      /\ \A k : \A j \in DOMAIN Ended(k) : j # k /\ j \in DOMAIN transfers /\ Ended(k)[j] = transfers[j]
  BY UnexpiredShape
<1>5. queue' = NotRetried(m.seq) => \A r \in Live : r \in Live' \/ r.seq = m.seq
  BY <1>1, LeftAlone
<1> HIDE DEF m
<1>6. CASE Unsolicited
  <2>1. /\ KeyOf(m) = {} /\ queue' = NotRetried(m.seq) /\ transfers' = Unexpired
        /\ stalled' = stalled \cup Dropped(m.seq)
    BY <1>6 DEF Unsolicited, m
  <2>2. \A r \in Live : r.seq = m.seq => r.key \in Dropped(m.seq)
    BY <1>2, <2>1, Answered DEF Live, Dropped
  <2> QED BY <1>4, <1>5, <2>1, <2>2, GoesTogether
<1>7. CASE Denied \/ Mismatch
  <2>1. PICK k \in KeyOf(m) : transfers' = Ended(k)
    BY <1>7 DEF Denied, Mismatch, m
  <2>2. queue' = NotRetried(m.seq) /\ stalled' = stalled
    BY <1>7 DEF Denied, Mismatch, m
  <2> QED BY <1>3, <1>4, <1>5, <2>1, <2>2, GoesTogether
<1>8. CASE Malformed
  <2>1. PICK k \in KeyOf(m) : stalled' = stalled \cup {k}
    BY <1>8 DEF Malformed, m
  <2>2. queue' = NotRetried(m.seq) /\ transfers' = Unexpired
    BY <1>8 DEF Malformed, m
  <2> QED BY <1>3, <1>4, <1>5, <2>1, <2>2, GoesTogether
<1>9. CASE File
  <2>1. PICK k \in KeyOf(m) :
          /\ InRange(m) /\ ~Inconsistent(m, k)
          /\ IF m.block \in DOMAIN Opened(m, k).got
             THEN /\ transfers' = Unexpired /\ queue' = NotRetried(m.seq)
                  /\ UNCHANGED <<inventory, nextSeq, stalled>>
             ELSE /\ RequestNext(Filed(Opened(m, k), m), k, NotRetried(m.seq))
                  /\ Keep(Filed(Opened(m, k), m), k)
    BY <1>9 DEF File, m
  <2>2. CASE m.block \in DOMAIN Opened(m, k).got
    <3>1. k \in DOMAIN Unexpired => m.block \in DOMAIN transfers[k].got
      BY <1>4, <2>2 DEF Opened
    <3>2. transfers' = Unexpired /\ queue' = NotRetried(m.seq) /\ stalled' = stalled
      BY <2>1, <2>2
    <3> QED BY <1>3, <1>4, <1>5, <3>1, <3>2, GoesTogether
  <2>3. CASE m.block \notin DOMAIN Opened(m, k).got
    <3> DEFINE t == Filed(Opened(m, k), m)
    <3>1. RequestNext(t, k, NotRetried(m.seq)) /\ Keep(t, k)
      BY <2>1, <2>3
    <3>2. Transfer(t) /\ k \in Nat
      BY <1>1, <1>2, FiledTyped, TypeReceived
    <3>3. \A j \in DOMAIN transfers' :
             \/ j # k /\ j \in DOMAIN transfers /\ transfers'[j] = transfers[j]
             \/ j = k /\ ~IsWhole(t) /\ transfers'[j] = Asked(t)
      BY <3>1, KeepShape
    <3>4. (k \in DOMAIN transfers' => Goes(transfers[k], k)')
      BY <1>1, <2>1, <2>3, <3>1, <3>3, FiledGoesOn
    <3> HIDE DEF t
    <3>5. /\ \A r \in Live : r \in Live' \/ r.seq = m.seq
          /\ stalled \subseteq stalled'
          /\ stalled' \subseteq stalled \cup {k}
      BY <1>1, <3>1, <3>2, DispatchLive
    <3>6. ASSUME NEW j \in DOMAIN transfers', j # k PROVE Goes(transfers[j], j)'
      <4>1. j \in DOMAIN transfers /\ transfers'[j] = transfers[j]
        BY <3>3, <3>6
      <4>2. Goes(transfers[j], j)
        BY <4>1, ProgressingParts
      <4>3. \A r \in Live : r \in Live' \/ r.key # j
        BY <1>3, <3>5, <3>6
      <4> QED BY <3>5, <4>1, <4>2, <4>3, GoesOn
    <3>7. \A j \in DOMAIN transfers' : Goes(transfers[j], j)'
      BY <3>4, <3>6
    <3>8. Progressing' <=> \A j \in DOMAIN transfers' : Goes(transfers[j], j)'
      BY DEF Progressing, Goes
    <3> QED BY <3>7, <3>8
  <2> QED BY <2>2, <2>3
<1> QED BY <1>6, <1>7, <1>8, <1>9 DEF Dispatch

-----------------------------------------------------------------------------
(* One message at a time.                                                  *)

\* What holds as long as nothing was late, changed or closed.
OneAtATime ==
    /\ wire = <<>> \/ inbox = <<>>
    /\ Len(wire) <= 1 /\ Len(inbox) <= 1
    /\ \A m \in Carried : \E r \in active : r.seq = m.seq
    /\ \A m \in Elems(inbox) : m.count = size

SizeIsKnown ==
    \A r \in Live : r.key \in DOMAIN transfers => transfers[r.key].count = size

LEMMA PromptParts == Prompt <=> Excused \/ (OneAtATime /\ SizeIsKnown /\ ~inventory.raw)
BY DEF Prompt, OneAtATime, SizeIsKnown

LEMMA EmptySequences ==
  ASSUME TypeOK
  PROVE  /\ Elems(wire) = {} => wire = <<>>
         /\ Elems(inbox) = {} => inbox = <<>>
         /\ Len(wire) \in Nat /\ Len(inbox) \in Nat
         /\ Len(wire) <= 0 => wire = <<>>
         /\ Len(inbox) <= 0 => inbox = <<>>
         /\ \A f : Append(wire, f) # <<>> /\ Len(Append(wire, f)) = Len(wire) + 1
         /\ \A f : Append(inbox, f) # <<>> /\ Len(Append(inbox, f)) = Len(inbox) + 1
         /\ Len(<<>>) = 0
<1>1. wire \in Seq(Frame) /\ inbox \in Seq(Message)
  BY DEF TypeOK
<1>2. wire # <<>> => 1 \in 1..Len(wire)
  BY <1>1
<1>3. inbox # <<>> => 1 \in 1..Len(inbox)
  BY <1>1
<1>4. /\ Elems(wire) = {} => wire = <<>>
      /\ Elems(inbox) = {} => inbox = <<>>
  BY <1>2, <1>3 DEF Elems
<1>5. /\ Len(wire) \in Nat /\ Len(inbox) \in Nat
      /\ Len(wire) <= 0 => wire = <<>>
      /\ Len(inbox) <= 0 => inbox = <<>>
  BY <1>1, <1>2, <1>3
<1>6. /\ \A f : Append(wire, f) # <<>> /\ Len(Append(wire, f)) = Len(wire) + 1
      /\ \A f : Append(inbox, f) # <<>> /\ Len(Append(inbox, f)) = Len(inbox) + 1
  <2> SUFFICES ASSUME NEW f
               PROVE  /\ Append(wire, f) # <<>> /\ Len(Append(wire, f)) = Len(wire) + 1
                      /\ Append(inbox, f) # <<>> /\ Len(Append(inbox, f)) = Len(inbox) + 1
    OBVIOUS
  <2>1. wire \in Seq(Frame \cup {f}) /\ inbox \in Seq(Message \cup {f}) /\ f \in Frame \cup {f} /\ f \in Message \cup {f}
    BY <1>1
  <2>2. Len(Append(wire, f)) = Len(wire) + 1 /\ Len(Append(inbox, f)) = Len(inbox) + 1
    BY <2>1
  <2>3. Len(Append(wire, f)) # 0 /\ Len(Append(inbox, f)) # 0
    BY <1>5, <2>2
  <2> QED BY <2>2, <2>3
<1> QED BY <1>4, <1>5, <1>6

LEMMA PromptInit == Init => Prompt
<1> SUFFICES ASSUME Init PROVE Prompt
  OBVIOUS
<1>1. /\ wire = <<>> /\ inbox = <<>> /\ Elems(wire) = {} /\ Elems(inbox) = {} /\ Queued = {}
      /\ active = {} /\ backoff = {} /\ ~inventory.raw
  BY ElemsEmpty DEF Init, NoInventory, Queued
<1>2. Len(wire) <= 1 /\ Len(inbox) <= 1
  BY <1>1
<1> QED BY <1>1, <1>2 DEF Prompt, Carried, Live

\* The requests of a transfer of known size stay those.
LEMMA SizeStays ==
  ASSUME SizeIsKnown, size' = size,
         \A r \in Live' : r.key \in DOMAIN transfers' =>
            \E s \in Live : /\ s.key = r.key /\ r.key \in DOMAIN transfers
                            /\ transfers'[r.key] = transfers[r.key]
  PROVE  SizeIsKnown'
BY DEF SizeIsKnown

LEMMA PromptAsking ==
  TypeOK /\ Numbered /\ Emptied /\ Prompt /\ (Connect \/ Read) => Prompt'
<1> SUFFICES ASSUME TypeOK, Numbered, Emptied, Prompt, Connect \/ Read PROVE Prompt'
  OBVIOUS
<1>1. CASE Connect
  <2>1. /\ wire' = <<>> /\ inbox' = <<>> /\ inventory' = NoInventory
        /\ \A r \in Live' : r.key \notin DOMAIN transfers'
    BY <1>1, ConnectShape
  <2>2. Elems(wire') = {} /\ Elems(inbox') = {} /\ ~inventory'.raw
    BY <2>1, ElemsEmpty DEF NoInventory
  <2>3. Len(wire') <= 1 /\ Len(inbox') <= 1
    BY <2>1
  <2> QED BY <2>1, <2>2, <2>3 DEF Prompt, Carried
<1>2. CASE Read
  <2>1. UNCHANGED <<active, wire, inbox, size, inventory, troubles>>
    BY <1>2 DEF Read, blocks, panel
  <2>2. SizeIsKnown => SizeIsKnown'
    BY <1>2, <2>1, KeysKept, SizeStays
  <2> QED BY <2>1, <2>2, PromptParts DEF Prompt, Excused, OneAtATime, SizeIsKnown, Carried
<1> QED BY <1>1, <1>2

LEMMA PromptSending ==
  TypeOK /\ Numbered /\ Prompt /\ TrySendNext => Prompt'
<1> SUFFICES ASSUME TypeOK, Numbered, Prompt, TrySendNext, ~Excused PROVE Prompt'
  BY DEF TrySendNext, Prompt, Excused
<1> DEFINE f == [seq |-> Sent.seq, block |-> Sent.block]
<1>1. /\ active = {} /\ active' = {Sent} /\ wire' = Append(wire, f)
      /\ Elems(wire') = Elems(wire) \cup {f} /\ inbox' = inbox
  BY SentShape
<1>2. UNCHANGED <<size, inventory>>
  BY DEF TrySendNext
<1>3. OneAtATime /\ SizeIsKnown /\ ~inventory.raw
  BY PromptParts
<1>4. Carried = {}
  BY <1>1, <1>3 DEF OneAtATime
<1>5. f.seq = Sent.seq
  OBVIOUS
<1> HIDE DEF f
<1>6. wire = <<>> /\ inbox = <<>> /\ inbox' = <<>>
  BY <1>1, <1>4, EmptySequences DEF Carried
<1>7. Len(wire') <= 1 /\ Len(inbox') <= 1
  BY <1>1, <1>6, EmptySequences
<1>8. Carried' = {f} /\ Elems(inbox') = {}
  BY <1>1, <1>4 DEF Carried
<1>9. SizeIsKnown'
  BY <1>2, <1>3, KeysKept, SizeStays
<1>10. OneAtATime'
  BY <1>1, <1>5, <1>6, <1>7, <1>8 DEF OneAtATime
<1> QED BY <1>2, <1>3, <1>9, <1>10 DEF Prompt, OneAtATime, SizeIsKnown

LEMMA PromptPanel ==
  TypeOK /\ Numbered /\ Prompt /\ (PanelAnswers \/ PanelIgnores) => Prompt'
<1> SUFFICES ASSUME TypeOK, Numbered, Prompt, PanelAnswers \/ PanelIgnores, ~Excused PROVE Prompt'
  BY DEF PanelAnswers, PanelIgnores, Prompt, Excused
<1>1. OneAtATime /\ SizeIsKnown /\ ~inventory.raw
  BY PromptParts
<1>2. UNCHANGED <<active, size, inventory>>
  BY DEF PanelAnswers, PanelIgnores, sched, blocks
<1>3. SizeIsKnown'
  BY <1>1, <1>2, KeysKept, SizeStays
<1>4. /\ wire # <<>> /\ wire' = Tail(wire) /\ wire \in Seq(Frame)
  BY DEF PanelAnswers, PanelIgnores, TypeOK
<1>5. /\ Len(wire') = Len(wire) - 1 /\ Len(wire) \in Nat /\ wire' \in Seq(Frame)
      /\ Elems(wire) = Elems(wire') \cup {Head(wire)}
  BY <1>4, ElemsHeadTail
<1>6. inbox = <<>> /\ Len(wire') <= 0
  BY <1>1, <1>4, <1>5 DEF OneAtATime
<1>7. wire' = <<>>
  BY <1>5, <1>6
<1>8. CASE PanelAnswers
  <2>1. PICK m : /\ m.seq = Head(wire).seq /\ m.count = size
                 /\ inbox' = Append(inbox, m) /\ Elems(inbox') = Elems(inbox) \cup {m}
    BY <1>8, AnswerShape
  <2>2. Elems(inbox') = {m} /\ Carried' = {m}
    BY <1>6, <1>7, <2>1, ElemsEmpty DEF Carried
  <2>3. Len(inbox') <= 1 /\ Len(wire') <= 1
    BY <1>6, <1>7, <2>1, EmptySequences
  <2>4. \E r \in active : r.seq = m.seq
    BY <1>1, <1>5, <2>1 DEF OneAtATime, Carried
  <2>5. OneAtATime'
    BY <1>2, <1>7, <2>1, <2>2, <2>3, <2>4 DEF OneAtATime
  <2> QED BY <1>1, <1>2, <1>3, <2>5 DEF Prompt, OneAtATime, SizeIsKnown
<1>9. CASE PanelIgnores
  <2>1. inbox' = <<>>
    BY <1>6, <1>9 DEF PanelIgnores
  <2>2. Elems(inbox') = {} /\ Carried' = {} /\ Len(inbox') <= 1 /\ Len(wire') <= 1
    BY <1>7, <2>1, ElemsEmpty, EmptySequences DEF Carried
  <2>3. OneAtATime'
    BY <1>7, <2>1, <2>2 DEF OneAtATime
  <2> QED BY <1>1, <1>2, <1>3, <2>3 DEF Prompt, OneAtATime, SizeIsKnown
<1> QED BY <1>8, <1>9

LEMMA PromptDispatch ==
  TypeOK /\ Numbered /\ Correlated /\ Progressing /\ Prompt /\ Dispatch => Prompt'
<1> SUFFICES ASSUME TypeOK, Numbered, Correlated, Progressing, Prompt, Dispatch PROVE Prompt'
  OBVIOUS
<1> DEFINE m == Head(inbox)
<1>1. inbox # <<>> /\ Received(m)
  BY DispatchShape
<1>2. /\ m \in Message /\ m \in Elems(inbox) /\ m \in Carried
      /\ Elems(inbox') \subseteq Elems(inbox) /\ Len(inbox') = Len(inbox) - 1
      /\ UNCHANGED <<wire, size, troubles>>
  BY <1>1, ReceivedShape
<1>3. inbox' = Tail(inbox) /\ inbox' \in Seq(Message)
  BY <1>1, Arrived DEF Received
<1> SUFFICES ASSUME ~Excused PROVE Prompt'
  BY <1>2 DEF Prompt, Excused
<1>4. OneAtATime /\ SizeIsKnown /\ ~inventory.raw
  BY PromptParts
<1>5. wire' = <<>> /\ Len(inbox') <= 0
  BY <1>1, <1>2, <1>4, EmptySequences DEF OneAtATime
<1>6. inbox' = <<>>
  BY <1>3, <1>5
<1>7. Carried' = {} /\ Elems(inbox') = {} /\ Len(wire') <= 1 /\ Len(inbox') <= 1
  BY <1>5, <1>6, ElemsEmpty DEF Carried
<1>8. OneAtATime'
  BY <1>5, <1>7 DEF OneAtATime
<1>9. m.count = size
  BY <1>2, <1>4 DEF OneAtATime
<1>10. KeyOf(m) # {}
  BY <1>2, <1>4, Answered DEF OneAtATime
<1>11. \A k \in KeyOf(m) : \E a \in Live : a.key = k
  BY <1>2, Answered
<1> HIDE DEF m
<1>12. \A k \in KeyOf(m) : ~Inconsistent(m, k)
  <2>1. \A k \in DOMAIN Unexpired : k \in DOMAIN transfers /\ Unexpired[k] = transfers[k]
    BY UnexpiredShape
  <2> QED BY <1>4, <1>9, <1>11, <2>1 DEF SizeIsKnown, Inconsistent
<1>13. ~Unsolicited /\ ~Mismatch
  BY <1>10, <1>12 DEF Unsolicited, Mismatch, m
<1>14. ~inventory'.raw
  <2>1. CASE Denied \/ Malformed
    <3>1. inventory' = inventory
      BY <2>1 DEF Denied, Malformed
    <3> QED BY <1>4, <3>1
  <2>2. CASE File
    <3>1. inventory' = inventory \/ \E t, k : Keep(t, k)
      BY <2>2 DEF File
    <3>2. \A t, k : Keep(t, k) => inventory' = inventory \/ ~inventory'.raw
      <4>1. ASSUME NEW t, NEW k, Keep(t, k) PROVE inventory' = inventory \/ ~inventory'.raw
        <5>1. inventory' = inventory \/ inventory' = [got |-> t.got, count |-> t.count, raw |-> FALSE]
          BY <4>1, KeepShape
        <5> QED BY <5>1
      <4> QED BY <4>1
    <3> QED BY <1>4, <3>1, <3>2
  <2> QED BY <1>13, <2>1, <2>2 DEF Dispatch
<1>15. SizeIsKnown'
  <2>1. CASE /\ queue' = NotRetried(m.seq)
             /\ \A j \in DOMAIN transfers' : j \in DOMAIN transfers /\ transfers'[j] = transfers[j]
    <3>1. Live' \subseteq Live
      BY <1>1, <2>1, LeftAlone
    <3> QED BY <1>2, <1>4, <2>1, <3>1, SizeStays
  <2>2. ASSUME NEW k \in KeyOf(m), InRange(m),
               RequestNext(Filed(Opened(m, k), m), k, NotRetried(m.seq)),
               Keep(Filed(Opened(m, k), m), k)
        PROVE  SizeIsKnown'
    <3> DEFINE t == Filed(Opened(m, k), m)
               n == Request(nextSeq, First(NextBlocks(t)), k)
    <3>1. Transfer(t) /\ t.count = m.count
      BY <1>2, <1>12, <2>2, FiledTyped, FiledFits
    <3>2. RequestNext(t, k, NotRetried(m.seq)) /\ k \in Nat
      BY <1>1, <2>2, TypeReceived
    <3>3. n.key = k
      BY DEF Request
    <3>4. \A j \in DOMAIN transfers' :
             \/ j # k /\ j \in DOMAIN transfers /\ transfers'[j] = transfers[j]
             \/ j = k /\ transfers'[j] = Asked(t)
      BY <2>2, KeepShape
    <3>5. Asked(t).count = t.count
      BY <3>1, AskedTyped
    <3> HIDE DEF t, n
    <3>6. Live' \subseteq Live \cup {n}
      BY <1>1, <3>1, <3>2, DispatchLive DEF n
    <3> SUFFICES ASSUME NEW r \in Live', r.key \in DOMAIN transfers'
                 PROVE  transfers'[r.key].count = size'
      BY DEF SizeIsKnown
    <3>7. CASE r.key = k /\ transfers'[r.key] = Asked(t)
      BY <1>2, <1>9, <3>1, <3>5, <3>7
    <3>8. CASE r.key # k /\ r.key \in DOMAIN transfers /\ transfers'[r.key] = transfers[r.key]
      BY <1>2, <1>4, <3>3, <3>6, <3>8 DEF SizeIsKnown
    <3> QED BY <3>4, <3>7, <3>8
  <2>3. \/ /\ queue' = NotRetried(m.seq)
           /\ \A j \in DOMAIN transfers' : j \in DOMAIN transfers /\ transfers'[j] = transfers[j]
        \/ \E k \in KeyOf(m) : /\ InRange(m)
                               /\ RequestNext(Filed(Opened(m, k), m), k, NotRetried(m.seq))
                               /\ Keep(Filed(Opened(m, k), m), k)
    BY PlainShape DEF m
  <2> QED BY <2>1, <2>2, <2>3
<1> QED BY <1>8, <1>14, <1>15 DEF Prompt, OneAtATime, SizeIsKnown

LEMMA PromptStep ==
  TypeOK /\ Numbered /\ Correlated /\ Emptied /\ Progressing /\ Prompt /\ [Next]_vars => Prompt'
<1> SUFFICES ASSUME TypeOK, Numbered, Correlated, Emptied, Progressing, Prompt, [Next]_vars
             PROVE  Prompt'
  OBVIOUS
<1>1. CASE DeadlineExpired \/ ReplyTimeout \/ TableChanges \/ Close
  BY <1>1 DEF DeadlineExpired, ReplyTimeout, TableChanges, Close, Prompt, Excused
<1>2. CASE \/ BackoffEnds \/ OtherMessage \/ Elapse \/ UNCHANGED vars
  <2>1. UNCHANGED <<active, wire, inbox, size, inventory, troubles>>
    BY <1>2 DEF BackoffEnds, OtherMessage, Elapse, vars, sched, blocks, panel
  <2>2. SizeIsKnown => SizeIsKnown'
    BY <1>2, <2>1, KeysKept, SizeStays
  <2> QED BY <2>1, <2>2, PromptParts DEF Prompt, Excused, OneAtATime, SizeIsKnown, Carried
<1>3. CASE LinkLost
  <2>1. /\ UNCHANGED <<active, inbox, size, inventory>> /\ wire' = <<>>
        /\ troubles \subseteq troubles'
    BY <1>3 DEF LinkLost, sched, blocks
  <2>2. SizeIsKnown => SizeIsKnown'
    BY <1>3, <2>1, KeysKept, SizeStays
  <2>3. Elems(wire') = {} /\ Len(wire') <= 1
    BY <2>1, ElemsEmpty
  <2>4. Carried' \subseteq Carried
    BY <2>1, <2>3 DEF Carried
  <2>5. OneAtATime => OneAtATime'
    BY <2>1, <2>3, <2>4 DEF OneAtATime
  <2>6. Excused => Excused'
    BY <2>1 DEF Excused
  <2> QED BY <2>1, <2>2, <2>5, <2>6, PromptParts DEF Prompt, OneAtATime, SizeIsKnown
<1>4. CASE OnDisconnected
  <2>1. /\ wire' = <<>> /\ inbox' = <<>> /\ UNCHANGED <<size, inventory, troubles>>
    BY <1>4 DEF OnDisconnected, panel, Emptied
  <2>2. SizeIsKnown => SizeIsKnown'
    BY <1>4, <2>1, KeysKept, SizeStays
  <2>3. Elems(wire') = {} /\ Len(wire') <= 1 /\ Elems(inbox') = {} /\ Len(inbox') <= 1
    BY <2>1, ElemsEmpty
  <2>4. OneAtATime'
    BY <2>1, <2>3 DEF OneAtATime, Carried
  <2> QED BY <2>1, <2>2, <2>4, PromptParts DEF Prompt, Excused, OneAtATime, SizeIsKnown
<1>5. CASE Connect \/ Read \/ TrySendNext \/ PanelAnswers \/ PanelIgnores \/ Dispatch
  BY <1>5, PromptAsking, PromptSending, PromptPanel, PromptDispatch
<1> QED BY <1>1, <1>2, <1>3, <1>4, <1>5 DEF Next

-----------------------------------------------------------------------------
(* The theorems.                                                           *)

Inv == TypeOK /\ Numbered /\ Correlated /\ Emptied /\ OfOneSession /\ Progressing /\ Prompt

\* Every action of the transfers keeps the inductive invariant: who holds
\* which number, what the gate and the dispatcher agree on, which session
\* things belong to, and which request a transfer waits for.
THEOREM InvHolds == Spec => []Inv
<1>1. Init => Inv
  <2>1. Init => Emptied /\ Progressing
    BY NoBlocks DEF Init, Emptied, Progressing
  <2> QED BY <2>1, TypeInit, NumberedInit, CorrelatedInit, OfOneSessionInit, PromptInit DEF Inv
<1>2. Inv /\ [Next]_vars => Inv'
  <2> SUFFICES ASSUME Inv, [Next]_vars PROVE Inv'
    OBVIOUS
  <2>1. /\ TypeOK /\ Numbered /\ Correlated /\ Emptied /\ Progressing /\ Prompt
        /\ Stamped /\ SameSession /\ WholeInventory
    BY OfOneSessionParts DEF Inv
  <2>2. TypeOK' /\ Numbered' /\ Correlated' /\ Emptied' /\ Prompt'
    BY <2>1, TypeStep, NumberedStep, CorrelatedStep, EmptiedStep, PromptStep
  <2>3. Stamped' /\ SameSession' /\ WholeInventory'
    BY <2>1, StampedStep, SameSessionStep, WholeInventoryStep
  <2>4. OfOneSession'
    BY <2>3 DEF OfOneSession, Stamped, SameSession, WholeInventory
  <2>5. Progressing'
    BY <2>1, ProgressingAsking, ProgressingScheduler, ProgressingEnds, ProgressingDispatch
       DEF Next
  <2> QED BY <2>2, <2>4, <2>5 DEF Inv
<1> QED BY <1>1, <1>2, PTL DEF Spec

\* The dispatcher's and the scheduler's state keep their types, with blocks and
\* attempts within their bounds.
THEOREM TypeCorrect == Spec => []TypeOK
<1>1. Inv => TypeOK
  BY DEF Inv
<1> QED BY <1>1, InvHolds, PTL

\* A table that the dispatcher put together has all its blocks, of one
\* session: the present one, for a table of any size.
THEOREM AssemblesWholes == Spec => []AssembledWhole
<1>1. Inv => AssembledWhole
  BY DEF Inv, OfOneSession, AssembledWhole
<1> QED BY <1>1, InvHolds, PTL

\* A transfer that did not stall has a request for a block that it misses.
THEOREM TransfersGoOn == Spec => []TransferGoesOn
<1>1. Inv => TransferGoesOn
  <2> SUFFICES ASSUME Inv, NEW k \in DOMAIN transfers \ stalled
               PROVE  \E r \in Live : r.key = k /\ r.block \notin DOMAIN transfers[k].got
    BY DEF TransferGoesOn
  <2>1. Goes(transfers[k], k)
    BY ProgressingParts DEF Inv
  <2>2. PICK b \in transfers[k].requested : b \notin DOMAIN transfers[k].got
    BY <2>1 DEF Goes
  <2> QED BY <2>1, <2>2 DEF Goes
<1> QED BY <1>1, InvHolds, PTL

\* A single block is stored for the table only after a timeout, a change of
\* the table's size or a close.
THEOREM PartialsAreLate == Spec => []PartialIsLate
<1>1. Inv => PartialIsLate
  BY DEF Inv, Prompt, Excused, PartialIsLate
<1> QED BY <1>1, InvHolds, PTL

=============================================================================
