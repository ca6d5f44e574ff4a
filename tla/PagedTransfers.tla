--------------------------- MODULE PagedTransfers ---------------------------
(***************************************************************************)
(* Reading a table of the panel block by block (area.get_configured): the   *)
(* dispatcher collects the blocks of a transfer, asks for the next one, and *)
(* hands the whole to the handler, which replaces the inventory by it       *)
(* (dispatcher_loop.py, features/area.py, handlers/area.py).                *)
(*                                                                         *)
(* The requests go through the kernel's scheduler together with commands    *)
(* that are left out here: one of ours takes the gate when its turn comes.  *)
(* RequestPipeline has the details.  A block is its number, stamped with    *)
(* the session that asked for it.  A key is its transfer_id: the panel may  *)
(* give the same session_id twice.                                          *)
(***************************************************************************)
EXTENDS Integers, FiniteSets, Functions, Queues

CONSTANTS
    MaxCount,     \* blocks the panel's table takes at most, and at first
    MaxRetries,   \* _request_max_retries
    MaxReads,     \* bound: reads, by a connection or the application
    MaxFaults,    \* bound: frames the panel ignores or refuses, changes of its
                  \* table's size
    MaxElapses    \* bound: times a transfer is left alone for its timeout

ASSUME PagedBounds ==
    /\ MaxCount \in Nat \ {0} /\ MaxRetries \in Nat
    /\ MaxReads \in Nat /\ MaxFaults \in Nat
    /\ MaxElapses \in Nat

VARIABLES
    link,       \* "up", "lost" (on_disconnected is posted), "down" or "closed"
    session,    \* connections made so far
    queue,      \* our requests in _request_queue_normal
    active,     \* ours that holds the gate, if any
    backoff,    \* ours whose retry timer runs
    pending,    \* Dispatcher._pending: seq and opaque
    transfers,  \* Dispatcher._paged_transfers, by key
    stale,      \* the transfers whose timeout has passed
    inventory,  \* what the handler stored last
    nextSeq,    \* E27Kernel._seq
    nextKey,    \* _next_transfer_id
    wire,       \* request frames before the panel
    inbox,      \* received messages posted to the loop
    size,       \* blocks the panel's table takes now
    stalled,    \* history: keys whose request ended without its block
    troubles,   \* history: what went wrong in this session
    reads, faults, elapses

sched   == <<queue, active, backoff>>
blocks  == <<pending, transfers, stale, inventory>>
counter == <<nextSeq, nextKey>>
panel   == <<wire, inbox, size>>
bounds  == <<reads, faults, elapses>>
vars == <<link, session, sched, blocks, counter, panel, stalled, troubles, bounds>>

NoKey == 0

\* _QueuedRequest, as far as it differs between ours.
Request(s, b, k) == [seq |-> s, block |-> b, key |-> k, attempt |-> 0]

Queued == Elems(queue)
Live   == Queued \cup active \cup backoff

Extend(f, k, v) == [x \in DOMAIN f \cup {k} |-> IF x = k THEN v ELSE f[x]]

\* What was stored, by block: the session that asked for it.  raw: the handler
\* got a message that was not assembled.
NoInventory == [got |-> <<>>, count |-> 0, raw |-> FALSE]

Req   == [seq : Nat, block : 1..MaxCount, key : Nat, attempt : 0..MaxRetries]
Frame == [seq : Nat, block : 1..MaxCount]
Message == [seq : Nat, kind : {"block", "bad", "denied"}, block : 1..MaxCount,
            count : 1..MaxCount, session : Nat]

\* Blocks by their numbers.
Blocks(got) == /\ got = [b \in DOMAIN got |-> got[b]]
               /\ DOMAIN got \subseteq 1..MaxCount /\ \A b \in DOMAIN got : got[b] \in Nat

Transfer(t) == /\ t = [got |-> t.got, count |-> t.count, requested |-> t.requested]
               /\ Blocks(t.got) /\ t.count \in 1..MaxCount /\ t.requested \subseteq 1..MaxCount

TypeOK ==
    /\ link \in {"up", "lost", "down", "closed"} /\ session \in Nat
    /\ queue \in Seq(Req) /\ active \subseteq Req /\ backoff \subseteq Req
    /\ pending \subseteq [seq : Nat, key : Nat]
    /\ transfers = [k \in DOMAIN transfers |-> transfers[k]] /\ DOMAIN transfers \subseteq Nat
    /\ \A k \in DOMAIN transfers : Transfer(transfers[k])
    /\ stale \subseteq DOMAIN transfers
    /\ inventory = [got |-> inventory.got, count |-> inventory.count, raw |-> inventory.raw]
    /\ Blocks(inventory.got) /\ inventory.count \in 0..MaxCount /\ inventory.raw \in BOOLEAN
    /\ nextSeq \in Nat \ {0} /\ nextKey \in Nat \ {0}
    /\ wire \in Seq(Frame) /\ inbox \in Seq(Message) /\ size \in 1..MaxCount
    /\ stalled \subseteq Nat
    /\ troubles \subseteq {"late", "changed", "refused", "lost", "closed"}
    /\ reads \in Nat /\ faults \in Nat /\ elapses \in Nat

Init ==
    /\ link = "closed" /\ session = 0
    /\ queue = <<>> /\ active = {} /\ backoff = {}
    /\ pending = {} /\ transfers = <<>> /\ stale = {} /\ inventory = NoInventory
    /\ nextSeq = 1 /\ nextKey = 1
    /\ wire = <<>> /\ inbox = <<>> /\ size = MaxCount
    /\ stalled = {} /\ troubles = {}
    /\ reads = 0 /\ faults = 0 /\ elapses = 0

-----------------------------------------------------------------------------
(* Asking.                                                                 *)

\* Wrong: the transfer ids start again with every connection.
ConnectRestartsKeys ==
    /\ link \in {"down", "closed"} /\ inbox = <<>> /\ reads < MaxReads
    /\ reads' = reads + 1
    /\ link' = "up" /\ session' = session + 1
    /\ inventory' = NoInventory
    /\ queue' = Append(queue, Request(nextSeq, 1, NoKey)) /\ nextSeq' = nextSeq + 1
    /\ nextKey' = 1
    /\ troubles' = {}
    /\ UNCHANGED <<active, backoff, pending, transfers, stale, panel,
                   stalled, faults, elapses>>

\* connect() after the loop ran what was posted before: reset the inventory,
\* _bootstrap_requests asks for block 1.
Connect ==
    /\ link \in {"down", "closed"} /\ inbox = <<>> /\ reads < MaxReads
    /\ reads' = reads + 1
    /\ link' = "up" /\ session' = session + 1
    /\ inventory' = NoInventory
    /\ queue' = Append(queue, Request(nextSeq, 1, NoKey)) /\ nextSeq' = nextSeq + 1
    /\ troubles' = {}
    /\ UNCHANGED <<active, backoff, pending, transfers, stale, nextKey, panel,
                   stalled, faults, elapses>>

\* refresh_domain_config: block 1 again, whatever is under way.
Read ==
    /\ link = "up" /\ reads < MaxReads
    /\ reads' = reads + 1
    /\ queue' = Append(queue, Request(nextSeq, 1, NoKey)) /\ nextSeq' = nextSeq + 1
    /\ UNCHANGED <<link, session, active, backoff, blocks, nextKey, panel,
                   stalled, troubles, faults, elapses>>

\* Wrong: only the first block of a transfer is registered with the dispatcher.
TrySendNextFirstOnly ==
    /\ queue # <<>> /\ active = {} /\ link = "up"
    /\ LET r == Head(queue)
           k == IF r.key = NoKey THEN nextKey ELSE r.key
       IN /\ nextKey' = IF r.key = NoKey THEN nextKey + 1 ELSE nextKey
          /\ active' = {[r EXCEPT !.key = k]}
          /\ pending' = IF r.block = 1 THEN pending \cup {[seq |-> r.seq, key |-> k]}
                                       ELSE pending
          /\ wire' = Append(wire, [seq |-> r.seq, block |-> r.block])
    /\ queue' = Tail(queue)
    /\ UNCHANGED <<link, session, backoff, transfers, stale, inventory, nextSeq,
                   inbox, size, stalled, troubles, bounds>>

\* _try_send_next: the first block opens a transfer; a resend keeps its key.
TrySendNext ==
    /\ queue # <<>> /\ active = {} /\ link = "up"
    /\ LET r == Head(queue)
           k == IF r.key = NoKey THEN nextKey ELSE r.key
       IN /\ nextKey' = IF r.key = NoKey THEN nextKey + 1 ELSE nextKey
          /\ active' = {[r EXCEPT !.key = k]}
          /\ pending' = pending \cup {[seq |-> r.seq, key |-> k]}
          /\ wire' = Append(wire, [seq |-> r.seq, block |-> r.block])
    /\ queue' = Tail(queue)
    /\ UNCHANGED <<link, session, backoff, transfers, stale, inventory, nextSeq,
                   inbox, size, stalled, troubles, bounds>>

\* A request that has used its attempts or its deadline_at: nobody asks again.
GiveUp(r) == stalled' = stalled \cup {r.key}

\* The request whose turn it is is past its deadline.
DeadlineExpired ==
    /\ queue # <<>> /\ active = {} /\ link = "up"
    /\ GiveUp(Head(queue))
    /\ queue' = Tail(queue)
    /\ troubles' = troubles \cup {"late"}
    /\ UNCHANGED <<link, session, active, backoff, blocks, counter, panel, bounds>>

MayRetry(r) == r.attempt < MaxRetries

\* _on_reply_timeout: forget the correlation, and resend after a backoff.
ReplyTimeout ==
    /\ \E r \in active :
          /\ pending' = {p \in pending : p.seq # r.seq}
          /\ \/ /\ MayRetry(r)
                /\ backoff' = backoff \cup {[r EXCEPT !.attempt = @ + 1]}
                /\ UNCHANGED stalled
             \/ GiveUp(r) /\ UNCHANGED backoff
    /\ active' = {}
    /\ troubles' = troubles \cup {"late"}
    /\ UNCHANGED <<link, session, queue, transfers, stale, inventory, counter,
                   panel, bounds>>

\* The backoff ends; past the deadline the request is given up.
BackoffEnds ==
    /\ \E r \in backoff :
          /\ backoff' = backoff \ {r}
          /\ \/ queue' = Append(queue, r) /\ UNCHANGED stalled
             \/ GiveUp(r) /\ UNCHANGED queue
    /\ UNCHANGED <<link, session, active, blocks, counter, panel, troubles, bounds>>

-----------------------------------------------------------------------------
(* The panel.                                                              *)

\* It answers the frames in the order they came: with the block, with an error
\* code that is not an authorization error ("bad": no block_id), or with error
\* 11008 ("denied").  Asked for a block it no longer has, it may name it with
\* its new block_count.
PanelAnswers ==
    /\ link = "up" /\ wire # <<>>
    /\ wire' = Tail(wire)
    /\ \E kind \in {"block", "bad", "denied"} :
          /\ kind = "block" \/ faults < MaxFaults
          /\ faults' = IF kind = "block" THEN faults ELSE faults + 1
          /\ inbox' = Append(inbox, [seq |-> Head(wire).seq, kind |-> kind,
                                     block |-> Head(wire).block, count |-> size,
                                     session |-> session])
          /\ troubles' = IF kind = "block" THEN troubles ELSE troubles \cup {"refused"}
    /\ UNCHANGED <<link, session, sched, blocks, counter, size, stalled, reads,
                   elapses>>

PanelIgnores ==
    /\ link = "up" /\ wire # <<>> /\ faults < MaxFaults
    /\ wire' = Tail(wire) /\ faults' = faults + 1
    /\ UNCHANGED <<link, session, sched, blocks, counter, inbox, size, stalled,
                   troubles, reads, elapses>>

TableChanges ==
    /\ faults < MaxFaults /\ faults' = faults + 1
    /\ \E n \in 1..MaxCount \ {size} : size' = n
    /\ troubles' = troubles \cup {"changed"}
    /\ UNCHANGED <<link, session, sched, blocks, counter, wire, inbox, stalled,
                   reads, elapses>>

-----------------------------------------------------------------------------
(* A message arrives: _on_message and Dispatcher.dispatch.               *)

\* _clear_pending_transport_retry_for_seq: a reply, late or not, ends the retry.
NotRetried(s) == IF \E r \in Queued : r.seq = s
                 THEN Without(queue, CHOOSE r \in Queued : r.seq = s)
                 ELSE queue
Dropped(s) == {r.key : r \in {q \in Queued \cup backoff : q.seq = s}}

\* What every message does: the retry of its seq ends, dispatch expires the
\* stale transfers and takes the correlation, and the gate is released after it.
Received(m) ==
    /\ m = Head(inbox)
    /\ inbox' = Tail(inbox)
    /\ backoff' = {r \in backoff : r.seq # m.seq}
    /\ active' = {r \in active : r.seq # m.seq}
    /\ pending' = {p \in pending : p.seq # m.seq}
    /\ stale' = {}
    /\ UNCHANGED <<link, session, nextKey, wire, size, troubles, bounds>>

\* _expire_paged_transfers.
Unexpired == Restrict(transfers, DOMAIN transfers \ stale)
Ended(k) == Restrict(Unexpired, DOMAIN Unexpired \ {k})

\* The opaque of the request that m answers.
KeyOf(m) == {p.key : p \in {q \in pending : q.seq = m.seq}}

\* The handler is given the message as it came (_reconcile_configured_areas);
\* an error only becomes an event.
HandleRaw(m) ==
    inventory' = IF m.kind = "block"
                 THEN [got |-> [b \in {m.block} |-> m.session], count |-> m.count, raw |-> TRUE]
                 ELSE inventory

\* No request in flight has its seq.
Unsolicited ==
    /\ inbox # <<>>
    /\ LET m == Head(inbox) IN
          /\ KeyOf(m) = {}
          /\ Received(m)
          /\ HandleRaw(m)
          /\ queue' = NotRetried(m.seq)
          /\ stalled' = stalled \cup Dropped(m.seq)
    /\ transfers' = Unexpired
    /\ UNCHANGED nextSeq

\* Error 11008 aborts the transfer.
Denied ==
    /\ inbox # <<>>
    /\ LET m == Head(inbox) IN
          /\ m.kind = "denied"
          /\ \E k \in KeyOf(m) : transfers' = Ended(k)
          /\ Received(m)
          /\ queue' = NotRetried(m.seq)
    /\ UNCHANGED <<nextSeq, inventory, stalled>>

\* Wrong: a block beyond block_count is taken.
InRangeAlways(m) == m.kind = "block"

InRange(m) == m.kind = "block" /\ m.block <= m.count

\* Another error, or a block out of range: a warning, and that was its answer.
Malformed ==
    /\ inbox # <<>>
    /\ LET m == Head(inbox) IN
          /\ m.kind # "denied" /\ ~InRange(m)
          /\ \E k \in KeyOf(m) : stalled' = stalled \cup {k}
          /\ Received(m)
          /\ queue' = NotRetried(m.seq)
    /\ transfers' = Unexpired
    /\ UNCHANGED <<nextSeq, inventory>>

Inconsistent(m, k) == k \in DOMAIN Unexpired /\ Unexpired[k].count # m.count

\* Another block_count than before ends the transfer.
Mismatch ==
    /\ inbox # <<>>
    /\ LET m == Head(inbox) IN
          /\ InRange(m)
          /\ \E k \in KeyOf(m) : Inconsistent(m, k) /\ transfers' = Ended(k)
          /\ Received(m)
          /\ HandleRaw(m)
          /\ queue' = NotRetried(m.seq)
    /\ UNCHANGED <<nextSeq, stalled>>

\* Wrong: the last block is not asked for.
NextBlocksShort(t) == {b \in 1..(t.count - 1) : b \notin DOMAIN t.got \cup t.requested}

\* The blocks that are still to be asked for.
NextBlocks(t) == {b \in 1..t.count : b \notin DOMAIN t.got \cup t.requested}

First(S) == CHOOSE x \in S : \A y \in S : x <= y

\* request_block(b): refused while the session is not ACTIVE.
RequestBlock(q, b, k) ==
    IF link = "up"
    THEN /\ queue' = Append(q, Request(nextSeq, b, k)) /\ nextSeq' = nextSeq + 1
         /\ UNCHANGED stalled
    ELSE /\ queue' = q
         /\ GiveUp(Request(nextSeq, b, k))
         /\ UNCHANGED nextSeq

\* The transfer that m is a block of: the one that is open, or a new one.
Opened(m, k) ==
    IF k \in DOMAIN Unexpired
    THEN Unexpired[k]
    ELSE [got |-> <<>>, count |-> m.count, requested |-> {}]

\* t with the block of m.
Filed(t, m) == [got |-> Extend(t.got, m.block, m.session), count |-> t.count,
                requested |-> t.requested \cup {m.block}]

IsWhole(t) == Cardinality(DOMAIN t.got) >= t.count

\* t after request_block(b) was called for its first missing block.
Asked(t) == [got |-> t.got, count |-> t.count,
             requested |-> IF NextBlocks(t) # {} /\ link = "up"
                           THEN t.requested \cup {First(NextBlocks(t))}
                           ELSE t.requested]

RequestNext(t, k, q) ==
    IF NextBlocks(t) # {}
    THEN RequestBlock(q, First(NextBlocks(t)), k)
    ELSE queue' = q /\ UNCHANGED <<nextSeq, stalled>>

Keep(t, k) ==
    IF IsWhole(t)
    THEN /\ transfers' = Ended(k)
         /\ inventory' = [got |-> t.got, count |-> t.count, raw |-> FALSE]
    ELSE /\ transfers' = Extend(Unexpired, k, Asked(t))
         /\ UNCHANGED inventory

\* A block is filed and the first missing one that nobody asked for is
\* requested; the last one hands the whole to the handler.  A block that was
\* filed before changes nothing.
File ==
    /\ inbox # <<>>
    /\ LET m == Head(inbox) IN
          /\ InRange(m)
          /\ Received(m)
          /\ \E k \in KeyOf(m) :
                LET old == Opened(m, k) IN
                /\ ~Inconsistent(m, k)
                /\ IF m.block \in DOMAIN old.got
                   THEN /\ transfers' = Unexpired /\ queue' = NotRetried(m.seq)
                        /\ UNCHANGED <<inventory, nextSeq, stalled>>
                   ELSE /\ RequestNext(Filed(old, m), k, NotRetried(m.seq))
                        /\ Keep(Filed(old, m), k)

\* A broadcast or the reply of another command: only the expiry concerns us.
OtherMessage ==
    /\ link = "up" /\ stale # {}
    /\ transfers' = Unexpired /\ stale' = {}
    /\ UNCHANGED <<link, session, sched, pending, inventory, counter, panel,
                   stalled, troubles, bounds>>

\* No block was filed for timeout_s.
Elapse ==
    /\ elapses < MaxElapses
    /\ elapses' = elapses + 1
    /\ \E k \in DOMAIN transfers \ stale : stale' = stale \cup {k}
    /\ UNCHANGED <<link, session, sched, pending, transfers, inventory, counter,
                   panel, stalled, troubles, reads, faults>>

-----------------------------------------------------------------------------
(* The session ends.                                                       *)

AbortRequests == queue' = <<>> /\ active' = {} /\ backoff' = {} /\ pending' = {}

\* The receive thread finds the link broken: what it read before is posted.
LinkLost ==
    /\ link = "up"
    /\ link' = "lost" /\ wire' = <<>>
    /\ troubles' = troubles \cup {"lost"}
    /\ UNCHANGED <<session, sched, blocks, counter, inbox, size, stalled, bounds>>

\* _on_session_disconnected, posted behind the last message.
OnDisconnected ==
    /\ link = "lost" /\ inbox = <<>>
    /\ link' = "down"
    /\ AbortRequests
    /\ transfers' = <<>> /\ stale' = {}
    /\ UNCHANGED <<session, inventory, counter, panel, stalled, troubles, bounds>>

\* close(): the transfers are left as they are, nobody will ask for their blocks.
Close ==
    /\ link # "closed"
    /\ link' = "closed" /\ wire' = <<>>
    /\ AbortRequests
    /\ stalled' = stalled \cup DOMAIN transfers
    /\ troubles' = troubles \cup {"closed"}
    /\ UNCHANGED <<session, transfers, stale, inventory, counter, inbox, size, bounds>>

Dispatch == Unsolicited \/ Denied \/ Malformed \/ Mismatch \/ File

Next ==
    \/ Connect \/ Read \/ TrySendNext \/ DeadlineExpired \/ ReplyTimeout \/ BackoffEnds
    \/ PanelAnswers \/ PanelIgnores \/ TableChanges
    \/ Dispatch \/ OtherMessage \/ Elapse
    \/ LinkLost \/ OnDisconnected \/ Close

Spec == Init /\ [][Next]_vars

\* The loop runs what is posted, its timers fire, and a free gate comes to our
\* requests; nothing is assumed of the panel, the link or the application.
FairSpec ==
    /\ Spec
    /\ WF_vars(TrySendNext \/ DeadlineExpired) /\ WF_vars(Dispatch)
    /\ WF_vars(ReplyTimeout) /\ WF_vars(BackoffEnds) /\ WF_vars(OnDisconnected)

-----------------------------------------------------------------------------
(* Why they hold.                                                          *)

Carried == Elems(wire) \cup Elems(inbox)

\* Numbers are not used again: a seq is that of one request, which holds it in
\* one place; a key that is not the panel's yet is not a transfer's.
Numbered ==
    /\ \A r \in Live : r.seq < nextSeq /\ r.key < nextKey
    /\ \A m \in Carried : m.seq < nextSeq
    /\ \A k \in DOMAIN transfers : 0 < k /\ k < nextKey
    /\ Distinct(queue)
    /\ \A r, s \in Live : r.seq = s.seq => r = s
    /\ Queued \cap active = {} /\ Queued \cap backoff = {} /\ active \cap backoff = {}

\* The gate is held by one request, the one that the dispatcher correlates.
Correlated ==
    /\ \A r, s \in active : r = s
    /\ \A r \in active : r.key # NoKey
    /\ pending = {[seq |-> r.seq, key |-> r.key] : r \in active}
    /\ \A m \in Carried, r \in Live : m.seq = r.seq => m.block = r.block

\* Without a session there are no requests, and no frames after its end.
Emptied ==
    /\ link \in {"down", "closed"} => queue = <<>> /\ active = {} /\ backoff = {}
    /\ link # "up" => wire = <<>>

\* What is asked for and what came belongs to one session.
OfOneSession ==
    /\ \A m \in Elems(inbox) : m.session = session
    /\ \A r \in Live : r.key \in DOMAIN transfers =>
          \A b \in DOMAIN transfers[r.key].got : transfers[r.key].got[b] = session
    /\ ~inventory.raw => /\ DOMAIN inventory.got = 1..inventory.count
                         /\ \A b \in DOMAIN inventory.got : inventory.got[b] = session

\* Some block of an open transfer is missing; unless it stalled, one of the
\* missing ones has been asked for, and all that have been have their request.
Progressing ==
    \A k \in DOMAIN transfers :
       LET t == transfers[k]
       IN /\ DOMAIN t.got # {} /\ DOMAIN t.got \subseteq t.requested
          /\ t.requested \subseteq 1..t.count /\ DOMAIN t.got # 1..t.count
          /\ k \notin stalled =>
                /\ t.requested # DOMAIN t.got
                /\ \A b \in t.requested \ DOMAIN t.got :
                      \E r \in Live : r.key = k /\ r.block = b

Excused == troubles \cap {"late", "changed", "closed"} # {}

\* Until then there is one frame or message at a time, that of the active
\* request, and the transfer is of the size that the table has.
Prompt ==
    Excused \/ /\ wire = <<>> \/ inbox = <<>>
               /\ Len(wire) <= 1 /\ Len(inbox) <= 1
               /\ \A m \in Carried : \E r \in active : r.seq = m.seq
               /\ \A m \in Elems(inbox) : m.count = size
               /\ \A r \in Live : r.key \in DOMAIN transfers =>
                     transfers[r.key].count = size
               /\ ~inventory.raw

-----------------------------------------------------------------------------
(* Properties.                                                             *)

\* What the dispatcher assembled is whole: every block 1 to block_count, all
\* asked for in one session, the present one if there is one; whatever expires,
\* is resent or changes its size in between (_maybe_reassemble_paged).
AssembledWhole ==
    ~inventory.raw =>
       /\ DOMAIN inventory.got = 1..inventory.count
       /\ \A b, c \in DOMAIN inventory.got : inventory.got[b] = inventory.got[c]
       /\ link = "up" =>
             \A b \in DOMAIN inventory.got : inventory.got[b] = session

\* A transfer waits for something: as long as no request of it ended without
\* its block, an open transfer has a request for a block it does not have.
TransferGoesOn ==
    \A k \in DOMAIN transfers \ stalled :
       \E r \in Live : r.key = k /\ r.block \notin DOMAIN transfers[k].got

\* The handler is given a single block for the table only after a reply
\* timeout, a change of the table's size or a close: never when the panel
\* answers in time (dispatch, _try_send_next).
PartialIsLate ==
    inventory.raw => troubles \cap {"late", "changed", "closed"} # {}

\* Every connection comes to a whole inventory unless something goes wrong
\* (_bootstrap_requests): transfers that expire under way are no obstacle.
InventoryArrives ==
    link = "up" ~> \/ troubles # {}
                   \/ inventory.count > 0 /\ ~inventory.raw

=============================================================================
