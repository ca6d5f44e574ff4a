------------------------------ MODULE Readiness ------------------------------
(***************************************************************************)
(* When the client is ready: what the panel has configured is read at every *)
(* connect (E27Kernel._bootstrap_requests), the handlers of handlers/area,  *)
(* zone and output fold the replies into PanelState.inventory and emit      *)
(* events, and Elke27Client._handle_kernel_event, which gets them later,    *)
(* asks for the status of every configured item and waits for them all.     *)
(*                                                                         *)
(* Messages, disconnects and events are callbacks posted to one loop, in    *)
(* order.  The receive thread, the panel and the application act between    *)
(* them.  The scheduler is RequestPipeline's; here a request is answered,   *)
(* refused, or left alone for a reply timeout.  The items' attributes and   *)
(* states, and the domains readiness does not ask for, are left out.        *)
(***************************************************************************)
EXTENDS Integers, Sequences, FiniteSets, SequencesExt

CONSTANTS
    Items,         \* by domain, the ids an item may have
    Panels,        \* the inventories the panel may have, by domain
    Streak,        \* invalid_id_streak_threshold
    MaxRetries,    \* _request_max_retries
    MaxSessions,   \* bound: HELLOs
    MaxTroubles    \* bound: requests that are refused (attributes apart) or not answered,
                   \* tables cut short, broadcasts, changes of the panel, the
                   \* application's reads

Domain == {"area", "zone", "output"}

ASSUME ReadinessBounds ==
    /\ Streak \in Nat \ {0} /\ MaxRetries \in Nat
    /\ MaxSessions \in Nat /\ MaxTroubles \in Nat
    /\ DOMAIN Items = Domain
    /\ \A d \in Domain : IsFiniteSet(Items[d]) /\ Items[d] \subseteq Nat \ {0}
    /\ \A p \in Panels : DOMAIN p = Domain /\ \A d \in Domain : p[d] \subseteq Items[d]

VARIABLES
    session,    \* the kernel's Session: "none", "hello", "fresh" (ACTIVE, and
                \* connect() has not gone on yet), "active" or "broken"
    connected,  \* state.panel.connected
    call,       \* the client's call under way: "none", "first" or "second" of the
                \* attempts of async_connect, or "close"
    requests,   \* the requests queued and in flight, in order
    backoff,    \* the requests whose retry timer runs
    posts,      \* callbacks posted to the loop
    inv,        \* state.inventory, by domain
    within,     \* the ids up to table_elements, by domain
    zones,      \* keys of state.zones
    boot,       \* _inventory_ready, _status_pending and _status_ready, by domain
    signalled,  \* _ready_event.is_set()
    wasDown,    \* _last_disconnect_at is not None
    csmCheck,   \* _awaiting_reconnect_csm_check
    panel,      \* what the panel has configured
    asked,      \* history: ids of the inventory the client waits for, by domain
    seen,       \* history: ids whose status came in this session, by domain
    failed,     \* history: requests of this session that ended without a reply
    hellos, troubles

link    == <<session, connected, call>>
sched   == <<requests, backoff>>
tables  == <<inv, within, zones>>
client  == <<boot, signalled, asked>>
checks  == <<wasDown, csmCheck>>
history == <<seen, failed>>
bounds  == <<hellos, troubles>>
vars    == <<link, sched, posts, tables, client, checks, panel, history, bounds>>

-----------------------------------------------------------------------------
\* A request: its route, the item it names (0: none), and the timeouts it has had.
Request(what, d, i) == [what |-> what, dom |-> d, id |-> i, attempt |-> 0]
Requests(what, d, ids) == [k \in 1..Cardinality(ids) |->
                             Request(what, d, SetToSortSeq(ids, <)[k])]

\* A callback of the loop.  Messages are named for their route, flag: no error_code.
Post(kind, d, ids, flag) == [kind |-> kind, dom |-> d, ids |-> ids, flag |-> flag]
Message  == {"table", "configured", "attribs", "status", "bulk"}
Callback == {"disconnected", "connectDone", "closeDone"}
Event    == {"up", "lost", "closed", "inventoryReady", "statusUpdated", "csmUpdated"}

\* The queue after request() of rs: it raises unless the session is ACTIVE, and what
\* calls it here goes on without it.
Queued(rs) == IF session = "active" THEN requests \o rs ELSE requests

NoneKnown   == [configured |-> {}, complete |-> FALSE, streak |-> 0, last |-> 0, max |-> -1]
NothingSeen == [d \in Domain |-> {}]
NotStarted  == [d \in Domain |-> [inventory |-> FALSE, pending |-> {}, status |-> FALSE]]

BootstrapReady(b) == \A d \in Domain : b[d].inventory /\ b[d].status

\* Elke27Client.ready.
Ready == session = "active" /\ BootstrapReady(boot)

TypeOK ==
    /\ session \in {"none", "hello", "fresh", "active", "broken"}
    /\ connected \in BOOLEAN /\ call \in {"none", "first", "second", "close"}
    /\ \A r \in Range(requests) \cup backoff :
          /\ r.what \in Message /\ r.dom \in Domain /\ r.id \in Items[r.dom] \cup {0}
          /\ r.attempt \in 0..MaxRetries
    /\ \A p \in Range(posts) :
          /\ p.kind \in Message \cup Callback \cup Event /\ p.dom \in Domain
          /\ p.ids \subseteq Items[p.dom] /\ p.flag \in BOOLEAN
    /\ \A d \in Domain :
          /\ inv[d].configured \subseteq Items[d] /\ within[d] \subseteq Items[d]
          /\ boot[d].pending \subseteq asked[d] /\ asked[d] \subseteq Items[d]
          /\ seen[d] \subseteq Items[d]
    /\ inv["zone"].configured \subseteq zones /\ zones \subseteq Items["zone"]
    /\ signalled \in BOOLEAN
    /\ wasDown \in BOOLEAN /\ csmCheck \in BOOLEAN
    /\ panel \in Panels

Init ==
    /\ session = "none" /\ connected = FALSE /\ call = "none"
    /\ requests = <<>> /\ backoff = {} /\ posts = <<>>
    /\ inv = [d \in Domain |-> NoneKnown] /\ within = Items /\ zones = {}
    /\ boot = NotStarted /\ signalled = FALSE /\ asked = NothingSeen
    /\ wasDown = FALSE /\ csmCheck = FALSE
    /\ panel \in Panels
    /\ seen = NothingSeen /\ failed = {}
    /\ hellos = 0 /\ troubles = 0

-----------------------------------------------------------------------------
(* The client's bookkeeping.                                               *)

\* _reset_bootstrap_state: the event is a new one, and a wait_ready() that waits for
\* the old one waits until its timeout.
ResetBootstrap == boot' = NotStarted /\ asked' = NothingSeen /\ signalled' = FALSE

\* _maybe_set_ready, once boot has become b.
MaybeSetReady(b) ==
    /\ boot' = b
    /\ signalled' = (signalled \/ (session = "active" /\ BootstrapReady(b)))

\* Mutants of MarkInventoryReady: statuses that came before the list count for all of
\* it; a list read again starts the wait again; an item that was heard is not asked.
MarkInventoryReadyEarly(d) ==
    IF boot[d].inventory
    THEN MaybeSetReady(boot) /\ UNCHANGED <<requests, asked>>
    ELSE LET ids == inv[d].configured
         IN /\ MaybeSetReady([boot EXCEPT ![d] =
                  [inventory |-> TRUE, pending |-> ids, status |-> @.status \/ ids = {}]])
            /\ asked' = [asked EXCEPT ![d] = ids]
            /\ requests' = Queued(Requests("attribs", d, ids) \o Requests("status", d, ids))

MarkInventoryReadyAgain(d) ==
    LET ids == inv[d].configured
    IN /\ MaybeSetReady([boot EXCEPT ![d] =
             [inventory |-> TRUE, pending |-> ids, status |-> ids = {}]])
       /\ asked' = [asked EXCEPT ![d] = ids]
       /\ requests' = Queued(Requests("attribs", d, ids) \o Requests("status", d, ids))

\* _mark_inventory_ready, with _queue_bootstrap_attribs and _request_initial_statuses.
MarkInventoryReady(d) ==
    IF boot[d].inventory
    THEN MaybeSetReady(boot) /\ UNCHANGED <<requests, asked>>
    ELSE LET ids == inv[d].configured
         IN /\ MaybeSetReady([boot EXCEPT ![d] =
                  [inventory |-> TRUE, pending |-> ids, status |-> ids = {}]])
            /\ asked' = [asked EXCEPT ![d] = ids]
            /\ requests' = Queued(Requests("attribs", d, ids) \o Requests("status", d, ids))

\* _mark_status_seen.
MarkStatusSeen(d, ids) ==
    LET left == boot[d].pending \ ids
    IN MaybeSetReady([boot EXCEPT ![d].pending = left, ![d].status = @ \/ left = {}])

-----------------------------------------------------------------------------
(* The handlers of the panel's messages, run by E27Kernel._on_message.       *)

Emit(events) == posts' = Tail(posts) \o events

\* _reconcile_configured_areas and _zones; the handler of the outputs' list always
\* emits OutputConfiguredInventoryReady, the others when they complete it.
Configured(m) ==
    LET d   == m.dom
        ids == m.ids \cap within[d]
    IN IF ~m.flag
       THEN Emit(<<>>) /\ UNCHANGED <<inv, zones>>
       ELSE /\ inv' = [inv EXCEPT ![d].configured = ids, ![d].complete = TRUE]
            /\ zones' = IF d = "zone" THEN zones \cup ids ELSE zones
            /\ Emit(IF d = "output" \/ ~inv[d].complete
                    THEN <<Post("inventoryReady", d, {}, TRUE)>> ELSE <<>>)

\* get_table_info: the lists of areas and zones are cut to the table's size.
TableInfo(m) ==
    LET d == m.dom
    IN IF ~m.flag
       THEN Emit(<<>>) /\ UNCHANGED <<inv, within>>
       ELSE /\ within' = [within EXCEPT ![d] = m.ids]
            /\ inv' = IF d = "output" THEN inv
                      ELSE [inv EXCEPT ![d].configured = @ \cap m.ids]
            /\ \/ Emit(<<>>)
               \/ csmCheck /\ \E changed \in BOOLEAN :
                                Emit(<<Post("csmUpdated", d, {}, changed)>>)

\* _record_invalid_attrib_id: ids that are refused one after the other end the list.
RecordInvalid(v, i) ==
    LET n   == IF v.last # 0 /\ i = v.last + 1 THEN v.streak + 1 ELSE 1
        top == i - n
        cut == n >= Streak /\ (v.max = -1 \/ top < v.max)
    IN [v EXCEPT !.last = i, !.streak = n,
                 !.max = IF cut THEN top ELSE @,
                 !.configured = IF cut THEN {j \in @ : j <= top} ELSE @]

Attribs(m) ==
    /\ Emit(<<>>)
    /\ inv' = IF m.flag \/ m.dom = "output" THEN inv
              ELSE [inv EXCEPT ![m.dom] = RecordInvalid(@, CHOOSE i \in m.ids : TRUE)]
    /\ zones' = IF m.flag /\ m.dom = "zone" THEN zones \cup m.ids ELSE zones

\* get_status, or its broadcast; the events say whether a field changed.
Status(m) ==
    IF ~m.flag
    THEN Emit(<<>>) /\ UNCHANGED <<zones, seen>>
    ELSE /\ zones' = IF m.dom = "zone" THEN zones \cup m.ids ELSE zones
         /\ seen' = [seen EXCEPT ![m.dom] = @ \cup m.ids]
         /\ \E changed \in BOOLEAN : Emit(<<Post("statusUpdated", m.dom, m.ids, changed)>>)

\* _should_apply_bulk_zone, and the zones there is a state of.
BulkApplies(d) ==
    CASE d = "output"                -> Items[d]
      [] inv[d].configured # {}      -> inv[d].configured \cap zones
      [] OTHER -> {i \in zones : inv[d].max = -1 \/ i <= inv[d].max}

\* get_all_zones_status and get_all_outputs_status.
BulkStatus(m) ==
    LET ids == m.ids \cap BulkApplies(m.dom)
    IN IF ~m.flag
       THEN Emit(<<>>) /\ UNCHANGED seen
       ELSE /\ seen' = [seen EXCEPT ![m.dom] = @ \cup ids]
            /\ Emit(IF ids = {} /\ m.dom = "zone" THEN <<>>
                    ELSE <<Post("statusUpdated", m.dom, ids, TRUE)>>)

OnMessage ==
    /\ posts # <<>>
    /\ LET m == Head(posts)
       IN \/ m.kind = "configured" /\ Configured(m) /\ UNCHANGED <<within, seen>>
          \/ m.kind = "table" /\ TableInfo(m) /\ UNCHANGED <<zones, seen>>
          \/ m.kind = "attribs" /\ Attribs(m) /\ UNCHANGED <<within, seen>>
          \/ m.kind = "status" /\ Status(m) /\ UNCHANGED <<inv, within>>
          \/ m.kind = "bulk" /\ BulkStatus(m) /\ UNCHANGED tables
    /\ UNCHANGED <<link, sched, client, checks, panel, failed, bounds>>

-----------------------------------------------------------------------------
(* The client's _handle_kernel_event.                                       *)

BulkZones == <<Request("bulk", "zone", 0)>>

\* A reconnect within 600 s reads the zones; a later one reads the tables first, to
\* see whether their checksums have changed.
OnUp ==
    /\ MaybeSetReady(boot) /\ UNCHANGED asked
    /\ \/ ~wasDown /\ UNCHANGED <<requests, csmCheck>>
       \/ wasDown /\ requests' = Queued(BulkZones) /\ csmCheck' = FALSE
       \/ /\ wasDown /\ csmCheck' = TRUE
          /\ requests' = Queued(<<Request("table", "area", 0), Request("table", "zone", 0),
                                  Request("table", "output", 0)>>)
    /\ UNCHANGED wasDown

OnDown ==
    /\ wasDown' = TRUE /\ csmCheck' = FALSE
    /\ ResetBootstrap
    /\ UNCHANGED requests

\* An area's status without a change may hide missed statuses of its zones:
\* they are read again.  While an arming of the area is being written only a
\* changed bypass flag has them read; arming is not of this module, so any
\* area's status may.
OnStatusUpdated(e) ==
    /\ MarkStatusSeen(e.dom, e.ids)
    /\ \E poll \in IF e.dom = "area" THEN BOOLEAN ELSE {FALSE} :
         requests' = IF poll THEN Queued(BulkZones) ELSE requests
    /\ UNCHANGED <<asked, checks>>

OnCsmUpdated(e) ==
    /\ csmCheck' = FALSE
    /\ requests' = IF csmCheck /\ e.flag THEN Queued(BulkZones) ELSE requests
    /\ MaybeSetReady(boot)
    /\ UNCHANGED <<asked, wasDown>>

OnEvent ==
    /\ posts # <<>>
    /\ LET e == Head(posts)
       IN \/ e.kind = "up" /\ OnUp
          \/ e.kind \in {"lost", "closed"} /\ OnDown
          \/ e.kind = "inventoryReady" /\ MarkInventoryReady(e.dom) /\ UNCHANGED checks
          \/ e.kind = "statusUpdated" /\ OnStatusUpdated(e)
          \/ e.kind = "csmUpdated" /\ OnCsmUpdated(e)
    /\ posts' = Tail(posts)
    /\ UNCHANGED <<link, backoff, tables, panel, history, bounds>>

-----------------------------------------------------------------------------
(* Connecting, losing the link and closing.                                 *)

\* async_connect, up to the HELLO of its first attempt.
Connect ==
    /\ call = "none" /\ ~connected /\ hellos < MaxSessions
    /\ ResetBootstrap
    /\ call' = "first" /\ session' = "hello" /\ hellos' = hellos + 1
    /\ UNCHANGED <<connected, sched, posts, tables, checks, panel, history, troubles>>

\* Session.connect returns or raises in its thread; it starts the receive thread.
HelloEnds ==
    /\ session = "hello"
    /\ session' \in {"fresh", "none"}
    /\ posts' = Append(posts, Post("connectDone", "area", {}, TRUE))
    /\ UNCHANGED <<connected, call, sched, tables, client, checks, panel, history, bounds>>

LinkBreaks ==
    /\ session \in {"fresh", "active"}
    /\ session' = "broken"
    /\ posts' = Append(posts, Post("disconnected", "area", {}, TRUE))
    /\ UNCHANGED <<connected, call, sched, tables, client, checks, panel, history, bounds>>

\* _on_session_disconnected, with abort_paged_transfers and _abort_requests.
OnDisconnected ==
    /\ posts # <<>> /\ Head(posts).kind = "disconnected"
    /\ connected' = FALSE
    /\ IF connected
       THEN requests' = <<>> /\ backoff' = {} /\ Emit(<<Post("lost", "area", {}, TRUE)>>)
       ELSE Emit(<<>>) /\ UNCHANGED <<requests, backoff>>
    /\ UNCHANGED <<session, call, tables, client, checks, panel, history, bounds>>

\* Mutant of ConnectSucceeds: the lists of the last session stay.
ConnectSucceedsKeepsLists ==
    /\ posts # <<>> /\ Head(posts).kind = "connectDone" /\ session = "fresh"
    /\ session' = "active" /\ connected' = TRUE /\ call' = "none"
    /\ within' = Items /\ UNCHANGED inv
    /\ seen' = NothingSeen /\ failed' = {}
    /\ requests' = [k \in 1..6 |->
          Request(<<"table", "table", "table", "configured", "configured", "configured">>[k],
                  <<"area", "zone", "output", "area", "zone", "output">>[k], 0)]
    /\ Emit(<<Post("up", "area", {}, TRUE)>>)
    /\ UNCHANGED <<backoff, zones, client, checks, panel, bounds>>

\* E27Kernel.connect goes on, and with it async_connect: inventory, tables and
\* requests start anew.
ConnectSucceeds ==
    /\ posts # <<>> /\ Head(posts).kind = "connectDone" /\ session = "fresh"
    /\ session' = "active" /\ connected' = TRUE /\ call' = "none"
    /\ inv' = [d \in Domain |-> NoneKnown] /\ within' = Items
    /\ seen' = NothingSeen /\ failed' = {}
    /\ requests' = [k \in 1..6 |->
          Request(<<"table", "table", "table", "configured", "configured", "configured">>[k],
                  <<"area", "zone", "output", "area", "zone", "output">>[k], 0)]
    /\ Emit(<<Post("up", "area", {}, TRUE)>>)
    /\ UNCHANGED <<backoff, zones, client, checks, panel, bounds>>

\* async_connect tries a second time after an error of the transport.
ConnectFails ==
    /\ posts # <<>> /\ Head(posts).kind = "connectDone" /\ session # "fresh"
    /\ Emit(<<>>)
    /\ \/ call' = "none" /\ UNCHANGED <<session, hellos>>
       \/ /\ call = "first" /\ hellos < MaxSessions
          /\ call' = "second" /\ session' = "hello" /\ hellos' = hellos + 1
    /\ UNCHANGED <<connected, sched, tables, client, checks, panel, history, troubles>>

\* async_disconnect, up to the thread that closes the session.
Close ==
    /\ call = "none" /\ session \in {"active", "broken"}
    /\ call' = "close" /\ session' = "none" /\ connected' = FALSE
    /\ requests' = <<>> /\ backoff' = {}
    /\ posts' = Append(posts, Post("closeDone", "area", {}, TRUE))
    /\ UNCHANGED <<tables, client, checks, panel, history, bounds>>

CloseEnds ==
    /\ posts # <<>> /\ Head(posts).kind = "closeDone"
    /\ call' = "none"
    /\ Emit(<<Post("closed", "area", {}, TRUE)>>)
    /\ ResetBootstrap
    /\ UNCHANGED <<session, connected, sched, tables, checks, panel, history, bounds>>

-----------------------------------------------------------------------------
(* The scheduler and the panel.                                              *)

Replying == \E p \in Range(posts) : p.kind \in Message /\ p.dom \in Domain

Entry(r) == <<r.what, r.dom, r.id>>

\* The head of the queue is in flight once the reply before it has been handled.
InFlight == session = "active" /\ requests # <<>> /\ ~Replying

Trouble == troubles < MaxTroubles /\ troubles' = troubles + 1

\* What the panel says to a request that it grants.
Answer(r) == CASE r.what = "configured"             -> panel[r.dom]
               [] r.what \in {"table", "bulk"}       -> Items[r.dom]
               [] OTHER                              -> {r.id}

PanelAnswers ==
    /\ InFlight
    /\ LET r == Head(requests)
       IN posts' = Append(posts, Post(r.what, r.dom, Answer(r), TRUE))
    /\ requests' = Tail(requests)
    /\ UNCHANGED <<link, backoff, tables, client, checks, panel, history, bounds>>

\* It refuses with an error_code; the attributes of an item as often as it likes.
PanelRefuses ==
    /\ InFlight
    /\ LET r == Head(requests)
       IN /\ posts' = Append(posts, Post(r.what, r.dom, {r.id} \ {0}, FALSE))
          /\ \/ r.what = "attribs" /\ UNCHANGED <<failed, troubles>>
             \/ r.what # "attribs" /\ failed' = failed \cup {Entry(r)} /\ Trouble
    /\ requests' = Tail(requests)
    /\ UNCHANGED <<link, backoff, tables, client, checks, panel, seen, hellos>>

\* It reports a table shorter than its lists.
PanelCutsTable ==
    /\ InFlight /\ Head(requests).what = "table" /\ Trouble
    /\ LET d == Head(requests).dom
       IN posts' = Append(posts, Post("table", d, Items[d] \cap {1}, TRUE))
    /\ requests' = Tail(requests)
    /\ UNCHANGED <<link, backoff, tables, client, checks, panel, history, hellos>>

\* _on_reply_timeout: the request is sent again after a pause, or it fails: at its last
\* attempt, past its deadline, or when it is for attributes, which are asked for once.
ReplyTimeout ==
    /\ InFlight /\ Trouble
    /\ requests' = Tail(requests)
    /\ LET r == Head(requests)
       IN \/ /\ r.what # "attribs" /\ r.attempt < MaxRetries
             /\ backoff' = backoff \cup {[r EXCEPT !.attempt = @ + 1]}
             /\ UNCHANGED failed
          \/ failed' = failed \cup {Entry(r)} /\ UNCHANGED backoff
    /\ UNCHANGED <<link, posts, tables, client, checks, panel, seen, hellos>>

BackoffEnds ==
    /\ \E r \in backoff :
          requests' = Append(requests, r) /\ backoff' = backoff \ {r}
    /\ UNCHANGED <<link, posts, tables, client, checks, panel, history, bounds>>

\* _try_send_next fails a request whose deadline (transport_wait_budget_s, one for all
\* that were queued together) has passed behind others.
DropExpired ==
    /\ InFlight /\ Trouble
    /\ failed' = failed \cup {Entry(Head(requests))}
    /\ requests' = Tail(requests)
    /\ UNCHANGED <<link, backoff, posts, tables, client, checks, panel, seen, hellos>>

Broadcast ==
    /\ session \in {"fresh", "active"} /\ Trouble
    /\ \E d \in Domain : \E i \in panel[d] :
          posts' = Append(posts, Post("status", d, {i}, TRUE))
    /\ UNCHANGED <<link, sched, tables, client, checks, panel, history, hellos>>

PanelChanges ==
    /\ Trouble
    /\ panel' \in Panels \ {panel}
    /\ UNCHANGED <<link, sched, posts, tables, client, checks, history, hellos>>

\* The application reads a list, or the outputs' states, through async_execute.
AppReads ==
    /\ connected /\ session = "active" /\ Trouble
    /\ \E r \in [what : {"configured"}, dom : Domain] \cup [what : {"bulk"}, dom : {"output"}] :
          requests' = Append(requests, Request(r.what, r.dom, 0))
    /\ UNCHANGED <<link, backoff, posts, tables, client, checks, panel, history, hellos>>

LoopStep == OnMessage \/ OnEvent \/ OnDisconnected \/ ConnectSucceeds \/ ConnectFails \/ CloseEnds

Next == LoopStep \/ PanelAnswers \/ BackoffEnds \/ Connect \/ HelloEnds \/ LinkBreaks \/ Close
     \/ PanelRefuses \/ PanelCutsTable \/ ReplyTimeout \/ DropExpired
     \/ Broadcast \/ PanelChanges \/ AppReads

Spec == Init /\ [][Next]_vars

\* The loop runs what is posted, timers fire, and the panel goes on answering.
FairSpec == Spec /\ WF_vars(LoopStep) /\ WF_vars(PanelAnswers \/ PanelRefuses) /\ WF_vars(BackoffEnds)

-----------------------------------------------------------------------------
\* A ready client has had, in this session, a status of every item it was to wait
\* for, and the kernel holds complete lists (client.ready; docs/adr/ADR-0112.md:86,
\* no partial bootstrap): broadcasts before the list is there, statuses of an
\* earlier session and a list read again make no difference.  And a call of
\* wait_ready that begins now returns.
ReadyMeansRead ==
    Ready => signalled /\ \A d \in Domain : inv[d].complete /\ asked[d] \subseteq seen[d]

\* A client that is ready stays so while its session lives, whatever is read again
\* (docs/CHANGES.md:546, "monotonic until disconnect").
ReadyStays == [][Ready /\ session' = "active" => Ready']_vars

\* A session that lasts, and whose lists and statuses are all answered, makes the
\* client ready for good, in a first session and in a later one.
BootstrapCompletes ==
    (<>[](session = "active"
            /\ \A f \in failed : f[1] \notin {"configured", "status"})) => <>[]Ready
=============================================================================
