------------------------------ MODULE PanelView ------------------------------
(***************************************************************************)
(* What the application is shown of the panel.  The panel has a state; the  *)
(* status handlers of handlers/*.py fold its replies and broadcasts into    *)
(* PanelState and emit events; Elke27Client._handle_kernel_event, which     *)
(* gets them later on the loop, rebuilds the snapshot and tells the         *)
(* subscribers; and async_execute writes a state, reads it back where the   *)
(* reply does not confirm it, and marks it stale where that fails.          *)
(*                                                                         *)
(* One entity of each domain.  Messages, disconnects, events and the        *)
(* caller's task are callbacks of one loop, in order.  The scheduler is     *)
(* RequestPipeline's: here a request is answered, or its caller gives up.   *)
(***************************************************************************)
EXTENDS Integers, Sequences, FiniteSets, SequencesExt

CONSTANTS
    Inventories,   \* the domains a panel may have an entity of
    Timers,        \* the longest exit delay
    AreaStarts,    \* the states an area may have at the start
    Reports,       \* sets of fields that a broadcast of an area reports
    Unknown,       \* the value None of a field nobody has reported
    MaxBusy,       \* retries of a command the panel is too busy for
    MaxPosts,      \* bound: callbacks that wait when the panel sends
    MaxCalls,      \* bound: commands of the application
    MaxTroubles    \* bound, of each inventory: changes at the panel, broadcasts beside them, refusals,
                   \* requests nobody answers, reads, disconnects

Domain == {"area", "zone", "output", "light", "lock", "barrier", "tstat"}

ASSUME PanelViewBounds ==
    /\ Timers \in Nat \ {0} /\ MaxBusy \in Nat /\ MaxPosts \in Nat \ {0} /\ MaxCalls \in Nat
    /\ MaxTroubles \in [Inventories -> Nat]
    /\ Inventories \subseteq SUBSET Domain
    /\ Reports \subseteq SUBSET {"arm", "cmd", "timer", "zone"}
    /\ Unknown \notin {"AWAY", "STAY", "DISARMED", ""}

VARIABLES
    panel,      \* the panel's own state, by domain
    held,       \* PanelState, by domain
    complete,   \* the area's exit_delay_payload_complete
    view,       \* the maps of the client's _snapshot
    stale,      \* _stale_area_ids and _stale_zone_ids
    staleShown, \* stale_area_ids and stale_zone_ids of the snapshot
    link,       \* "up", "broken" until the loop knows, or "down"
    requests,   \* requests queued and in flight, in order
    posts,      \* callbacks posted to the loop
    call,       \* the command under way
    since,      \* history: what a domain's entity has been since the panel took the
                \* session's last write to it
    vouched,    \* history: domains whose last command ended well in this session
    silent,     \* history: the panel has not reported what a command did to its area
    calls, troubles

shown   == <<view, stale, staleShown>>
state   == <<held, complete>>
history == <<since, vouched, silent>>
bounds  == <<calls, troubles>>
vars    == <<panel, state, shown, link, requests, posts, call, history, bounds>>

-----------------------------------------------------------------------------
(* The panel's states.  A report of one is its restriction to some fields. *)

\* Of each domain, the fields its status reports.  The first four of an area are the
\* exit-delay fields; armed_state, ready, chime and the like are left out.
Fields == [d \in Domain |-> CASE d = "area" -> {"arm", "cmd", "timer", "zone"}
                              [] d = "zone" -> {"bypassed", "violated"}
                              [] OTHER      -> {"status"}]

\* The field a command sets; a set_status that reports it confirms the state.
Key == [d \in Domain |-> CASE d = "area" -> "arm" [] d = "zone" -> "bypassed"
                           [] OTHER -> "status"]

\* Pending arm modes of an area, and the states it may be in.
Modes == {"AWAY", "STAY"}
AreaStates ==
    {[arm |-> "DISARMED", cmd |-> "NONE", timer |-> 0, zone |-> ""]}
    \cup [arm : {"DISARMED"}, cmd : Modes, timer : 0..Timers, zone : {""}]
    \cup [arm : Modes, cmd : {"NONE"}, timer : {0}, zone : {""}]

Statuses == [d \in Domain \ {"area", "zone"} |->
               CASE d = "barrier" -> {"OPEN", "CLOSED", "STOPPED"}
                 [] d = "lock"    -> {"ON", "OFF", "JAMMED"}
                 [] OTHER         -> {"ON", "OFF"}]

States(d) == CASE d = "area" -> AreaStates
               [] d = "zone" -> [bypassed : BOOLEAN, violated : BOOLEAN]
               [] OTHER      -> [status : Statuses[d]]

Starts(d) == IF d = "area" THEN AreaStarts ELSE States(d)

ASSUME StartsAreStates == AreaStarts \subseteq AreaStates

\* Commands of the application, and what the panel makes of one that it takes.
Orders(d) == CASE d = "area" -> Modes \cup {"DISARMED"}
               [] d = "zone" -> BOOLEAN
               [] OTHER      -> Statuses[d] \ {"STOPPED", "JAMMED"}

Obeyed(d, v) == CASE d = "area" -> {a \in AreaStates : a.arm = v /\ a.cmd = "NONE"}
                                     \cup {a \in AreaStates : a.cmd = v /\ a.timer = Timers}
                  [] d = "zone" -> {[panel[d] EXCEPT !.bypassed = v]}
                  [] OTHER      -> {[status |-> v], panel[d]}

Report(d, fields) == [f \in fields \cap Fields[d] |-> panel[d][f]]

\* A zone's one character of get_all_zones_status does not say whether a bypassed zone
\* is open; its handler sets both fields from it.
BulkReport == [panel["zone"] EXCEPT !.violated = @ /\ ~panel["zone"].bypassed]

Domains == DOMAIN panel
Has(d) == d \in Domains

-----------------------------------------------------------------------------
(* Requests, callbacks and the call.                                        *)

Request(route, d, v, mine) == [route |-> route, dom |-> d, order |-> v, mine |-> mine]

\* A message of the panel, a reply or a broadcast; truth is the state it had when it
\* was sent.
Message(route, d, p, err, mine) ==
    [kind |-> "message", route |-> route, dom |-> d, payload |-> p, err |-> err,
     mine |-> mine, reply |-> TRUE, truth |-> panel[d][Key[d]]]

Broadcast(route, d, p) == [Message(route, d, p, "none", FALSE) EXCEPT !.reply = FALSE]

\* A status event: changed_fields, status_confirmed, the state it tells and the one the
\* panel had when it sent what the event is about; beside, when only fields that are
\* left out here have changed.
Event(m, h, changed, confirmed) ==
    [kind |-> "status", dom |-> m.dom, changed |-> changed, confirmed |-> confirmed,
     bulk |-> m.route = "bulk", beside |-> FALSE, tells |-> h[Key[m.dom]], truth |-> m.truth]

Post(kind) == [kind |-> kind]

\* The caller's future is resolved, and then its task resumes.
Answer(kind, m) == [kind |-> kind, err |-> m.err, confirms |-> Key[m.dom] \in DOMAIN m.payload]
Lost(kind) == [kind |-> kind, err |-> "lost", confirms |-> FALSE]

\* The command under way: heard, when its state has been published; cut, when the
\* session it was made in is gone.
Idle == [stage |-> "idle", dom |-> "none", order |-> "none", busy |-> 0,
         heard |-> FALSE, cut |-> FALSE]

Emit(events) == posts' = Tail(posts) \o events

Trouble == troubles < MaxTroubles[Domains] /\ troubles' = troubles + 1

NoFields(d) == [f \in Fields[d] \cup (IF d \in {"output", "light", "lock"} THEN {"on"} ELSE {})
                  |-> Unknown]

\* _request_initial_statuses, one get_status of each configured entity.
InitialStatuses(ds) ==
    SetToSeq({Request("get", d, "none", FALSE) : d \in ds})

-----------------------------------------------------------------------------
(* The snapshot.                                                            *)

\* barrier_is_open.
IsOpen(s) == CASE s = "OPEN" -> TRUE [] s = "CLOSED" -> FALSE [] OTHER -> Unknown

\* The _build_*_map of the domains.
AreaMap(h) == [arm_mode |-> h.arm, arm_cmd_mode |-> IF h.cmd \in Modes THEN h.cmd ELSE Unknown,
               ee_timer |-> h.timer, alarm_zone |-> h.zone]
ZoneMap(h) == [open |-> h.violated, bypassed |-> h.bypassed]
OutputMap(h) == [state |-> h.on]
LightMap(h) == [state |-> h.on]
BarrierMap(h) == [status |-> h.status, is_open |-> IsOpen(h.status)]
LockMap(h) == [status |-> h.status, locked |-> h.on]
ThermostatMap(h) == [mode |-> h.status]

BuildMap(d, h) == CASE d = "area" -> AreaMap(h) [] d = "zone" -> ZoneMap(h)
                    [] d = "output" -> OutputMap(h) [] d = "light" -> LightMap(h)
                    [] d = "barrier" -> BarrierMap(h) [] d = "lock" -> LockMap(h)
                    [] OTHER -> ThermostatMap(h)

BuildMaps(h) == [d \in DOMAIN h |-> BuildMap(d, h[d])]

\* V2AreaState.arming, of an area as the snapshot shows it.
Arming(a) == /\ a.arm_mode = "DISARMED" /\ a.arm_cmd_mode \in Modes /\ a.alarm_zone = ""
             /\ a.ee_timer # Unknown /\ a.ee_timer > 0

\* The state at the start: connected for the first time, and nothing is known.
Init ==
    /\ \E ds \in Inventories : panel \in {f \in [ds -> UNION {States(d) : d \in ds}] :
                                            \A d \in ds : f[d] \in Starts(d)}
    /\ held = [d \in Domains |-> NoFields(d)] /\ complete = FALSE
    /\ view = BuildMaps(held) /\ stale = {} /\ staleShown = {}
    /\ link = "up" /\ posts = <<>> /\ call = Idle
    /\ requests = InitialStatuses(Domains)
    /\ since = [d \in Domains |-> {}] /\ vouched = {} /\ silent = FALSE
    /\ calls = 0 /\ troubles = 0

-----------------------------------------------------------------------------
(* The status handlers, run by E27Kernel._on_message.  The reply's caller    *)
(* is answered before the handler's events are posted.                       *)

Reply(m) == IF m.mine THEN <<Answer("answer", m)>> ELSE <<>>

Unmoved(m) == UNCHANGED state /\ Emit(Reply(m))

Apply(m, h, done, events) ==
    /\ held' = [held EXCEPT ![m.dom] = h] /\ complete' = done
    /\ Emit(Reply(m) \o events)

Confirms(m) == Key[m.dom] \in DOMAIN m.payload

\* The event of a handler that always emits one, of one that does on a change, and of
\* a handler of get_status, which drops an error.  A change of another field of the
\* payload is told with the state that is remembered.
Tell(m, new, sure) == Apply(m, new, complete, <<Event(m, new, new # held[m.dom], sure)>>)
TellBeside(m, new) == Apply(m, new, complete, <<[Event(m, new, TRUE, TRUE) EXCEPT !.beside = TRUE]>>)
TellChange(m, new) ==
    IF new # held[m.dom] THEN Tell(m, new, TRUE) ELSE Unmoved(m) \/ TellBeside(m, new)
StatusRead(m, new) == IF m.err # "none" THEN Unmoved(m) ELSE Tell(m, new, TRUE)

Patch(h, p) == [f \in DOMAIN h |-> IF f \in DOMAIN p THEN p[f] ELSE h[f]]
Forget(h, fields) == [f \in DOMAIN h |-> IF f \in fields THEN Unknown ELSE h[f]]
Pending == {"cmd", "timer", "zone"}

\* Mutant of ExitDelay: a report keeps what it does not say.
ExitDelayKeeps(h, p) ==
    [fields |-> Patch(h, p), done |-> DOMAIN p = Fields["area"]]

\* Mutant of ExitDelay: any later timer of a running delay is taken.
ExitDelayAnyTimer(h, p) ==
    LET new    == Patch(h, p)
        armed  == new.arm \notin {Unknown, "DISARMED"}
        gone   == IF armed THEN Pending ELSE Pending \ DOMAIN p
        runs   == complete /\ h.timer # Unknown
    IN CASE DOMAIN p = {} ->
              [fields |-> IF armed THEN Forget(new, Pending) ELSE new, done |-> complete /\ ~armed]
         [] DOMAIN p = {"timer"} /\ runs /\ p.timer # 0 -> [fields |-> new, done |-> TRUE]
         [] OTHER -> [fields |-> Forget(new, gone), done |-> DOMAIN p = Fields["area"]]

\* _reconcile_area_state with apply_area_exit_delay_clearing_rules: a report takes back
\* what it does not repeat of a pending arming, unless it is the next tick of a timer
\* whose start was reported in full; an armed area has nothing pending.
ExitDelay(h, p) ==
    LET new    == Patch(h, p)
        armed  == new.arm \notin {Unknown, "DISARMED"}
        gone   == IF armed THEN Pending ELSE Pending \ DOMAIN p
        runs   == complete /\ h.timer # Unknown
    IN CASE DOMAIN p = {} ->
              [fields |-> IF armed THEN Forget(new, Pending) ELSE new, done |-> complete /\ ~armed]
         [] DOMAIN p = {"timer"} /\ runs /\ p.timer # 0 ->
              [fields |-> [new EXCEPT !.timer = IF p.timer > h.timer THEN h.timer ELSE p.timer],
               done |-> TRUE]
         [] OTHER -> [fields |-> Forget(new, gone), done |-> DOMAIN p = Fields["area"]]

\* area: changed_fields may also hold fields that are left out here.
AreaGetStatus(m) ==
    IF m.err # "none" THEN Unmoved(m)
    ELSE LET new == ExitDelay(held["area"], m.payload)
         IN \E other \in BOOLEAN :
              Apply(m, new.fields, new.done,
                    <<Event(m, new.fields, other \/ new.fields # held["area"], TRUE)>>)

\* area.set_status tells changes only.
AreaSetStatus(m) ==
    LET new == ExitDelay(held["area"], m.payload)
    IN \E other \in BOOLEAN :
         Apply(m, new.fields, new.done,
               IF other \/ new.fields # held["area"]
               THEN <<Event(m, new.fields, TRUE, Confirms(m))>> ELSE <<>>)

AreaSetArmState(m) ==
    IF m.err # "none" THEN Unmoved(m)
    ELSE LET new == ExitDelay(held["area"], m.payload)
         IN \E other \in BOOLEAN :
              Apply(m, new.fields, new.done,
                    <<Event(m, new.fields, other \/ new.fields # held["area"], Confirms(m))>>)

\* area.get_troubles changes nothing that is shown.
AreaGetTroubles(m) == UNCHANGED state /\ Emit(<<Post("troubles")>>)

\* zone.
ZoneFields(h, p) == Patch(h, p)

ZoneGetStatus(m) == StatusRead(m, ZoneFields(held["zone"], m.payload))

ZoneSetStatus(m) ==
    IF m.err # "none" THEN Unmoved(m)
    ELSE Tell(m, ZoneFields(held["zone"], m.payload), Confirms(m))

\* _apply_zone_status_char sets every flag.
ZoneGetAll(m) == StatusRead(m, Patch(held["zone"], m.payload))

\* output: any status but ON is off.
OutputFields(h, p) ==
    IF DOMAIN p = {} THEN h ELSE [status |-> p.status, on |-> p.status = "ON"]

OutputGetStatus(m) == StatusRead(m, OutputFields(held["output"], m.payload))

\* Mutant of OutputSetStatus: every acknowledgement is told.
OutputSetStatusTells(m) == Tell(m, OutputFields(held["output"], m.payload), TRUE)

OutputSetStatus(m) == TellChange(m, OutputFields(held["output"], m.payload))

OutputGetAll(m) == StatusRead(m, OutputFields(held["output"], m.payload))

\* light and lock: only ON and OFF move the flag.
Switched(h, p) ==
    IF DOMAIN p = {} THEN h
    ELSE [status |-> p.status, on |-> IF p.status \in {"ON", "OFF"} THEN p.status = "ON" ELSE h.on]

LightFields(h, p) == Switched(h, p)

LightGetStatus(m) == StatusRead(m, LightFields(held["light"], m.payload))

LightSetStatus(m) ==
    IF Confirms(m) THEN Tell(m, LightFields(held["light"], m.payload), TRUE) ELSE Unmoved(m)

LockFields(h, p) == Switched(h, p)

LockGetStatus(m) == StatusRead(m, LockFields(held["lock"], m.payload))

LockSetStatus(m) == Tell(m, LockFields(held["lock"], m.payload), TRUE)

\* barrier and tstat.
BarrierFields(h, p) == Patch(h, p)

BarrierGetStatus(m) == StatusRead(m, BarrierFields(held["barrier"], m.payload))

BarrierSetStatus(m) == Tell(m, BarrierFields(held["barrier"], m.payload), TRUE)

TstatFields(h, p) == Patch(h, p)

TstatGetStatus(m) == StatusRead(m, TstatFields(held["tstat"], m.payload))

TstatSetStatus(m) ==
    IF m.err # "none" THEN Unmoved(m) ELSE TellChange(m, TstatFields(held["tstat"], m.payload))

Is(m, d, route) == m.dom = d /\ m.route = route

OnMessage ==
    /\ posts # <<>> /\ Head(posts).kind = "message"
    /\ LET m == Head(posts)
       IN \/ Is(m, "area", "get") /\ AreaGetStatus(m)
          \/ Is(m, "area", "set") /\ AreaSetStatus(m)
          \/ Is(m, "area", "arm") /\ AreaSetArmState(m)
          \/ Is(m, "area", "troubles") /\ AreaGetTroubles(m)
          \/ Is(m, "zone", "get") /\ ZoneGetStatus(m)
          \/ Is(m, "zone", "set") /\ ZoneSetStatus(m)
          \/ Is(m, "zone", "bulk") /\ ZoneGetAll(m)
          \/ Is(m, "output", "get") /\ OutputGetStatus(m)
          \/ Is(m, "output", "set") /\ OutputSetStatus(m)
          \/ Is(m, "output", "bulk") /\ OutputGetAll(m)
          \/ Is(m, "light", "get") /\ LightGetStatus(m)
          \/ Is(m, "light", "set") /\ LightSetStatus(m)
          \/ Is(m, "lock", "get") /\ LockGetStatus(m)
          \/ Is(m, "lock", "set") /\ LockSetStatus(m)
          \/ Is(m, "barrier", "get") /\ BarrierGetStatus(m)
          \/ Is(m, "barrier", "set") /\ BarrierSetStatus(m)
          \/ Is(m, "tstat", "get") /\ TstatGetStatus(m)
          \/ Is(m, "tstat", "set") /\ TstatSetStatus(m)
    /\ UNCHANGED <<panel, shown, link, requests, call, history, bounds>>

-----------------------------------------------------------------------------
(* Elke27Client._handle_kernel_event.                                        *)

BulkZones == IF Has("zone") THEN <<Request("bulk", "zone", "none", FALSE)>> ELSE <<>>

Shows(st) == view' = BuildMaps(held) /\ stale' = st /\ staleShown' = st

\* _notify_entity_status_publication, for the call that waits for it.
Heard(e) == call' = [call EXCEPT !.heard = @ \/ (e.confirmed /\ ~e.bulk /\ e.dom = call.dom)]

\* An area's status that changes nothing may hide missed statuses of its zones, and so
\* they are all read; while a command arms the area they are where its bypass flag,
\* one of its other fields, has changed, and the application did not do that.
Polls(e) == IF call.dom = "area" THEN {FALSE, e.changed} ELSE {~e.changed}

\* When a read cannot be queued the handler raises, and shows and tells nothing.
OnStatus ==
    /\ posts # <<>> /\ Head(posts).kind = "status"
    /\ LET e == Head(posts)
       IN /\ Heard(e)
          /\ \E poll \in IF e.dom = "area" THEN Polls(e) ELSE {FALSE} :
               IF poll /\ link # "up"
               THEN UNCHANGED <<shown, requests>>
               ELSE /\ Shows(IF e.confirmed THEN stale \ {e.dom} ELSE stale)
                    /\ requests' = IF poll THEN requests \o BulkZones ELSE requests
    /\ posts' = Tail(posts)
    /\ UNCHANGED <<panel, state, link, history, bounds>>

OnTroubles ==
    /\ posts # <<>> /\ Head(posts).kind = "troubles"
    /\ requests' = IF link = "up" THEN requests \o BulkZones ELSE requests
    /\ posts' = Tail(posts)
    /\ UNCHANGED <<panel, state, shown, link, call, history, bounds>>

\* A reconnect clears every stale mark.  Within 600 s it reads the zones first, which
\* raises when the link has broken again.
OnUp ==
    /\ posts # <<>> /\ Head(posts).kind = "up"
    /\ \/ link # "up" /\ stale' = {} /\ UNCHANGED <<view, staleShown, requests>>
       \/ link = "up" /\ Shows({}) /\ requests' = requests \o BulkZones
       \/ Shows({}) /\ UNCHANGED requests
    /\ posts' = Tail(posts)
    /\ UNCHANGED <<panel, state, link, call, history, bounds>>

\* Mutant of ResetBootstrap: the maps wait for the next event.
ResetBootstrapUnseen ==
    /\ held' = [d \in DOMAIN held |-> IF d = "area" THEN Forget(held[d], Pending) ELSE held[d]]
    /\ complete' = FALSE /\ UNCHANGED view

\* _reset_bootstrap_state, as far as the areas go.
ResetBootstrap ==
    /\ held' = [d \in DOMAIN held |-> IF d = "area" THEN Forget(held[d], Pending) ELSE held[d]]
    /\ complete' = FALSE
    /\ view' = [d \in DOMAIN view |-> IF d = "area" THEN AreaMap(held'[d]) ELSE view[d]]

OnLost ==
    /\ posts # <<>> /\ Head(posts).kind = "lost"
    /\ ResetBootstrap /\ staleShown' = stale /\ UNCHANGED stale
    /\ posts' = Tail(posts)
    /\ UNCHANGED <<panel, link, requests, call, history, bounds>>

-----------------------------------------------------------------------------
(* The link.                                                                 *)

LinkBreaks ==
    /\ link = "up" /\ Trouble
    /\ link' = "broken" /\ vouched' = {}
    /\ posts' = Append(posts, Post("disconnected")) /\ call' = [call EXCEPT !.cut = TRUE]
    /\ since' = [d \in DOMAIN since |-> {}]
    /\ UNCHANGED <<panel, state, shown, requests, silent, calls>>

\* _on_session_disconnected: what was queued or in flight fails.
OnDisconnected ==
    /\ posts # <<>> /\ Head(posts).kind = "disconnected"
    /\ link' = "down" /\ requests' = <<>>
    /\ Emit((IF \E r \in Range(requests) : r.mine THEN <<Lost("answer")>> ELSE <<>>)
             \o <<Post("lost")>>)
    /\ UNCHANGED <<panel, state, shown, call, history, bounds>>

\* async_connect, and the statuses that are asked for when the lists have been read;
\* connecting takes longer than the callbacks that are posted.
Reconnect ==
    /\ link = "down" /\ posts = <<>> /\ link' = "up"
    /\ ResetBootstrap /\ stale' = {} /\ UNCHANGED staleShown
    /\ requests' = InitialStatuses(Domains)
    /\ posts' = Append(posts, Post("up"))
    /\ UNCHANGED <<panel, call, history, bounds>>

-----------------------------------------------------------------------------
(* Commands of the application: async_execute, one at a time.                *)

Writes(d) == Request(IF d = "area" THEN "arm" ELSE "set", d, call'.order, TRUE)

\* async_arm_area, async_disarm_area, async_set_zone_bypass, async_set_output,
\* async_set_barrier; the other domains through async_execute.
Write ==
    /\ call.stage = "idle" /\ calls < MaxCalls /\ link = "up"
    /\ \E d \in Domains : \E v \in Orders(d) :
          /\ call' = [Idle EXCEPT !.stage = "asked", !.dom = d, !.order = v]
          /\ requests' = Append(requests, Writes(d))
          /\ vouched' = vouched \ {d}
    /\ calls' = calls + 1
    /\ UNCHANGED <<panel, state, shown, link, posts, since, silent, troubles>>

Ends(well) == call' = Idle /\ vouched' = IF well /\ ~call.cut THEN vouched \cup {call.dom} ELSE vouched

\* _await_entity_status_publication.
Publish(c) ==
    IF c.heard
    THEN Ends(TRUE)
    ELSE call' = [c EXCEPT !.stage = "publishing"] /\ UNCHANGED vouched

\* _mark_area_stale and _mark_zone_stale: the maps stay.
MarkStale(d) == stale' = stale \cup {d} /\ staleShown' = stale' /\ UNCHANGED view

\* _status_refresh_after_successful_write: a reply that confirms the state needs no
\* read; without a budget, or a link, the read fails at once.
Refresh(confirms) ==
    \/ confirms /\ Publish(call) /\ UNCHANGED <<shown, requests>>
    \/ /\ ~confirms /\ link = "up"
       /\ call' = [call EXCEPT !.stage = "refreshing"]
       /\ requests' = Append(requests, Request("get", call.dom, "none", TRUE))
       /\ UNCHANGED <<shown, vouched>>
    \/ ~confirms /\ MarkStale(call.dom) /\ Publish(call) /\ UNCHANGED requests

\* Mutants of OnReply: a busy panel is asked for as long as it is busy; the reply of a
\* command is taken for the state.
OnReplyBusyForever(a) ==
    IF a.err = "busy" /\ call.dom # "barrier"
    THEN call' = [call EXCEPT !.stage = "backoff"] /\ UNCHANGED <<shown, requests, vouched>>
    ELSE IF a.err # "none" THEN Ends(FALSE) /\ UNCHANGED <<shown, requests>>
    ELSE IF call.dom \notin {"area", "zone"} THEN Ends(TRUE) /\ UNCHANGED <<shown, requests>>
    ELSE Refresh(a.confirms)

OnReplyUnread(a) ==
    IF a.err # "none" THEN Ends(FALSE) /\ UNCHANGED <<shown, requests>>
    ELSE Ends(TRUE) /\ UNCHANGED <<shown, requests>>

\* The reply of the command itself.
OnReply(a) ==
    IF a.err = "busy" /\ call.dom # "barrier" /\ call.busy < MaxBusy
    THEN /\ call' = [call EXCEPT !.stage = "backoff", !.busy = @ + 1]
         /\ UNCHANGED <<shown, requests, vouched>>
    ELSE IF a.err # "none" THEN Ends(FALSE) /\ UNCHANGED <<shown, requests>>
    ELSE IF call.dom \notin {"area", "zone"} THEN Ends(TRUE) /\ UNCHANGED <<shown, requests>>
    ELSE Refresh(a.confirms)

\* The reply of the read after it.
OnRefreshReply(a) ==
    /\ IF a.err = "none" THEN UNCHANGED shown ELSE MarkStale(call.dom)
    /\ Publish(call) /\ UNCHANGED requests

OnAnswer ==
    /\ posts # <<>> /\ Head(posts).kind = "answer"
    /\ Emit(<<[Head(posts) EXCEPT !.kind = "resume"]>>)
    /\ UNCHANGED <<panel, state, shown, link, requests, call, history, bounds>>

\* The caller's task resumes.
OnResume ==
    /\ posts # <<>> /\ Head(posts).kind = "resume"
    /\ LET a == Head(posts)
       IN \/ call.stage = "asked" /\ OnReply(a)
          \/ call.stage = "refreshing" /\ OnRefreshReply(a)
    /\ posts' = Tail(posts)
    /\ UNCHANGED <<panel, state, link, since, silent, bounds>>

\* After the pause the command is sent again; it fails without a link.
BackoffEnds ==
    /\ call.stage = "backoff"
    /\ IF link = "up"
       THEN /\ call' = [call EXCEPT !.stage = "asked"]
            /\ requests' = Append(requests, Writes(call.dom)) /\ UNCHANGED vouched
       ELSE Ends(FALSE) /\ UNCHANGED requests
    /\ UNCHANGED <<panel, state, shown, link, posts, since, silent, bounds>>

\* The caller waits no longer: its request is withdrawn, or answered to nobody.  It has one
\* request, answer or resumption at a time.
Withdraw ==
    /\ \/ requests' = RemoveFirstMatch(requests, LAMBDA r : r.mine)
       \/ requests' = [k \in DOMAIN requests |-> [requests[k] EXCEPT !.mine = FALSE]]
    /\ posts' = LET kept == RemoveFirstMatch(posts, LAMBDA p : p.kind \in {"answer", "resume"})
                IN [k \in DOMAIN kept |-> IF kept[k].kind = "message"
                                           THEN [kept[k] EXCEPT !.mine = FALSE] ELSE kept[k]]

\* A deadline passes.
DeadlinePasses ==
    /\ \/ call.stage = "asked" /\ Ends(FALSE) /\ Withdraw /\ UNCHANGED shown
       \/ call.stage = "refreshing" /\ MarkStale(call.dom) /\ Publish(call) /\ Withdraw
       \/ call.stage = "publishing" /\ Ends(TRUE) /\ UNCHANGED <<shown, requests, posts>>
    /\ UNCHANGED <<panel, state, link, since, silent, bounds>>

\* The future that _await_entity_status_publication waits for is resolved.
Published ==
    /\ call.stage = "publishing" /\ call.heard /\ Ends(TRUE)
    /\ UNCHANGED <<panel, state, shown, link, requests, posts, since, silent, bounds>>

\* The application cancels the task.
CallerCancelled ==
    /\ call.stage # "idle" /\ Ends(FALSE) /\ Trouble /\ Withdraw
    /\ UNCHANGED <<panel, state, shown, link, since, silent, calls>>

\* A read of the application, or of async_refresh_barrier.
AppReads ==
    /\ link = "up" /\ Trouble
    /\ \E d \in Domains : \E route \in {"get"} \cup (IF d = "output" THEN {"bulk"} ELSE {}) :
          requests' = Append(requests, Request(route, d, "none", FALSE))
    /\ UNCHANGED <<panel, state, shown, link, posts, call, history, calls>>

-----------------------------------------------------------------------------
(* The panel.  One request is in flight at a time: the next is sent when the *)
(* reply has been handled.  Broadcasts may wait before and after a reply.    *)

InFlight == link = "up" /\ requests # <<>>
         /\ ~\E p \in Range(posts) : p.kind = "message" /\ p.reply

\* What a command is about.
Gist(d, s) == IF d = "area" THEN <<s.arm, s.cmd>> ELSE <<s[Key[d]]>>

Since(d, s) == since' = IF since[d] = {} THEN since ELSE [since EXCEPT ![d] = @ \cup {Gist(d, s)}]

Sends(m) == Len(posts) < MaxPosts /\ posts' = Append(posts, m)

\* It grants a read.
PanelReports ==
    /\ InFlight /\ Head(requests).route \in {"get", "bulk"}
    /\ LET r == Head(requests)
           p == IF r.dom = "zone" /\ r.route = "bulk" THEN BulkReport ELSE Report(r.dom, Fields[r.dom])
       IN /\ Sends(Message(r.route, r.dom, p, "none", r.mine))
          /\ silent' = (silent /\ r.dom # "area")
    /\ requests' = Tail(requests)
    /\ UNCHANGED <<panel, state, shown, link, call, since, vouched, bounds>>

\* It takes a command, and its reply may say what it came to.
PanelObeys ==
    /\ InFlight /\ Head(requests).route \in {"arm", "set"}
    /\ LET r == Head(requests)
       IN \E s \in Obeyed(r.dom, r.order), fields \in {{}, {Key[r.dom]}} :
            /\ panel' = [panel EXCEPT ![r.dom] = s]
            /\ since' = [since EXCEPT ![r.dom] = {Gist(r.dom, s)}]
            /\ silent' = IF r.dom = "area" THEN fields = {} ELSE silent
            /\ Sends([Message(r.route, r.dom, [f \in fields |-> s[f]], "none", r.mine)
                        EXCEPT !.truth = s[Key[r.dom]]])
    /\ requests' = Tail(requests)
    /\ UNCHANGED <<state, shown, link, call, vouched, bounds>>

\* It is busy, with a command of the caller, or refuses.
PanelRefuses ==
    /\ InFlight
    /\ LET r == Head(requests)
       IN \E err \in {"error", "busy"} :
            /\ Sends(Message(r.route, r.dom, <<>>, err, r.mine))
            /\ IF err = "busy" THEN r.route \in {"arm", "set"} /\ UNCHANGED troubles ELSE Trouble
    /\ requests' = Tail(requests)
    /\ UNCHANGED <<panel, state, shown, link, call, history, calls>>

\* Its state changes, or it only says what it is; a change is always told, a pending
\* arming by the field that changed.
PanelChanges ==
    /\ link = "up" /\ Trouble
    /\ \E d \in Domains : \E s \in States(d) :
          \E fields \in IF d = "area" THEN Reports ELSE SUBSET Fields[d] \ {{}} :
            /\ \A f \in Fields[d] \ {"timer"} : s[f] # panel[d][f] => f \in fields
            /\ panel' = [panel EXCEPT ![d] = s]
            /\ Since(d, s)
            /\ silent' = (silent /\ ~(d = "area" /\ fields \cap {"arm", "cmd"} # {}))
            /\ Sends([Broadcast("set", d, [f \in fields |-> s[f]]) EXCEPT !.truth = s[Key[d]]])
    /\ UNCHANGED <<state, shown, link, requests, call, vouched, calls>>

\* The exit delay runs down, and a tick may come late.
PanelTicks ==
    /\ Has("area") /\ link = "up" /\ panel["area"].timer > 0
    /\ \E late \in BOOLEAN :
         LET left == panel["area"].timer - 1
         IN /\ late => troubles < MaxTroubles[Domains]
            /\ troubles' = IF late THEN troubles + 1 ELSE troubles
            /\ panel' = [panel EXCEPT !["area"].timer = left]
            /\ Sends(Broadcast("set", "area", [timer |-> IF late THEN left + 1 ELSE left]))
    /\ UNCHANGED <<state, shown, link, requests, call, history, calls>>

PanelTroubles ==
    /\ Has("area") /\ link = "up" /\ Trouble
    /\ Sends(Broadcast("troubles", "area", <<>>))
    /\ UNCHANGED <<panel, state, shown, link, requests, call, history, calls>>

-----------------------------------------------------------------------------
LoopStep == OnMessage \/ OnStatus \/ OnTroubles \/ OnUp \/ OnLost \/ OnDisconnected
         \/ OnAnswer \/ OnResume

Next == LoopStep \/ LinkBreaks \/ Reconnect
     \/ Write \/ BackoffEnds \/ DeadlinePasses \/ Published \/ CallerCancelled \/ AppReads
     \/ PanelReports \/ PanelObeys \/ PanelRefuses \/ PanelChanges \/ PanelTicks \/ PanelTroubles

Spec == Init /\ [][Next]_vars

\* The loop runs what is posted, and timers fire.
FairSpec == Spec /\ WF_vars(LoopStep) /\ WF_vars(BackoffEnds) /\ WF_vars(DeadlinePasses)

-----------------------------------------------------------------------------
Awaited(kinds) == \E p \in Range(posts) : p.kind \in kinds

\* Once the events are handled the snapshot shows what PanelState holds, and which
\* states are stale, though an event's handler may raise half-way.
ViewCatchesUp ==
    (link # "broken" /\ ~Awaited({"status", "up", "lost"})) =>
        view = BuildMaps(held) /\ staleShown = stale

\* A confirmed status tells the state the panel had when it sent what the event is
\* about, and never one the library remembered (test_set_status_ack_no_stale_event.py:1).
\* The acknowledgements of locks and barriers do tell what is remembered, and so do
\* those of outputs and thermostats that only say something else.
EventsAreCurrent ==
    \A p \in Range(posts) :
        (p.kind = "status" /\ p.confirmed /\ ~p.beside /\ p.dom \notin {"lock", "barrier"})
            => p.tells = p.truth

\* When a command of an area or a zone has ended well, the snapshot shows a state the
\* panel had since it took the command, or says that it is stale
\* (docs/CLIENT_CONTRACT.md:155-162).
WrittenIsShown ==
    \A d \in vouched \cap {"area", "zone"} : d \in staleShown \/ \E s \in since[d] :
        IF d = "zone" THEN <<view[d].bypassed>> = s
        ELSE view[d].arm_mode = s[1] /\ (Arming(view[d]) => view[d].arm_cmd_mode = s[2])

\* An area is shown arming only while the panel counts down that very arming
\* (docs/CLIENT_CONTRACT.md:63-72): no mixture of two armings, and none that has ended,
\* as long as the panel reports what changes.
ArmingIsReal ==
    (/\ Has("area") /\ link = "up" /\ ~silent
     /\ ~\E p \in Range(posts) : p.kind \in {"message", "status"} /\ p.dom = "area"
     /\ ~Awaited({"up", "lost"})
     /\ Arming(view["area"]))
    => panel["area"].arm = "DISARMED" /\ panel["area"].cmd = view["area"].arm_cmd_mode

\* While an area is shown arming its timer only runs down, unless the whole of a new
\* pending arming is reported.
TimerRunsDown ==
    [][(/\ Has("area") /\ Arming(AreaMap(held["area"])) /\ Arming(AreaMap(held'["area"]))
        /\ held'["area"].timer > held["area"].timer)
       => Pending \subseteq DOMAIN Head(posts).payload]_vars

\* A command ends, however long the panel is busy (async_execute).
CallsEnd == call.stage # "idle" ~> call.stage = "idle"
=============================================================================
