------------------------------ MODULE Inventory ------------------------------
(***************************************************************************)
(* Which entities the panel has.  After a session starts the library reads  *)
(* the size of each domain's table and the list of its configured entities, *)
(* in blocks, and then the attributes (the name) of each entity listed.     *)
(* The lists come by two ways: E27Kernel.request, whose blocks the          *)
(* dispatcher puts together before the handler sees them, and               *)
(* Elke27Client.async_execute, which asks for the blocks itself, so that    *)
(* the handler sees every block as if it were a list.                       *)
(*                                                                         *)
(* A behaviour is about one domain.  A request carries the blocks read so   *)
(* far: PagedTransfers models the transfer itself, Readiness what waits for *)
(* the lists, PanelView the states.  The table's CSM is Readiness's too.    *)
(***************************************************************************)
EXTENDS Integers, Sequences, FiniteSets, SequencesExt, FiniteSetsExt

CONSTANTS
    Panels,      \* what a panel may be: its domain, entities, and whether blocks count from 1
    Top,         \* table_elements, the size of the table
    BlockSize,   \* elements of a block
    Streak,      \* invalid_id_streak_threshold
    Unknown,     \* None
    MaxCalls,    \* bound: requests of the application
    MaxTroubles  \* bound: changes of the panel's list, failed requests, lost sessions

Domain == {"area", "zone", "output", "light", "lock", "barrier", "tstat", "user", "keypad"}

\* A panel may list ids beyond its table, here at most one.
Ids == 1 .. Top + 1
Blocks == (Top + BlockSize - 1) \div BlockSize

ASSUME InventoryBounds ==
    /\ Top \in Nat \ {0} /\ BlockSize \in Nat \ {0} /\ Streak \in Nat \ {0}
    /\ MaxCalls \in Nat /\ MaxTroubles \in Nat
    /\ Unknown \notin Int
    /\ Panels \subseteq [dom : Domain, ids : SUBSET Ids, relative : BOOLEAN]

VARIABLES
    panel,    \* the panel's own list of the domain
    inv,      \* InventoryState and the table's size
    ready,    \* _inventory_ready of the domain
    requests, \* requests queued, in order; one at a time is in flight
    posts,    \* callbacks posted to the loop
    call,     \* the command of the application that reads blocks
    named,    \* entities whose attributes this session has read
    failed,   \* history: entities whose attributes it has asked for in vain
    refused,  \* history: ids the panel has called invalid in this session
    basis,    \* history: between which lists the list must be, and whether it was whole
    later,    \* history: entities that came on the list after the client last asked for all of it
    calls, troubles

\* Lists are finite, and ids count from 1.
IdSets == {S \in SUBSET (Nat \ {0}) : IsFiniteSet(S)}

Errors == {"none", "invalid", "error", "busy"}

Requests ==
    {r \in [kind : {"table", "list", "attribs"}, id : Nat, mine : BOOLEAN, block : Nat \ {0},
            got : Seq(IdSets), ever : SUBSET Nat, always : SUBSET Nat]
       : r.kind = "attribs" => r.id # 0}

Posts ==
    [kind : {"message"}, request : Requests, err : Errors, ids : IdSets]
    \cup [kind : {"resume"}, request : Requests, err : Errors]
    \cup [kind : {"ready"}]

InvSet == [list : IdSets, complete : BOOLEAN, top : {0, Top}, last : Nat \cup {Unknown},
           streak : Nat, limit : Nat \cup {Unknown}]
BasisSet == [ever : SUBSET Nat, always : SUBSET Nat, whole : BOOLEAN]

PanelTyped == panel \in [dom : Domain, ids : SUBSET Ids, relative : BOOLEAN]
ClientTyped == ready \in BOOLEAN /\ call \in [busy : BOOLEAN, attribs : 0 .. Top]
QueuesTyped == requests \in Seq(Requests) /\ posts \in Seq(Posts)
ReadTyped == named \subseteq Nat /\ failed \subseteq Nat /\ refused \subseteq Nat /\ later \subseteq Nat
BoundsTyped == calls \in 0 .. MaxCalls /\ troubles \in 0 .. MaxTroubles

TypeOK ==
    /\ PanelTyped /\ ClientTyped /\ inv \in InvSet /\ basis \in BasisSet
    /\ QueuesTyped /\ ReadTyped /\ BoundsTyped

history == <<failed, refused, basis, later>>
bounds  == <<calls, troubles>>
vars    == <<panel, inv, ready, requests, posts, call, named, history, bounds>>

d == panel.dom

\* Domains by what their lists do: area and zone tell once, the plain ones every time;
\* for area, zone and output the client listens once; nobody puts blocks together for
\* user and keypad.
ToldOnce  == {"area", "zone"}
Waited    == {"area", "zone", "output"}
Assembled == Domain \ {"user", "keypad"}

-----------------------------------------------------------------------------
(* The panel's list by blocks, and requests.                                 *)

BlockOf(i) == IF i > Top THEN Blocks ELSE (i - 1) \div BlockSize + 1

\* What the panel says in a block.
Told(b) == LET ids == {i \in panel.ids : BlockOf(i) = b}
           IN IF panel.relative THEN {i - (b - 1) * BlockSize : i \in ids} ELSE ids

\* ever and always are history: the ids the panel had at some time, or all the time,
\* since the list was asked for.
Request(kind, id, mine) ==
    [kind |-> kind, id |-> id, mine |-> mine, block |-> 1, got |-> <<>>,
     ever |-> panel.ids, always |-> panel.ids]

Table == Request("table", 0, FALSE)
List(mine) == Request("list", 0, mine)
Attribs(i) == Request("attribs", i, FALSE)
AttribsOf(s) == [k \in 1 .. Len(s) |-> Attribs(s[k])]

\* sorted(ids), the one sequence of its kind.
Sorted(ids) == {s \in [1 .. Cardinality(ids) -> ids] : \A j, k \in DOMAIN s : j < k => s[j] < s[k]}

\* _bootstrap_requests.
Bootstrap == (IF d \in Assembled THEN <<Table>> ELSE <<>>)
             \o (IF d = "keypad" THEN <<>> ELSE <<List(FALSE)>>)

Message(r, err, ids) == [kind |-> "message", request |-> r, err |-> err, ids |-> ids]
Ready == [kind |-> "ready"]
Resume(r, err) == [kind |-> "resume", request |-> r, err |-> err]

NoInventory == [list |-> {}, complete |-> FALSE, top |-> 0, last |-> Unknown, streak |-> 0,
                limit |-> Unknown]
NoBasis == [ever |-> {}, always |-> {}, whole |-> TRUE]
Idle == [busy |-> FALSE, attribs |-> 0]

Init ==
    /\ panel \in Panels
    /\ inv = NoInventory /\ ready = FALSE /\ posts = <<>> /\ call = Idle
    /\ requests = Bootstrap
    /\ named = {} /\ failed = {} /\ refused = {} /\ basis = NoBasis
    /\ later = {}
    /\ calls = 0 /\ troubles = 0

Trouble == troubles < MaxTroubles /\ troubles' = troubles + 1

-----------------------------------------------------------------------------
(* get_configured.                                                           *)

Joined(got) == UNION Range(got)

\* _configured_block_size, as far as it is guessed from the table's size.
GuessedSize == (inv.top + Blocks - 1) \div Blocks

\* _apply_configured_block_offset: ids that all fit into one block are taken to count
\* from the block's start.
Offset(ids, b) ==
    IF b > 1 /\ inv.top # 0 /\ \A i \in ids : i <= GuessedSize
    THEN {i + (b - 1) * GuessedSize : i \in ids} ELSE ids

\* The merge functions of the features, which the dispatcher calls, and of the client.
AreaMerge(got) == UNION {Offset(got[b], b) : b \in DOMAIN got}
ZoneMerge(got) == Joined(got)
OutputMerge(got) == Joined(got)
LightMerge(got) == Joined(got)
LockMerge(got) == Joined(got)
BarrierMerge(got) == Joined(got)
TstatMerge(got) == Joined(got)

Merge(got) == CASE d = "area" -> AreaMerge(got) [] d = "zone" -> ZoneMerge(got)
                [] d = "output" -> OutputMerge(got) [] d = "light" -> LightMerge(got)
                [] d = "lock" -> LockMerge(got) [] d = "barrier" -> BarrierMerge(got)
                [] OTHER -> TstatMerge(got)

ClientMerge(got) == IF d = "area" THEN AreaMerge(got) ELSE Joined(got)

\* Ids beyond the table, when its size is known, are dropped.
InTable(ids) == {i \in ids : inv.top = 0 \/ i <= inv.top}

\* What a handler of get_configured makes of the ids it is given: the new inventory,
\* and whether it tells that the list is ready.
Replaced(ids, tells) == [inv |-> [inv EXCEPT !.list = InTable(ids), !.complete = TRUE], tells |-> tells]
Added(ids, last) == [inv |-> [inv EXCEPT !.list = @ \cup ids, !.complete = @ \/ last], tells |-> last]

\* Mutant of ZoneGetConfigured: the list is only added to.
ZoneGetConfiguredToo(ids) ==
    [inv |-> [inv EXCEPT !.list = @ \cup InTable(ids), !.complete = TRUE], tells |-> ~inv.complete]

AreaGetConfigured(ids) == Replaced(ids, ~inv.complete)
ZoneGetConfigured(ids) == Replaced(ids, ~inv.complete)
OutputGetConfigured(ids) == Replaced(ids, TRUE)
LightGetConfigured(ids) == Replaced(ids, TRUE)
LockGetConfigured(ids) == Replaced(ids, TRUE)
BarrierGetConfigured(ids) == Replaced(ids, TRUE)
TstatGetConfigured(ids) == Replaced(ids, TRUE)
UserGetConfigured(ids, last) == Added(ids, last)
KeypadGetConfigured(ids, last) == Added(ids, last)

GetConfigured(ids, last) ==
    CASE d = "area" -> AreaGetConfigured(ids) [] d = "zone" -> ZoneGetConfigured(ids)
      [] d = "output" -> OutputGetConfigured(ids) [] d = "light" -> LightGetConfigured(ids)
      [] d = "lock" -> LockGetConfigured(ids) [] d = "barrier" -> BarrierGetConfigured(ids)
      [] d = "tstat" -> TstatGetConfigured(ids) [] d = "user" -> UserGetConfigured(ids, last)
      [] OTHER -> KeypadGetConfigured(ids, last)

\* The history of a list: unless blocks came to a handler that takes each for the whole,
\* or an area's block could not be placed.
Placed == panel.relative => inv.top # 0
ListBasis(r, last) ==
    IF d \in Assembled
    THEN [ever |-> r.ever, always |-> r.always, whole |-> Placed /\ (~r.mine \/ Blocks = 1)]
    ELSE [ever |-> basis.ever \cup r.ever, always |-> IF last THEN r.always ELSE basis.always,
          whole |-> TRUE]

\* The rest of the list is asked for by the dispatcher, block by block.
NextBlock(r, ids) == [r EXCEPT !.block = @ + 1, !.got = Append(@, ids)]

Emit(events) == posts' = Tail(posts) \o events

Handle(r, ids, after) ==
    LET last == r.block = Blocks
        h    == GetConfigured(ids, last)
    IN /\ inv' = h.inv /\ basis' = ListBasis(r, last)
       /\ Emit((IF h.tells THEN <<Ready>> ELSE <<>>) \o after)
       /\ UNCHANGED requests

\* A block of a list: one that nobody waits for in the dispatcher goes to the handler
\* as it is; an error is told to the application only.
OnBlock(m) ==
    LET r == m.request
        partial == ~r.mine /\ d \in Assembled
    IN IF m.err # "none"
       THEN Emit(IF r.mine THEN <<Resume(r, m.err)>> ELSE <<>>) /\ UNCHANGED <<inv, basis, requests>>
       ELSE IF partial /\ r.block < Blocks
       THEN /\ requests' = Append(requests, NextBlock(r, m.ids))
            /\ Emit(<<>>) /\ UNCHANGED <<inv, basis>>
       ELSE IF partial THEN Handle(r, Merge(Append(r.got, m.ids)), <<>>)
       ELSE Handle(r, m.ids, IF r.mine THEN <<Resume(NextBlock(r, m.ids), "none")>> ELSE <<>>)

Later == later' = IF ready THEN later \cup (inv'.list \ inv.list) ELSE later

OnList == OnBlock(Head(posts)) /\ Later /\ UNCHANGED <<named, failed, refused>>

-----------------------------------------------------------------------------
(* get_table_info and get_attribs.                                           *)

\* Area and zone forget the ids that the table has no room for.
Sized == [inv EXCEPT !.top = Top]
Pruned == [inv EXCEPT !.top = Top, !.list = {i \in @ : i <= Top}]

\* Mutant of ZoneGetTableInfo: the list stays as long as it is.
ZoneGetTableInfoOnly == Sized

AreaGetTableInfo == Pruned
ZoneGetTableInfo == Pruned
OutputGetTableInfo == Sized
LightGetTableInfo == Sized
LockGetTableInfo == Sized
BarrierGetTableInfo == Sized
TstatGetTableInfo == Sized
KeypadGetTableInfo == Sized

TableInfo == CASE d = "area" -> AreaGetTableInfo [] d = "zone" -> ZoneGetTableInfo
               [] d = "output" -> OutputGetTableInfo [] d = "light" -> LightGetTableInfo
               [] d = "lock" -> LockGetTableInfo [] d = "barrier" -> BarrierGetTableInfo
               [] d = "tstat" -> TstatGetTableInfo [] OTHER -> KeypadGetTableInfo

OnTable == /\ inv' = IF Head(posts).err = "none" THEN TableInfo ELSE inv
           /\ Emit(<<>>) /\ UNCHANGED <<requests, named, history>>

\* Mutant of RecordInvalid: the streak is not started anew.
RecordInvalidLoosely(i) ==
    LET streak == inv.streak + 1
        limit  == IF i > streak THEN i - streak ELSE 0
        known  == [inv EXCEPT !.last = i, !.streak = streak]
    IN IF streak >= Streak /\ (inv.limit = Unknown \/ limit < inv.limit)
       THEN [known EXCEPT !.limit = limit, !.list = {k \in @ : k <= limit}] ELSE known

\* _record_invalid_attrib_id: a run of consecutive ids that the panel calls invalid is
\* the end of its list.
RecordInvalid(i) ==
    LET streak == IF inv.last # Unknown /\ i = inv.last + 1 THEN inv.streak + 1 ELSE 1
        limit  == IF i > streak THEN i - streak ELSE 0
        known  == [inv EXCEPT !.last = i, !.streak = streak]
    IN IF streak >= Streak /\ (inv.limit = Unknown \/ limit < inv.limit)
       THEN [known EXCEPT !.limit = limit, !.list = {k \in @ : k <= limit}] ELSE known

\* A handler of get_attribs stores what it reads.
Store(i) == named' = named \cup {i} /\ UNCHANGED <<inv, failed>>
Refuse(i) == failed' = failed \cup {i} /\ UNCHANGED <<inv, named>>
RefuseInvalid(i) == failed' = failed \cup {i} /\ inv' = RecordInvalid(i) /\ UNCHANGED named

AreaGetAttribs(i, err) == CASE err = "none" -> Store(i) [] err = "invalid" -> RefuseInvalid(i)
                            [] OTHER -> Refuse(i)
ZoneGetAttribs(i, err) == CASE err = "none" -> Store(i) [] err = "invalid" -> RefuseInvalid(i)
                            [] OTHER -> Refuse(i)
OutputGetAttribs(i, err) == IF err = "none" THEN Store(i) ELSE Refuse(i)
LightGetAttribs(i, err) == IF err = "none" THEN Store(i) ELSE Refuse(i)
LockGetAttribs(i, err) == IF err = "none" THEN Store(i) ELSE Refuse(i)
BarrierGetAttribs(i, err) == IF err = "none" THEN Store(i) ELSE Refuse(i)
TstatGetAttribs(i, err) == IF err = "none" THEN Store(i) ELSE Refuse(i)
UserGetAttribs(i, err) == IF err = "none" THEN Store(i) ELSE Refuse(i)
KeypadGetAttribs(i, err) == IF err = "none" THEN Store(i) ELSE Refuse(i)

OnAttribs ==
    LET i == Head(posts).request.id  err == Head(posts).err
    IN /\ CASE d = "area" -> AreaGetAttribs(i, err) [] d = "zone" -> ZoneGetAttribs(i, err)
             [] d = "output" -> OutputGetAttribs(i, err) [] d = "light" -> LightGetAttribs(i, err)
             [] d = "lock" -> LockGetAttribs(i, err) [] d = "barrier" -> BarrierGetAttribs(i, err)
             [] d = "tstat" -> TstatGetAttribs(i, err) [] d = "user" -> UserGetAttribs(i, err)
             [] OTHER -> KeypadGetAttribs(i, err)
       /\ refused' = IF err = "invalid" THEN refused \cup {i} ELSE refused
       /\ Emit(<<>>) /\ UNCHANGED <<requests, basis, later>>

OnMessage ==
    /\ posts # <<>> /\ Head(posts).kind = "message"
    /\ LET kind == Head(posts).request.kind
       IN \/ kind = "list" /\ OnList
          \/ kind = "table" /\ OnTable
          \/ kind = "attribs" /\ OnAttribs
    /\ UNCHANGED <<panel, ready, call, bounds>>

-----------------------------------------------------------------------------
(* The client.                                                               *)

\* Mutant of OnReady: the attributes are asked for when the list is first told only.
OnReadyOnce ==
    /\ posts # <<>> /\ Head(posts).kind = "ready"
    /\ ready' = TRUE
    /\ \E s \in Sorted(inv.list) :
         IF ready THEN UNCHANGED <<requests, later>>
         ELSE requests' = requests \o AttribsOf(s) /\ later' = later \ inv.list
    /\ Emit(<<>>)
    /\ UNCHANGED <<panel, inv, call, named, failed, refused, basis, bounds>>

\* A list is ready: the attributes of its entities are asked for, by _mark_inventory_ready
\* once a session, by _queue_bootstrap_attribs for the other domains.
OnReady ==
    /\ posts # <<>> /\ Head(posts).kind = "ready"
    /\ ready' = TRUE
    /\ \E s \in Sorted(inv.list) :
         IF d \in Waited /\ ready THEN UNCHANGED <<requests, later>>
         ELSE requests' = requests \o AttribsOf(s) /\ later' = later \ inv.list
    /\ Emit(<<>>)
    /\ UNCHANGED <<panel, inv, call, named, failed, refused, basis, bounds>>

\* async_refresh_domain_config; a zone's reads the attributes of the zones listed so far.
RefreshConfig ==
    {<<Table, List(FALSE)>> \o AttribsOf(s) : s \in Sorted(IF d = "zone" THEN inv.list ELSE {})}

\* async_execute reads a list, or attributes; before those, the list, where it is
\* empty and, for all but area and zone, has not been read.
Unlisted == inv.list = {} /\ (d \in ToldOnce \/ ~inv.complete)

AppCalls ==
    /\ calls < MaxCalls /\ calls' = calls + 1 /\ UNCHANGED troubles
    /\ \/ /\ d \in Assembled
          /\ \E more \in RefreshConfig : requests' = requests \o more
          /\ UNCHANGED call
       \/ /\ d = "keypad" /\ requests' = Append(requests, Table) /\ UNCHANGED call
       \/ /\ ~call.busy
          /\ call' = [Idle EXCEPT !.busy = TRUE]
          /\ requests' = Append(requests, List(TRUE))
       \/ /\ ~call.busy
          /\ \E i \in 1 .. Top :
               IF Unlisted
               THEN call' = [busy |-> TRUE, attribs |-> i] /\ requests' = Append(requests, List(TRUE))
               ELSE UNCHANGED call /\ requests' = Append(requests, Attribs(i))
    /\ UNCHANGED <<panel, inv, ready, posts, named, history>>

\* The list is taken from what the call has put together, but for area and zone.
Prefetched(r) ==
    IF d \in ToldOnce \/ call.attribs = 0 THEN UNCHANGED <<inv, basis>>
    ELSE /\ inv' = [inv EXCEPT !.list = ClientMerge(r.got), !.complete = TRUE]
         /\ basis' = [ever |-> r.ever, always |-> r.always, whole |-> TRUE]

\* The call's task resumes with the reply to a block; a busy panel is asked again.
OnResume ==
    /\ posts # <<>> /\ Head(posts).kind = "resume"
    /\ LET r == Head(posts).request  err == Head(posts).err
       IN \/ /\ err = "busy" \/ (err = "none" /\ r.block <= Blocks)
             /\ requests' = Append(requests, r)
             /\ UNCHANGED <<inv, basis, call>>
          \/ /\ err = "error" /\ call' = Idle
             /\ UNCHANGED <<inv, basis, requests>>
          \/ /\ err = "none" /\ r.block > Blocks
             /\ Prefetched(r) /\ call' = Idle
             /\ requests' = IF call.attribs = 0 THEN requests
                            ELSE Append(requests, Attribs(call.attribs))
    /\ Emit(<<>>) /\ Later
    /\ UNCHANGED <<panel, ready, named, failed, refused, bounds>>

-----------------------------------------------------------------------------
(* The panel and the link.                                                   *)

\* It answers, or refuses: an id that is not on its list, or anything.  An answer that is
\* lost is a refusal too: its request is given up.
PanelAnswers ==
    /\ requests # <<>> /\ ~\E p \in Range(posts) : p.kind = "message"
    /\ LET r == Head(requests)
       IN \/ /\ r.kind = "attribs" => r.id \in panel.ids /\ r.id <= Top
             /\ posts' = Append(posts, Message(r, "none", IF r.kind = "list" THEN Told(r.block) ELSE {}))
             /\ UNCHANGED troubles
          \/ /\ r.kind = "attribs" /\ (r.id \notin panel.ids \/ r.id > Top)
             /\ posts' = Append(posts, Message(r, "invalid", {})) /\ UNCHANGED troubles
          \/ /\ Trouble
             /\ \E err \in {"error", "busy"} : posts' = Append(posts, Message(r, err, {}))
    /\ requests' = Tail(requests)
    /\ UNCHANGED <<panel, inv, ready, call, named, history, calls>>

\* The installer adds or removes an entity.
PanelEdits ==
    /\ Trouble
    /\ \E i \in 1 .. Top :
         LET ids == IF i \in panel.ids THEN panel.ids \ {i} ELSE panel.ids \cup {i}
             See(r) == [r EXCEPT !.ever = @ \cup ids, !.always = @ \cap ids]
         IN /\ panel' = [panel EXCEPT !.ids = ids]
            /\ requests' = [k \in DOMAIN requests |-> See(requests[k])]
            /\ posts' = [k \in DOMAIN posts |-> IF posts[k].kind = "ready" THEN posts[k]
                                               ELSE [posts[k] EXCEPT !.request = See(@)]]
    /\ UNCHANGED <<inv, ready, call, named, failed, refused, basis, later, calls>>

\* The session is lost and another one made: reset_bootstrap_state and
\* _reset_bootstrap_state, and the lists are read again.
Reconnect ==
    /\ Trouble /\ posts = <<>>
    /\ inv' = NoInventory /\ ready' = FALSE /\ call' = Idle
    /\ requests' = Bootstrap
    /\ named' = {} /\ failed' = {} /\ refused' = {} /\ basis' = NoBasis
    /\ later' = {}
    /\ UNCHANGED <<panel, posts, calls>>

Next == OnMessage \/ OnReady \/ OnResume \/ AppCalls \/ PanelAnswers \/ PanelEdits \/ Reconnect

Spec == Init /\ [][Next]_vars

-----------------------------------------------------------------------------
Unpruned(ids) == {i \in ids : i <= Top /\ (inv.limit # Unknown => i <= inv.limit)}

\* A list that is complete is one the panel had: it has what the panel listed all the
\* time that it was read, up to the end that invalid ids have shown, and nothing the panel
\* never listed meanwhile (ADR-0013: no partial block is exposed), except where
\* async_execute has handed the handler single blocks.
ListIsWhole ==
    inv.complete /\ basis.whole => Unpruned(basis.always) \subseteq inv.list /\ inv.list \subseteq basis.ever

\* Whatever order the size of the table and the list come in, an area or a zone beyond
\* the table is not listed.
NothingBeyondTable == d \in ToldOnce /\ inv.top # 0 => \A i \in inv.list : i <= inv.top

\* The list ends early only behind a full run of ids that the panel called invalid in
\* this session, in whatever order the answers came (InventoryState).
LimitIsEarned ==
    inv.limit # Unknown => \A i \in inv.limit + 1 .. inv.limit + Streak : i \in refused

\* Behind LimitIsEarned: the ids of the run that is counted were all refused.
StreakIsRefused ==
    inv.last # Unknown =>
        /\ 1 <= inv.streak /\ inv.streak <= inv.last
        /\ \A i \in inv.last - inv.streak + 1 .. inv.last : i \in refused

\* Whose attributes may stay unread when they come on the list later: areas, zones and
\* outputs, told once a session, and users and keypads that the first blocks of a list add.
ToldLate == d \in Waited \/ d \notin Assembled

\* When all is quiet the attributes of every entity on a complete list have been read in
\* this session, or were asked for in vain (docs/ddr/DDR-0040.md:22), except of one that
\* came on the list later, in the domains of ToldLate.  (An id beyond the table may be
\* listed by async_execute, whose lists nobody filters, and is never asked for.)
EveryoneIsNamed ==
    requests = <<>> /\ posts = <<>> /\ inv.complete
    => \A i \in inv.list : i > Top \/ (ToldLate /\ i \in later) \/ i \in named \cup failed
=============================================================================
