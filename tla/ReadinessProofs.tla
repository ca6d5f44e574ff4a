-------------------------- MODULE ReadinessProofs --------------------------
(***************************************************************************)
(* Theorems about Readiness, for every set of items, every panel and any    *)
(* number of sessions.                                                      *)
(***************************************************************************)
EXTENDS Readiness, QueueProofs, FiniteSetTheorems, TLAPS

-----------------------------------------------------------------------------
(* Type correctness, as far as the theorems need it: requests name a route   *)
(* and a domain, and the ids of lists and tables are finitely many.          *)

IsRequest(r) == /\ DOMAIN r = {"what", "dom", "id", "attempt"}
                /\ r.what \in Message /\ r.dom \in Domain

RequestsTyped ==
    /\ IsQueue(requests)
    /\ \A r \in Elems(requests) \cup backoff : IsRequest(r)

PostsTyped ==
    /\ IsQueue(posts)
    /\ \A p \in Elems(posts) :
          p.dom \in Domain /\ (p.kind = "table" /\ p.flag => IsFiniteSet(p.ids))

TablesTyped ==
    /\ DOMAIN inv = Domain /\ DOMAIN within = Domain
    /\ \A d \in Domain :
          /\ DOMAIN inv[d] = {"configured", "complete", "streak", "last", "max"}
          /\ IsFiniteSet(inv[d].configured) /\ IsFiniteSet(within[d])

ClientTyped ==
    /\ DOMAIN asked = Domain /\ DOMAIN seen = Domain /\ DOMAIN boot = Domain
    /\ \A d \in Domain : /\ DOMAIN boot[d] = {"inventory", "pending", "status"}
                         /\ boot[d].inventory \in BOOLEAN /\ boot[d].status \in BOOLEAN

Typed == RequestsTyped /\ PostsTyped /\ TablesTyped /\ ClientTyped

\* A request that has been made is one, and so are the requests for a list of items.
LEMMA RequestMade ==
  ASSUME NEW what \in Message, NEW d \in Domain, NEW i
  PROVE  IsRequest(Request(what, d, i))
BY DEF Request, IsRequest

LEMMA RequestsMade ==
  ASSUME NEW what \in Message, NEW d \in Domain, NEW ids, IsFiniteSet(ids)
  PROVE  /\ IsQueue(Requests(what, d, ids))
         /\ \A r \in Elems(Requests(what, d, ids)) : IsRequest(r)
<1> DEFINE id(k) == SetToSortSeq(ids, <)[k]
           n == Cardinality(ids)
           S == {Request(what, d, id(k)) : k \in 1..n}
           q == Requests(what, d, ids)
<1>1. n \in Nat
  BY FS_CardinalityType
<1>2. q = [k \in 1..n |-> Request(what, d, id(k))]
  BY DEF Requests
<1> HIDE DEF id, n
<1>3. q \in [1..n -> S]
  BY <1>2
<1>4. \A r \in S : IsRequest(r)
  BY RequestMade
<1> HIDE DEF q, S
<1>5. q \in Seq(S)
  BY <1>1, <1>3, IsASeq
<1>6. Elems(q) \subseteq S
  BY <1>5, ElemsTyped
<1> QED BY <1>4, <1>5, <1>6, QueueOfTyped DEF q

LEMMA ThreeMade ==
  ASSUME NEW a, IsRequest(a), NEW b, IsRequest(b), NEW c, IsRequest(c)
  PROVE  /\ IsQueue(<<a>>) /\ Elems(<<a>>) = {a}
         /\ IsQueue(<<a, b, c>>) /\ Elems(<<a, b, c>>) \subseteq {a, b, c}
<1>1. <<a>> \in Seq({a}) /\ <<a, b, c>> \in Seq({a, b, c})
  OBVIOUS
<1>2. Elems(<<a>>) = {a}
  BY DEF Elems
<1> QED BY <1>1, <1>2, QueueOfTyped, ElemsTyped

\* What Emit leaves of the queue: one event more, or none.
LEMMA Emitted ==
  ASSUME PostsTyped, posts # <<>>, NEW e
  PROVE  /\ Emit(<<>>) => posts' = Tail(posts)
         /\ Emit(<<e>>) => posts' = Append(Tail(posts), e)
         /\ IsQueue(Tail(posts)) /\ Elems(Tail(posts)) \subseteq Elems(posts)
         /\ Head(posts) \in Elems(posts)
         /\ Elems(Append(Tail(posts), e)) = Elems(Tail(posts)) \cup {e}
         /\ IsQueue(Append(Tail(posts), e))
<1>1. IsQueue(posts)
  BY DEF PostsTyped
<1>2. IsQueue(Tail(posts)) /\ Elems(Tail(posts)) \subseteq Elems(posts) /\ Head(posts) \in Elems(posts)
  BY <1>1, Leaves
<1>3. Tail(posts) \o <<>> = Tail(posts) /\ Tail(posts) \o <<e>> = Append(Tail(posts), e)
  BY <1>1, RunsOf
<1>4. IsQueue(Append(Tail(posts), e)) /\ Elems(Append(Tail(posts), e)) = Elems(Tail(posts)) \cup {e}
  BY <1>2, Joins
<1> QED BY <1>2, <1>3, <1>4 DEF Emit

LEMMA PostMade ==
  ASSUME NEW kind, NEW d \in Domain, NEW ids, NEW flag
  PROVE  /\ Post(kind, d, ids, flag).kind = kind /\ Post(kind, d, ids, flag).dom = d
         /\ Post(kind, d, ids, flag).ids = ids /\ Post(kind, d, ids, flag).flag = flag
BY DEF Post

\* A queue of typed callbacks stays one when it loses its head, and when it takes one
\* in that is no table.
PostTyped(p) == p.dom \in Domain /\ (p.kind = "table" /\ p.flag => IsFiniteSet(p.ids))

LEMMA EmitTyped ==
  ASSUME PostsTyped, posts # <<>>,
         Emit(<<>>) \/ \E e : PostTyped(e) /\ Emit(<<e>>)
  PROVE  PostsTyped'
<1>1. CASE Emit(<<>>)
  BY <1>1, Emitted DEF PostsTyped
<1>2. CASE \E e : PostTyped(e) /\ Emit(<<e>>)
  <2>1. PICK e : PostTyped(e) /\ Emit(<<e>>)
    BY <1>2
  <2>2. posts' = Append(Tail(posts), e)
    BY <2>1, Emitted
  <2>3. IsQueue(posts') /\ Elems(posts') \subseteq Elems(posts) \cup {e}
    BY <2>2, Emitted
  <2> QED BY <2>1, <2>3 DEF PostsTyped, PostTyped
<1> QED BY <1>1, <1>2

LEMMA AppendTyped ==
  ASSUME PostsTyped, NEW e, PostTyped(e), posts' = Append(posts, e)
  PROVE  PostsTyped'
<1>1. IsQueue(posts') /\ Elems(posts') = Elems(posts) \cup {e}
  BY Joins DEF PostsTyped
<1> QED BY <1>1 DEF PostsTyped, PostTyped

LEMMA RequestsGrow ==
  ASSUME RequestsTyped, NEW rs, IsQueue(rs), \A r \in Elems(rs) : IsRequest(r),
         UNCHANGED backoff, requests' \in {requests, requests \o rs, Queued(rs)}
  PROVE  RequestsTyped'
<1>1. requests' = requests \/ requests' = requests \o rs
  BY DEF Queued
<1>2. CASE requests' = requests
  BY <1>2 DEF RequestsTyped
<1>3. CASE requests' = requests \o rs
  <2>1. IsQueue(requests') /\ Elems(requests') = Elems(requests) \cup Elems(rs)
    BY <1>3, JoinsMany DEF RequestsTyped
  <2> QED BY <2>1 DEF RequestsTyped
<1> QED BY <1>1, <1>2, <1>3

LEMMA RequestLeaves ==
  ASSUME RequestsTyped, requests # <<>>
  PROVE  /\ IsRequest(Head(requests)) /\ IsQueue(Tail(requests))
         /\ \A r \in Elems(Tail(requests)) : IsRequest(r)
BY Leaves DEF RequestsTyped

LEMMA RequestAdded ==
  ASSUME RequestsTyped, NEW r, IsRequest(r), requests' = Append(requests, r),
         backoff' \subseteq backoff
  PROVE  RequestsTyped'
<1>1. IsQueue(requests') /\ Elems(requests') = Elems(requests) \cup {r}
  BY Joins DEF RequestsTyped
<1> QED BY <1>1 DEF RequestsTyped

\* The bulk read of the zones, and the tables after a long absence.
LEMMA ReadsMade ==
  /\ IsQueue(BulkZones) /\ \A r \in Elems(BulkZones) : IsRequest(r)
  /\ LET three == <<Request("table", "area", 0), Request("table", "zone", 0),
                    Request("table", "output", 0)>>
     IN IsQueue(three) /\ \A r \in Elems(three) : IsRequest(r)
<1>1. {"table", "bulk"} \subseteq Message /\ {"area", "zone", "output"} \subseteq Domain
  BY DEF Message, Domain
<1>2. /\ IsRequest(Request("table", "area", 0)) /\ IsRequest(Request("table", "zone", 0))
      /\ IsRequest(Request("table", "output", 0)) /\ IsRequest(Request("bulk", "zone", 0))
  BY <1>1, RequestMade
<1> DEFINE a == Request("table", "area", 0)
           b == Request("table", "zone", 0)
           c == Request("table", "output", 0)
           z == Request("bulk", "zone", 0)
<1>3. IsRequest(a) /\ IsRequest(b) /\ IsRequest(c) /\ IsRequest(z)
  BY <1>2
<1> HIDE DEF a, b, c, z
<1>4. /\ IsQueue(<<z>>) /\ Elems(<<z>>) = {z}
      /\ IsQueue(<<a, b, c>>) /\ Elems(<<a, b, c>>) \subseteq {a, b, c}
  BY <1>3, ThreeMade
<1>5. (\A r \in Elems(<<z>>) : IsRequest(r)) /\ \A r \in Elems(<<a, b, c>>) : IsRequest(r)
  <2> HIDE DEF IsRequest
  <2> QED BY <1>3, <1>4
<1> QED BY <1>4, <1>5 DEF BulkZones, a, b, c, z

\* The first six requests of a session.
LEMMA SixMade ==
  LET six == [k \in 1..6 |->
          Request(<<"table", "table", "table", "configured", "configured", "configured">>[k],
                  <<"area", "zone", "output", "area", "zone", "output">>[k], 0)]
  IN IsQueue(six) /\ \A r \in Elems(six) : IsRequest(r)
<1> DEFINE what == <<"table", "table", "table", "configured", "configured", "configured">>
           dom == <<"area", "zone", "output", "area", "zone", "output">>
           six == [k \in 1..6 |-> Request(what[k], dom[k], 0)]
           S == {six[k] : k \in 1..6}
<1>1. \A k \in 1..6 : what[k] \in Message /\ dom[k] \in Domain
  BY DEF Message, Domain
<1> HIDE DEF what, dom
<1>2. \A k \in 1..6 : IsRequest(six[k])
  BY <1>1, RequestMade
<1>3. six \in [1..6 -> S]
  OBVIOUS
<1>4. \A r \in S : IsRequest(r)
  BY <1>2
<1> HIDE DEF S, six
<1>5. six \in Seq(S)
  <2>1. \A n \in Nat : six \in [1..n -> S] => six \in Seq(S)
    BY IsASeq
  <2>2. 6 \in Nat
    OBVIOUS
  <2> QED BY <1>3, <2>1, <2>2, Zenon
<1> QED BY <1>4, <1>5, ElemsTyped, QueueOfTyped DEF what, dom, six

\* MarkInventoryReady asks for attributes and statuses of finitely many items.
LEMMA ListAsked ==
  ASSUME NEW d \in Domain, NEW ids, IsFiniteSet(ids)
  PROVE  LET rs == Requests("attribs", d, ids) \o Requests("status", d, ids)
         IN IsQueue(rs) /\ \A r \in Elems(rs) : IsRequest(r)
<1>1. "attribs" \in Message /\ "status" \in Message
  BY DEF Message
<1> DEFINE a == Requests("attribs", d, ids)
           b == Requests("status", d, ids)
<1>2. IsQueue(a) /\ (\A r \in Elems(a) : IsRequest(r)) /\ IsQueue(b) /\ \A r \in Elems(b) : IsRequest(r)
  BY <1>1, RequestsMade
<1> HIDE DEF a, b
<1>3. IsQueue(a \o b) /\ Elems(a \o b) = Elems(a) \cup Elems(b)
  BY <1>2, JoinsMany
<1> QED BY <1>2, <1>3 DEF a, b

-----------------------------------------------------------------------------
(* Every step keeps the types.                                              *)


InvTyped(v) == /\ DOMAIN v = {"configured", "complete", "streak", "last", "max"}
               /\ IsFiniteSet(v.configured)

LEMMA InvKept ==
  ASSUME NEW d \in Domain, NEW x, InvTyped(x), inv' = [inv EXCEPT ![d] = x],
         within' = within, TablesTyped
  PROVE  TablesTyped'
<1>1. DOMAIN inv' = Domain /\ \A c \in Domain : inv'[c] = IF c = d THEN x ELSE inv[c]
  BY DEF TablesTyped
<1> QED BY <1>1 DEF TablesTyped, InvTyped

LEMMA ConfiguredTyped ==
  ASSUME Typed, NEW m, m = Head(posts), posts # <<>>, Configured(m), UNCHANGED within
  PROVE  PostsTyped' /\ TablesTyped'
<1> DEFINE d == m.dom
           e == Post("inventoryReady", d, {}, TRUE)
           ids == m.ids \cap within[d]
<1>1. m \in Elems(posts) /\ d \in Domain
  BY Emitted DEF Typed, PostsTyped
<1>2. PostTyped(e)
  BY <1>1 DEF PostTyped, Post
<1>3. CASE ~m.flag
  <2>1. Emit(<<>>) /\ UNCHANGED inv
    BY <1>3 DEF Configured
  <2> QED BY <2>1, EmitTyped DEF Typed, TablesTyped
<1>4. CASE m.flag
  <2> DEFINE x == [inv[d] EXCEPT !.configured = ids, !.complete = TRUE]
  <2>1. /\ inv' = [inv EXCEPT ![d].configured = ids, ![d].complete = TRUE]
        /\ Emit(IF d = "output" \/ ~inv[d].complete THEN <<e>> ELSE <<>>)
    BY <1>4 DEF Configured
  <2>2. Emit(<<e>>) \/ Emit(<<>>)
    BY <2>1
  <2>3. IsFiniteSet(ids)
    BY <1>1, FS_Intersection DEF Typed, TablesTyped
  <2> HIDE DEF ids
  <2>4. inv' = [inv EXCEPT ![d] = x]
    BY <1>1, <2>1 DEF Typed, TablesTyped
  <2>5. InvTyped(x)
    BY <1>1, <2>3 DEF Typed, TablesTyped, InvTyped
  <2> QED BY <1>1, <1>2, <2>2, <2>4, <2>5, EmitTyped, InvKept DEF Typed
<1> QED BY <1>3, <1>4

LEMMA TableInfoTyped ==
  ASSUME Typed, NEW m, m = Head(posts), posts # <<>>, m.kind = "table", TableInfo(m)
  PROVE  PostsTyped' /\ TablesTyped'
<1> DEFINE d == m.dom
<1>1. m \in Elems(posts) /\ d \in Domain /\ (m.flag => IsFiniteSet(m.ids))
  BY Emitted DEF Typed, PostsTyped
<1>2. CASE ~m.flag
  <2>1. Emit(<<>>) /\ UNCHANGED <<inv, within>>
    BY <1>2 DEF TableInfo
  <2> QED BY <2>1, EmitTyped DEF Typed, TablesTyped
<1>3. CASE m.flag
  <2>1. /\ within' = [within EXCEPT ![d] = m.ids]
        /\ inv' = IF d = "output" THEN inv ELSE [inv EXCEPT ![d].configured = @ \cap m.ids]
        /\ Emit(<<>>) \/ \E changed \in BOOLEAN : Emit(<<Post("csmUpdated", d, {}, changed)>>)
    BY <1>3 DEF TableInfo
  <2>2. \A changed : PostTyped(Post("csmUpdated", d, {}, changed))
    BY <1>1, PostMade DEF PostTyped
  <2>3. PostsTyped'
    BY <2>1, <2>2, EmitTyped DEF Typed
  <2>4. DOMAIN within' = Domain /\ \A c \in Domain : IsFiniteSet(within'[c])
    BY <1>1, <1>3, <2>1 DEF Typed, TablesTyped
  <2>5. IsFiniteSet(inv[d].configured \cap m.ids)
    BY <1>1, FS_Intersection DEF Typed, TablesTyped
  <2> DEFINE cut == inv[d].configured \cap m.ids
  <2>6. inv' = IF d = "output" THEN inv ELSE [inv EXCEPT ![d].configured = cut]
    BY <2>1
  <2> HIDE DEF cut
  <2>7. IsFiniteSet(cut)
    BY <2>5 DEF cut
  <2>8. /\ DOMAIN inv' = Domain
        /\ \A c \in Domain : inv'[c] = inv[c] \/ inv'[c] = [inv[c] EXCEPT !.configured = cut]
    BY <1>1, <2>6 DEF Typed, TablesTyped
  <2>9. ASSUME NEW c \in Domain
        PROVE  /\ DOMAIN inv'[c] = {"configured", "complete", "streak", "last", "max"}
               /\ IsFiniteSet(inv'[c].configured)
    BY <2>7, <2>8 DEF Typed, TablesTyped
  <2> QED BY <2>3, <2>4, <2>8, <2>9 DEF TablesTyped
<1> QED BY <1>2, <1>3

LEMMA RecordInvalidTyped ==
  ASSUME NEW v, InvTyped(v), NEW i
  PROVE  InvTyped(RecordInvalid(v, i)) /\ RecordInvalid(v, i).complete = v.complete
<1> DEFINE n   == IF v.last # 0 /\ i = v.last + 1 THEN v.streak + 1 ELSE 1
           top == i - n
           cut == n >= Streak /\ (v.max = -1 \/ top < v.max)
           kept == IF cut THEN {j \in v.configured : j <= top} ELSE v.configured
           max == IF cut THEN top ELSE v.max
           w == [v EXCEPT !.last = i, !.streak = n, !.max = max, !.configured = kept]
<1>1. RecordInvalid(v, i) = w
  BY DEF RecordInvalid
<1>2. kept \subseteq v.configured
  OBVIOUS
<1> HIDE DEF n, max, kept
<1>3. IsFiniteSet(kept)
  BY <1>2, FS_Subset DEF InvTyped
<1> QED BY <1>1, <1>3 DEF InvTyped

LEMMA AttribsTyped ==
  ASSUME Typed, NEW m, m = Head(posts), posts # <<>>, Attribs(m), UNCHANGED within
  PROVE  PostsTyped' /\ TablesTyped'
<1> DEFINE i == CHOOSE j \in m.ids : TRUE
<1>1. m \in Elems(posts) /\ m.dom \in Domain
  BY Emitted DEF Typed, PostsTyped
<1>2. Emit(<<>>)
  BY DEF Attribs
<1>3. inv' = inv \/ inv' = [inv EXCEPT ![m.dom] = RecordInvalid(inv[m.dom], i)]
  BY <1>1 DEF Attribs, Typed, TablesTyped
<1> HIDE DEF i
<1>4. InvTyped(RecordInvalid(inv[m.dom], i))
  BY <1>1, RecordInvalidTyped DEF InvTyped, Typed, TablesTyped
<1>5. CASE inv' = inv
  BY <1>2, <1>5, EmitTyped DEF Typed, TablesTyped
<1>6. CASE inv' = [inv EXCEPT ![m.dom] = RecordInvalid(inv[m.dom], i)]
  BY <1>1, <1>2, <1>4, <1>6, EmitTyped, InvKept DEF Typed
<1> QED BY <1>3, <1>5, <1>6

\* A status that came is remembered in its domain.
LEMMA SeenTyped ==
  ASSUME ClientTyped, NEW d \in Domain, NEW x, UNCHANGED <<asked, boot>>,
         seen' = seen \/ seen' = [seen EXCEPT ![d] = x]
  PROVE  ClientTyped'
BY DEF ClientTyped

LEMMA StatusTyped ==
  ASSUME Typed, NEW m, m = Head(posts), posts # <<>>, Status(m) \/ BulkStatus(m),
         UNCHANGED <<asked, boot>>
  PROVE  PostsTyped' /\ ClientTyped'
<1>1. m \in Elems(posts) /\ m.dom \in Domain
  BY Emitted DEF Typed, PostsTyped
<1>2. \A ids, changed : PostTyped(Post("statusUpdated", m.dom, ids, changed))
  BY <1>1, PostMade DEF PostTyped
<1>3. \/ Emit(<<>>)
      \/ \E ids, changed : Emit(<<Post("statusUpdated", m.dom, ids, changed)>>)
  BY DEF Status, BulkStatus
<1>4. PostsTyped'
  BY <1>2, <1>3, EmitTyped DEF Typed
<1>5. seen' = seen \/ \E x : seen' = [seen EXCEPT ![m.dom] = x]
  BY DEF Status, BulkStatus
<1>6. ClientTyped'
  BY <1>1, <1>5, SeenTyped DEF Typed
<1> QED BY <1>4, <1>6

LEMMA OnMessageTyped == ASSUME Typed, OnMessage PROVE Typed'
<1> DEFINE m == Head(posts)
<1>1. posts # <<>> /\ UNCHANGED <<sched, asked, boot>>
  BY DEF OnMessage, sched, client
<1>2. RequestsTyped'
  BY <1>1 DEF Typed, RequestsTyped, sched
<1>3. CASE Configured(m) /\ UNCHANGED <<within, seen>>
  <2>1. PostsTyped' /\ TablesTyped'
    BY <1>1, <1>3, ConfiguredTyped
  <2> QED BY <1>1, <1>2, <1>3, <2>1 DEF Typed, ClientTyped
<1>4. CASE m.kind = "table" /\ TableInfo(m) /\ UNCHANGED <<zones, seen>>
  <2>1. PostsTyped' /\ TablesTyped'
    BY <1>1, <1>4, TableInfoTyped
  <2> QED BY <1>1, <1>2, <1>4, <2>1 DEF Typed, ClientTyped
<1>5. CASE Attribs(m) /\ UNCHANGED <<within, seen>>
  <2>1. PostsTyped' /\ TablesTyped'
    BY <1>1, <1>5, AttribsTyped
  <2> QED BY <1>1, <1>2, <1>5, <2>1 DEF Typed, ClientTyped
<1>6. CASE Status(m) /\ UNCHANGED <<inv, within>>
  <2>1. PostsTyped' /\ ClientTyped'
    BY <1>1, <1>6, StatusTyped
  <2> QED BY <1>2, <1>6, <2>1 DEF Typed, TablesTyped
<1>7. CASE BulkStatus(m) /\ UNCHANGED tables
  <2>1. PostsTyped' /\ ClientTyped'
    BY <1>1, <1>7, StatusTyped
  <2> QED BY <1>2, <1>7, <2>1 DEF Typed, TablesTyped, tables
<1> QED BY <1>3, <1>4, <1>5, <1>6, <1>7 DEF OnMessage

LEMMA ClientKept ==
  ASSUME ClientTyped, UNCHANGED seen,
         \/ UNCHANGED client
         \/ ResetBootstrap
         \/ \E d \in Domain : \E ids : MarkStatusSeen(d, ids) /\ UNCHANGED asked
  PROVE  ClientTyped'
<1>1. CASE UNCHANGED client
  BY <1>1 DEF ClientTyped, client
<1>2. CASE ResetBootstrap
  BY <1>2 DEF ClientTyped, ResetBootstrap, NotStarted, NothingSeen
<1>3. CASE \E d \in Domain : \E ids : MarkStatusSeen(d, ids) /\ UNCHANGED asked
  <2>1. PICK d, ids : d \in Domain /\ MarkStatusSeen(d, ids) /\ UNCHANGED asked
    BY <1>3
  <2> DEFINE left == boot[d].pending \ ids
             x == [boot[d] EXCEPT !.pending = left, !.status = @ \/ left = {}]
  <2>2. boot' = [boot EXCEPT ![d] = x]
    BY <2>1 DEF MarkStatusSeen, MaybeSetReady, ClientTyped
  <2>3. /\ DOMAIN x = {"inventory", "pending", "status"}
        /\ x.inventory \in BOOLEAN /\ x.status \in BOOLEAN
    BY <2>1 DEF ClientTyped
  <2> HIDE DEF x
  <2> QED BY <2>1, <2>2, <2>3 DEF ClientTyped
<1> QED BY <1>1, <1>2, <1>3

LEMMA MarkInventoryReadyTyped ==
  ASSUME Typed, NEW d \in Domain, MarkInventoryReady(d), UNCHANGED <<backoff, seen>>
  PROVE  RequestsTyped' /\ ClientTyped'
<1>1. CASE boot[d].inventory
  <2>1. boot' = boot /\ UNCHANGED <<requests, asked>>
    BY <1>1 DEF MarkInventoryReady, MaybeSetReady
  <2> QED BY <2>1 DEF Typed, RequestsTyped, ClientTyped
<1>2. CASE ~boot[d].inventory
  <2> DEFINE ids == inv[d].configured
             rs == Requests("attribs", d, ids) \o Requests("status", d, ids)
             x == [inventory |-> TRUE, pending |-> ids, status |-> ids = {}]
  <2>1. /\ boot' = [boot EXCEPT ![d] = x]
        /\ asked' = [asked EXCEPT ![d] = ids]
        /\ requests' = Queued(rs)
    BY <1>2 DEF MarkInventoryReady, MaybeSetReady
  <2>2. IsFiniteSet(ids)
    BY DEF Typed, TablesTyped
  <2> HIDE DEF ids
  <2>3. IsQueue(rs) /\ \A r \in Elems(rs) : IsRequest(r)
    BY <2>2, ListAsked
  <2>4. RequestsTyped'
    BY <2>1, <2>3, RequestsGrow DEF Typed
  <2>5. /\ DOMAIN x = {"inventory", "pending", "status"}
        /\ x.inventory \in BOOLEAN /\ x.status \in BOOLEAN
    OBVIOUS
  <2> HIDE DEF x
  <2>6. ClientTyped'
    BY <2>1, <2>5 DEF Typed, ClientTyped
  <2> QED BY <2>4, <2>6
<1> QED BY <1>1, <1>2

\* The events: what they ask for is typed, and only OnDown starts the wait anew.
LEMMA OnEventTyped == ASSUME Typed, OnEvent PROVE Typed'
<1> DEFINE e == Head(posts)
<1>1. /\ posts # <<>> /\ posts' = Tail(posts)
      /\ UNCHANGED <<backoff, inv, within, seen>>
  BY DEF OnEvent, tables, history
<1>2. e \in Elems(posts) /\ e.dom \in Domain
  BY <1>1, Emitted DEF Typed, PostsTyped
<1>3. PostsTyped'
  BY <1>1, Emitted DEF Typed, PostsTyped
<1>4. TablesTyped'
  BY <1>1 DEF Typed, TablesTyped
<1>5. CASE OnUp
  <2>1. boot' = boot /\ UNCHANGED asked
    BY <1>5 DEF OnUp, MaybeSetReady
  <2> DEFINE three == <<Request("table", "area", 0), Request("table", "zone", 0),
                        Request("table", "output", 0)>>
  <2>2. requests' = requests \/ requests' = Queued(BulkZones) \/ requests' = Queued(three)
    BY <1>5 DEF OnUp
  <2>3. /\ IsQueue(BulkZones) /\ (\A r \in Elems(BulkZones) : IsRequest(r))
        /\ IsQueue(three) /\ \A r \in Elems(three) : IsRequest(r)
    BY ReadsMade
  <2> HIDE DEF three
  <2>4. RequestsTyped'
    BY <1>1, <2>2, <2>3, RequestsGrow DEF Typed
  <2> QED BY <1>1, <1>3, <1>4, <2>1, <2>4 DEF Typed, ClientTyped
<1>6. CASE OnDown
  <2>1. ResetBootstrap /\ UNCHANGED requests
    BY <1>6 DEF OnDown
  <2>2. ClientTyped'
    BY <1>1, <2>1, ClientKept DEF Typed
  <2> QED BY <1>1, <1>3, <1>4, <2>1, <2>2 DEF Typed, RequestsTyped
<1>7. CASE MarkInventoryReady(e.dom)
  BY <1>1, <1>2, <1>3, <1>4, <1>7, MarkInventoryReadyTyped DEF Typed
<1>8. CASE OnStatusUpdated(e)
  <2>1. /\ MarkStatusSeen(e.dom, e.ids) /\ UNCHANGED asked
        /\ requests' = requests \/ requests' = Queued(BulkZones)
    BY <1>8 DEF OnStatusUpdated
  <2>2. RequestsTyped'
    BY <1>1, <2>1, ReadsMade, RequestsGrow DEF Typed
  <2>3. ClientTyped'
    BY <1>1, <1>2, <2>1, ClientKept DEF Typed
  <2> QED BY <1>3, <1>4, <2>2, <2>3 DEF Typed
<1>9. CASE OnCsmUpdated(e)
  <2>1. /\ boot' = boot /\ UNCHANGED asked
        /\ requests' = requests \/ requests' = Queued(BulkZones)
    BY <1>9 DEF OnCsmUpdated, MaybeSetReady
  <2>2. RequestsTyped'
    BY <1>1, <2>1, ReadsMade, RequestsGrow DEF Typed
  <2> QED BY <1>1, <1>3, <1>4, <2>1, <2>2 DEF Typed, ClientTyped
<1> QED BY <1>5, <1>6, <1>7, <1>8, <1>9 DEF OnEvent

\* The link and the calls.
LEMMA LinkTyped ==
  ASSUME Typed, Connect \/ HelloEnds \/ LinkBreaks \/ OnDisconnected \/ ConnectSucceeds
                \/ ConnectFails \/ Close \/ CloseEnds
  PROVE  Typed'
<1> DEFINE P(kind) == Post(kind, "area", {}, TRUE)
<1>0. ASSUME NEW kind \in {"connectDone", "disconnected", "lost", "up", "closeDone", "closed"}
      PROVE  PostTyped(P(kind))
  BY <1>0 DEF PostTyped, Post, Domain
<1>1. CASE Connect
  <2>1. ClientTyped'
    BY <1>1, ClientKept DEF Connect, Typed, history
  <2> QED BY <1>1, <2>1 DEF Connect, Typed, RequestsTyped, PostsTyped, TablesTyped, sched, tables
<1>2. CASE HelloEnds
  <2>1. PostsTyped'
    BY <1>0, <1>2, AppendTyped DEF HelloEnds, Typed
  <2> QED BY <1>2, <2>1 DEF HelloEnds, Typed, RequestsTyped, TablesTyped, ClientTyped,
                            sched, tables, client, history
<1>3. CASE LinkBreaks
  <2>1. PostsTyped'
    BY <1>0, <1>3, AppendTyped DEF LinkBreaks, Typed
  <2> QED BY <1>3, <2>1 DEF LinkBreaks, Typed, RequestsTyped, TablesTyped, ClientTyped,
                            sched, tables, client, history
<1>4. CASE OnDisconnected
  <2>1. PostsTyped'
    BY <1>0, <1>4, EmitTyped DEF OnDisconnected, Typed
  <2>2. RequestsTyped'
    <3>1. UNCHANGED <<requests, backoff>> \/ (requests' = <<>> /\ backoff' = {})
      BY <1>4 DEF OnDisconnected
    <3> QED BY <3>1, NoQueue DEF Typed, RequestsTyped
  <2> QED BY <1>4, <2>1, <2>2 DEF OnDisconnected, Typed, TablesTyped, ClientTyped,
                                  tables, client, history
<1>5. CASE ConnectSucceeds
  <2>1. PostsTyped'
    BY <1>0, <1>5, EmitTyped DEF ConnectSucceeds, Typed
  <2>2. RequestsTyped'
    BY <1>5, SixMade DEF ConnectSucceeds, Typed, RequestsTyped
  <2>3. TablesTyped'
    <3>1. inv' = [d \in Domain |-> NoneKnown] /\ within' = Items
      BY <1>5 DEF ConnectSucceeds
    <3>2. DOMAIN Items = Domain /\ \A d \in Domain : IsFiniteSet(Items[d])
      BY ReadinessBounds
    <3>3. InvTyped(NoneKnown)
      BY FS_EmptySet DEF InvTyped, NoneKnown
    <3> QED BY <3>1, <3>2, <3>3 DEF TablesTyped, InvTyped
  <2>4. ClientTyped'
    BY <1>5 DEF ConnectSucceeds, Typed, ClientTyped, client, NothingSeen
  <2> QED BY <2>1, <2>2, <2>3, <2>4 DEF Typed
<1>6. CASE ConnectFails
  <2>1. PostsTyped'
    BY <1>6, EmitTyped DEF ConnectFails, Typed
  <2> QED BY <1>6, <2>1 DEF ConnectFails, Typed, RequestsTyped, TablesTyped, ClientTyped,
                            sched, tables, client, history
<1>7. CASE Close
  <2>1. PostsTyped'
    BY <1>0, <1>7, AppendTyped DEF Close, Typed
  <2>2. RequestsTyped'
    BY <1>7, NoQueue DEF Close, RequestsTyped
  <2> QED BY <1>7, <2>1, <2>2 DEF Close, Typed, TablesTyped, ClientTyped, tables, client, history
<1>8. CASE CloseEnds
  <2>1. PostsTyped'
    BY <1>0, <1>8, EmitTyped DEF CloseEnds, Typed
  <2>2. ClientTyped'
    BY <1>8, ClientKept DEF CloseEnds, Typed, history
  <2> QED BY <1>8, <2>1, <2>2 DEF CloseEnds, Typed, RequestsTyped, TablesTyped, sched, tables
<1> QED BY <1>1, <1>2, <1>3, <1>4, <1>5, <1>6, <1>7, <1>8

\* What the panel sends, and what becomes of the request it answers.
PanelSends ==
    /\ session \in {"fresh", "active"}
    /\ \E m : /\ posts' = Append(posts, m) /\ PostTyped(m) /\ m.kind \in Message
              /\ session # "active" => m.kind = "status"

\* The steps of the panel and the scheduler touch neither the link nor the client.
SchedulerStep == PanelAnswers \/ PanelRefuses \/ PanelCutsTable \/ ReplyTimeout \/ BackoffEnds
              \/ DropExpired \/ Broadcast \/ PanelChanges \/ AppReads

LEMMA SchedulerSends ==
  ASSUME Typed, SchedulerStep
  PROVE  /\ PanelSends \/ UNCHANGED posts
         /\ UNCHANGED <<link, tables, client, checks, seen>>
         /\ RequestsTyped'
<1> DEFINE r == Head(requests)
<1>0. \A kind, d, ids, flag : /\ Post(kind, d, ids, flag).kind = kind
                              /\ (d \in Domain /\ (kind = "table" => IsFiniteSet(ids)))
                                   => PostTyped(Post(kind, d, ids, flag))
  BY DEF Post, PostTyped
<1>1. ASSUME requests # <<>>
      PROVE  IsRequest(r) /\ IsQueue(Tail(requests)) /\ \A q \in Elems(Tail(requests)) : IsRequest(q)
  BY <1>1, RequestLeaves DEF Typed
<1>2. ASSUME requests # <<>>, requests' = Tail(requests), UNCHANGED backoff
      PROVE  RequestsTyped'
  BY <1>1, <1>2 DEF Typed, RequestsTyped
<1>3. ASSUME UNCHANGED sched PROVE RequestsTyped'
  BY <1>3 DEF Typed, RequestsTyped, sched
<1>4. CASE PanelAnswers
  <2>1. session = "active" /\ requests # <<>>
    BY <1>4 DEF PanelAnswers, InFlight
  <2>2. r.dom \in Domain /\ r.what \in Message
    BY <1>1, <2>1 DEF IsRequest
  <2>3. r.what = "table" => IsFiniteSet(Answer(r))
    <3>1. r.what = "table" => Answer(r) = Items[r.dom]
      BY DEF Answer
    <3> QED BY <2>2, <3>1, ReadinessBounds
  <2> DEFINE m == Post(r.what, r.dom, Answer(r), TRUE)
  <2>4. m.kind \in Message /\ PostTyped(m) /\ posts' = Append(posts, m)
    BY <1>0, <1>4, <2>2, <2>3 DEF PanelAnswers
  <2> HIDE DEF m
  <2>5. PanelSends
    BY <2>1, <2>4 DEF PanelSends
  <2> QED BY <1>2, <1>4, <2>1, <2>5 DEF PanelAnswers, history
<1>5. CASE PanelRefuses
  <2>1. session = "active" /\ requests # <<>>
    BY <1>5 DEF PanelRefuses, InFlight
  <2>2. r.dom \in Domain /\ r.what \in Message
    BY <1>1, <2>1 DEF IsRequest
  <2> DEFINE m == Post(r.what, r.dom, {r.id} \ {0}, FALSE)
  <2>3. m.kind \in Message /\ PostTyped(m) /\ posts' = Append(posts, m)
    BY <1>5, <2>2 DEF Post, PostTyped, PanelRefuses
  <2> HIDE DEF m
  <2>4. PanelSends
    BY <2>1, <2>3 DEF PanelSends
  <2> QED BY <1>2, <1>5, <2>1, <2>4 DEF PanelRefuses
<1>6. CASE PanelCutsTable
  <2>1. session = "active" /\ requests # <<>> /\ r.what = "table"
    BY <1>6 DEF PanelCutsTable, InFlight
  <2>2. r.dom \in Domain
    BY <1>1, <2>1 DEF IsRequest
  <2>3. IsFiniteSet(Items[r.dom] \cap {1})
    BY <2>2, ReadinessBounds, FS_Intersection
  <2> DEFINE m == Post("table", r.dom, Items[r.dom] \cap {1}, TRUE)
  <2>4. m.kind \in Message /\ PostTyped(m) /\ posts' = Append(posts, m)
    BY <1>6, <2>2, <2>3 DEF Post, PostTyped, PanelCutsTable, Message
  <2> HIDE DEF m
  <2>5. PanelSends
    BY <2>1, <2>4 DEF PanelSends
  <2> QED BY <1>2, <1>6, <2>1, <2>5 DEF PanelCutsTable, history
<1>7. CASE ReplyTimeout
  <2>1. requests # <<>> /\ requests' = Tail(requests)
    BY <1>7 DEF ReplyTimeout, InFlight
  <2>2. backoff' = backoff \/ backoff' = backoff \cup {[r EXCEPT !.attempt = @ + 1]}
    BY <1>7 DEF ReplyTimeout
  <2>3. IsRequest([r EXCEPT !.attempt = @ + 1])
    BY <1>1, <2>1 DEF IsRequest
  <2>4. RequestsTyped'
    BY <1>1, <2>1, <2>2, <2>3 DEF Typed, RequestsTyped
  <2> QED BY <1>7, <2>4 DEF ReplyTimeout
<1>8. CASE BackoffEnds
  <2>1. PICK q \in backoff : requests' = Append(requests, q) /\ backoff' = backoff \ {q}
    BY <1>8 DEF BackoffEnds
  <2>2. RequestsTyped'
    <3>1. IsRequest(q) /\ backoff' \subseteq backoff
      BY <2>1 DEF Typed, RequestsTyped
    <3> QED BY <2>1, <3>1, RequestAdded DEF Typed
  <2> QED BY <1>8, <2>2 DEF BackoffEnds, history
<1>9. CASE DropExpired
  BY <1>2, <1>9 DEF DropExpired, InFlight
<1>10. CASE Broadcast
  <2>1. PICK d, i : d \in Domain /\ posts' = Append(posts, Post("status", d, {i}, TRUE))
    BY <1>10 DEF Broadcast
  <2>2. Post("status", d, {i}, TRUE).kind = "status" /\ PostTyped(Post("status", d, {i}, TRUE))
    BY <2>1 DEF Post, PostTyped
  <2>3. PanelSends
    BY <1>10, <2>1, <2>2 DEF Broadcast, PanelSends, Message
  <2> QED BY <1>3, <1>10, <2>3 DEF Broadcast, history
<1>11. CASE PanelChanges
  BY <1>3, <1>11 DEF PanelChanges, history
<1>12. CASE AppReads
  <2>1. PICK r0 \in [what : {"configured"}, dom : Domain] \cup [what : {"bulk"}, dom : {"output"}] :
          requests' = Append(requests, Request(r0.what, r0.dom, 0))
    BY <1>12 DEF AppReads
  <2>2. r0.what \in Message /\ r0.dom \in Domain
    BY <2>1 DEF Message, Domain
  <2>3. RequestsTyped'
    BY <1>12, <2>1, <2>2, RequestMade, RequestAdded DEF AppReads, Typed
  <2> QED BY <1>12, <2>3 DEF AppReads, history
<1> QED BY <1>4, <1>5, <1>6, <1>7, <1>8, <1>9, <1>10, <1>11, <1>12 DEF SchedulerStep

LEMMA SchedulerTyped == ASSUME Typed, SchedulerStep PROVE Typed'
<1>1. /\ PanelSends \/ UNCHANGED posts
      /\ UNCHANGED <<inv, within, boot, asked, seen>>
      /\ RequestsTyped'
  BY SchedulerSends DEF tables, client
<1>2. PostsTyped'
  BY <1>1, AppendTyped DEF PanelSends, Typed, PostsTyped
<1> QED BY <1>1, <1>2 DEF Typed, TablesTyped, ClientTyped

LEMMA StutterTyped == ASSUME Typed, UNCHANGED vars PROVE Typed'
BY DEF Typed, RequestsTyped, PostsTyped, TablesTyped, ClientTyped, vars, link, sched, tables,
       client, history

LEMMA StepTyped == ASSUME Typed, [Next]_vars PROVE Typed'
BY OnMessageTyped, OnEventTyped, LinkTyped, SchedulerTyped, StutterTyped
   DEF Next, LoopStep, SchedulerStep

LEMMA InitTyped == ASSUME Init PROVE Typed
<1>1. RequestsTyped /\ PostsTyped
  BY NoQueue DEF Init, RequestsTyped, PostsTyped
<1>2. TablesTyped
  <2>1. DOMAIN Items = Domain /\ \A d \in Domain : IsFiniteSet(Items[d])
    BY ReadinessBounds
  <2>2. InvTyped(NoneKnown)
    BY FS_EmptySet DEF InvTyped, NoneKnown
  <2> QED BY <2>1, <2>2 DEF Init, TablesTyped, InvTyped
<1>3. ClientTyped
  BY DEF Init, ClientTyped, NothingSeen, NotStarted
<1> QED BY <1>1, <1>2, <1>3 DEF Typed

-----------------------------------------------------------------------------
(* The inductive invariant.  A place of the queue is named by its index.     *)

Kind(i) == posts[i].kind
Places == 1..Len(posts)

\* A callback that will reset the client's wait, or post the event that does; and
\* the event.
Promise(i) == Kind(i) = "closeDone" \/ (connected /\ Kind(i) = "disconnected")
Fence(i) == Kind(i) \in {"lost", "closed"}

\* Who is connected, and which call of the client is under way.
LinkInv ==
    /\ connected \in BOOLEAN
    /\ connected => call = "none" /\ session \in {"active", "broken"}
    /\ session = "active" => connected
    /\ session \in {"hello", "fresh"} => call \in {"first", "second"}
    /\ session = "broken" /\ connected => \E i \in Places : Kind(i) = "disconnected"

\* One callback at most tells the end of a call; no reset stands behind the end of an
\* attempt to connect, and none is posted while a session is active.
OrderInv ==
    \A i \in Places :
      /\ Kind(i) = "connectDone" =>
           /\ call \in {"first", "second"} /\ session # "hello"
           /\ \A k \in Places : Kind(k) = "connectDone" => k = i
           /\ \A k \in Places : k > i => ~Fence(k)
           /\ \A k \in Places : k > i /\ session = "fresh" => Kind(k) # "disconnected"
      /\ Kind(i) = "closeDone" =>
           call = "close" /\ \A k \in Places : Kind(k) = "closeDone" => k = i
      /\ Kind(i) = "disconnected" /\ connected =>
           session = "broken" /\ \A k \in Places : Kind(k) = "disconnected" => k = i
      /\ Fence(i) => session # "active"

\* Without an active session, whatever is left of the last one is reset before it can
\* count: the lists that are still to be handled, their events, and what the client
\* has already made of them.
StaleInv ==
    session # "active" =>
      /\ \A i \in Places :
           /\ Kind(i) = "configured" => \E k \in Places : k > i /\ Promise(k)
           /\ Kind(i) = "inventoryReady" =>
                \E k \in Places : Promise(k) \/ (k > i /\ Fence(k))
      /\ \A d \in Domain : boot[d].inventory => \E k \in Places : Promise(k) \/ Fence(k)

\* In an active session a list that is told is complete; a status that is told came in
\* this session, or the list that waits for it is not told yet; and the client waits
\* for all of a list that has not been seen.
FreshInv ==
    session = "active" =>
      /\ \A i \in Places :
           LET p == posts[i]
           IN /\ Kind(i) = "inventoryReady" => inv[p.dom].complete
              /\ Kind(i) = "statusUpdated" =>
                   \/ p.ids \subseteq seen[p.dom]
                   \/ /\ ~boot[p.dom].inventory
                      /\ \A k \in Places : k < i /\ Kind(k) = "inventoryReady"
                                            => posts[k].dom # p.dom
      /\ \A d \in Domain : boot[d].inventory =>
           inv[d].complete /\ asked[d] \subseteq seen[d] \cup boot[d].pending

\* Whatever the session: a domain is ready when nothing of it is awaited, and the
\* event is set for a client that is ready.
BootInv ==
    /\ \A d \in Domain : boot[d].inventory /\ boot[d].status => boot[d].pending = {}
    /\ Ready => signalled

ReadinessInv == Typed /\ LinkInv /\ OrderInv /\ StaleInv /\ FreshInv /\ BootInv

LEMMA InvImpliesReadyMeansRead == ASSUME ReadinessInv PROVE ReadyMeansRead
<1>1. ASSUME Ready PROVE signalled
  BY <1>1 DEF ReadinessInv, BootInv
<1>2. ASSUME Ready, NEW d \in Domain PROVE inv[d].complete /\ asked[d] \subseteq seen[d]
  <2>1. session = "active" /\ boot[d].inventory /\ boot[d].status
    BY <1>2 DEF Ready, BootstrapReady
  <2>2. boot[d].pending = {}
    BY <2>1 DEF ReadinessInv, BootInv
  <2> QED BY <2>1, <2>2 DEF ReadinessInv, FreshInv
<1> QED BY <1>1, <1>2 DEF ReadyMeansRead

-----------------------------------------------------------------------------
(* What a step does to the places.                                          *)

\* The first s callbacks leave, and e joins if new: the others keep their order.
Moves(s, new, e) ==
    /\ \A i \in Places' : \/ i + s \in Places /\ posts'[i] = posts[i + s]
                          \/ new /\ i = Len(posts') /\ posts'[i] = e
                             /\ \A k \in Places : k - s < i
    /\ \A k \in Places : k > s => k - s \in Places' /\ posts'[k - s] = posts[k]
    /\ new => Len(posts') \in Places' /\ posts'[Len(posts')] = e
    /\ Places \subseteq Nat \ {0} /\ Places' \subseteq Nat \ {0}
    /\ Len(posts) \in Nat /\ Len(posts') \in Nat
    /\ s = 1 => 1 \in Places /\ posts[1] = Head(posts)

LEMMA Shifted ==
  ASSUME NEW s \in {0, 1}, NEW new \in BOOLEAN, NEW e,
         Len(posts) \in Nat, Len(posts) >= s,
         Len(posts') = Len(posts) - s + (IF new THEN 1 ELSE 0),
         \A i \in 1..(Len(posts) - s) : posts'[i] = posts[i + s],
         new => posts'[Len(posts')] = e,
         s = 1 => posts[1] = Head(posts)
  PROVE  Moves(s, new, e)
<1> DEFINE n == Len(posts)
           m == Len(posts')
<1>1. n \in Nat /\ m \in Nat /\ n >= s /\ m = n - s + (IF new THEN 1 ELSE 0)
  OBVIOUS
<1> HIDE DEF n, m
<1>2. ASSUME NEW i \in 1..m
      PROVE  \/ i \in 1..(n - s) /\ i + s \in 1..n
             \/ new /\ i = m /\ \A k \in 1..n : k - s < i
  BY <1>1
<1>3. \A k \in 1..n : k > s => k - s \in 1..m /\ k - s \in 1..(n - s) /\ (k - s) + s = k
  BY <1>1
<1>4. new => m \in 1..m
  BY <1>1
<1>5. s = 1 => 1 \in 1..n
  BY <1>1
<1>6. 1..n \subseteq Nat \ {0} /\ 1..m \subseteq Nat \ {0}
  BY <1>1
<1>7. \A i \in 1..(n - s) : posts'[i] = posts[i + s]
  BY DEF n
<1>8. new => posts'[m] = e
  BY DEF m
<1>9. Places = 1..n /\ Places' = 1..m
  BY DEF Places, n, m
<1>10. \A i \in 1..m : \/ i + s \in 1..n /\ posts'[i] = posts[i + s]
                       \/ new /\ i = m /\ posts'[i] = e /\ \A k \in 1..n : k - s < i
  BY <1>2, <1>7, <1>8
<1>11. \A k \in 1..n : k > s => k - s \in 1..m /\ posts'[k - s] = posts[k]
  BY <1>3, <1>7
<1>12. n = Len(posts) /\ m = Len(posts')
  BY DEF n, m
<1>13. ASSUME NEW i \in Places'
       PROVE  \/ i + s \in Places /\ posts'[i] = posts[i + s]
              \/ new /\ i = Len(posts') /\ posts'[i] = e /\ \A k \in Places : k - s < i
  <2>1. i \in 1..m
    BY <1>9
  <2>2. \/ i + s \in 1..n /\ posts'[i] = posts[i + s]
        \/ new /\ i = m /\ posts'[i] = e /\ \A k \in 1..n : k - s < i
    BY <1>10, <2>1
  <2>3. m = Len(posts') /\ Places = 1..n
    BY <1>9, <1>12
  <2> QED BY <2>2, <2>3
<1>14. \A k \in Places : k > s => k - s \in Places' /\ posts'[k - s] = posts[k]
  BY <1>9, <1>11, Zenon
<1>15. new => Len(posts') \in Places' /\ posts'[Len(posts')] = e
  BY <1>4, <1>8, <1>9, <1>12, Zenon
<1>16. Places \subseteq Nat \ {0} /\ Places' \subseteq Nat \ {0}
  BY <1>6, <1>9, Zenon
<1>17. s = 1 => 1 \in Places /\ posts[1] = Head(posts)
  BY <1>5, <1>9, Zenon
<1>18. Len(posts) \in Nat /\ Len(posts') \in Nat
  BY <1>1, <1>12
<1> QED BY <1>13, <1>14, <1>15, <1>16, <1>17, <1>18 DEF Moves

LEMMA PostJoins ==
  ASSUME PostsTyped, NEW e, posts' = Append(posts, e)
  PROVE  Moves(0, TRUE, e)
<1>1. /\ Len(posts) \in Nat /\ Len(posts') = Len(posts) + 1
      /\ \A i \in 1..Len(posts) : posts'[i] = posts[i]
      /\ posts'[Len(posts) + 1] = e
  BY Joins DEF PostsTyped
<1>2. /\ 0 \in {0, 1} /\ TRUE \in BOOLEAN /\ Len(posts) >= 0 /\ ~(0 = 1)
      /\ Len(posts') = Len(posts) - 0 + (IF TRUE THEN 1 ELSE 0)
      /\ posts'[Len(posts')] = e
      /\ \A i \in 1..(Len(posts) - 0) : posts'[i] = posts[i + 0]
  BY <1>1
<1> QED BY <1>1, <1>2, Shifted, Zenon

LEMMA PostLeaves ==
  ASSUME PostsTyped, posts # <<>>, posts' = Tail(posts)
  PROVE  \A e : Moves(1, FALSE, e)
<1>1. /\ Len(posts) \in Nat \ {0} /\ Len(posts') = Len(posts) - 1
      /\ \A i \in 1..(Len(posts) - 1) : posts'[i] = posts[i + 1]
      /\ Head(posts) = posts[1]
  BY Leaves DEF PostsTyped
<1>2. /\ 1 \in {0, 1} /\ FALSE \in BOOLEAN /\ Len(posts) \in Nat /\ Len(posts) >= 1
      /\ Len(posts') = Len(posts) - 1 + (IF FALSE THEN 1 ELSE 0)
  BY <1>1
<1> QED BY <1>1, <1>2, Shifted, Zenon

LEMMA PostRuns ==
  ASSUME PostsTyped, posts # <<>>
  PROVE  /\ Emit(<<>>) => \A e : Moves(1, FALSE, e)
         /\ \A e : Emit(<<e>>) => Moves(1, TRUE, e)
<1>1. Emit(<<>>) => \A e : Moves(1, FALSE, e)
  BY Emitted, PostLeaves
<1>2. ASSUME NEW e, Emit(<<e>>)
      PROVE  Moves(1, TRUE, e)
  <2> DEFINE t == Tail(posts)
  <2>1. posts' = Append(t, e)
    BY <1>2, Emitted
  <2>2. /\ IsQueue(t) /\ Len(posts) \in Nat \ {0} /\ Len(t) = Len(posts) - 1
        /\ \A i \in 1..(Len(posts) - 1) : t[i] = posts[i + 1]
        /\ Head(posts) = posts[1]
    BY Leaves DEF PostsTyped
  <2> HIDE DEF t
  <2>3. /\ Len(posts') = Len(posts) /\ posts'[Len(posts)] = e
        /\ \A i \in 1..(Len(posts) - 1) : posts'[i] = t[i]
    <3>1. /\ Len(posts') = Len(t) + 1 /\ posts'[Len(t) + 1] = e
          /\ \A i \in 1..Len(t) : posts'[i] = t[i]
      BY <2>1, <2>2, Joins
    <3> QED BY <2>2, <3>1
  <2>4. \A i \in 1..(Len(posts) - 1) : posts'[i] = posts[i + 1]
    BY <2>2, <2>3
  <2>5. /\ 1 \in {0, 1} /\ TRUE \in BOOLEAN /\ Len(posts) \in Nat /\ Len(posts) >= 1
        /\ Len(posts') = Len(posts) - 1 + (IF TRUE THEN 1 ELSE 0)
        /\ posts'[Len(posts')] = e
    BY <2>2, <2>3
  <2> QED BY <2>2, <2>4, <2>5, Shifted, Zenon
<1> QED BY <1>1, <1>2

\* Callbacks that neither end a call nor reset anything.
Plain(kind) == kind \notin {"connectDone", "closeDone", "disconnected", "lost", "closed"}

LEMMA LinkKept ==
  ASSUME LinkInv, OrderInv, UNCHANGED link, NEW s \in {0, 1}, NEW new \in BOOLEAN, NEW e,
         Moves(s, new, e), new => Plain(e.kind),
         s = 1 => Kind(1) # "disconnected"
  PROVE  LinkInv' /\ OrderInv'
<1>1. UNCHANGED <<session, connected, call>>
  BY DEF link
<1>2. ASSUME \E i \in Places : Kind(i) = "disconnected"
      PROVE  \E i \in Places' : Kind(i)' = "disconnected"
  <2>1. PICK i \in Places : Kind(i) = "disconnected"
    BY <1>2
  <2>2. i > s
    BY <2>1 DEF Moves
  <2>3. i - s \in Places' /\ posts'[i - s] = posts[i]
    BY <2>2 DEF Moves
  <2> QED BY <2>1, <2>3 DEF Kind
<1>3. LinkInv'
  BY <1>1, <1>2 DEF LinkInv
<1>4. ASSUME NEW i \in Places', ~Plain(Kind(i)')
      PROVE  i + s \in Places /\ posts'[i] = posts[i + s] /\ Kind(i)' = Kind(i + s)
  BY <1>4 DEF Moves, Kind
<1>5. ASSUME NEW i \in Places', NEW k \in Places'
      PROVE  /\ (k > i) = (k + s > i + s) /\ (k = i) = (k + s = i + s)
  BY <1>5 DEF Moves
<1>6. OrderInv'
  BY <1>1, <1>4, <1>5, SMTT(30) DEF OrderInv, Fence, Plain
<1> QED BY <1>3, <1>6

\* Without an active session, a step of the loop or the panel that keeps the link.
LEMMA StaleKept ==
  ASSUME StaleInv, UNCHANGED link, session # "active",
         NEW s \in {0, 1}, NEW new \in BOOLEAN, NEW e, Moves(s, new, e),
         s = 1 => ~Promise(1),
         new => /\ e.kind # "configured"
                /\ e.kind = "inventoryReady" => \E k \in Places : k > s /\ Promise(k),
         \A d \in Domain : boot'[d].inventory =>
             \/ boot[d].inventory /\ (s = 1 => ~Fence(1))
             \/ \E k \in Places : k > s /\ (Promise(k) \/ Fence(k))
  PROVE  StaleInv'
<1>1. UNCHANGED <<session, connected, call>>
  BY DEF link
<1>2. ASSUME NEW k \in Places, k > s
      PROVE  /\ k - s \in Places' /\ Kind(k - s)' = Kind(k)
             /\ (Promise(k) => Promise(k - s)') /\ (Fence(k) => Fence(k - s)')
  BY <1>1, <1>2 DEF Moves, Kind, Promise, Fence
<1>3. ASSUME NEW k \in Places
      PROVE  /\ Promise(k) => k > s
             /\ (s = 1 => ~Fence(1)) /\ Fence(k) => k > s
  BY <1>3 DEF Moves
<1>4. ASSUME NEW i \in Places'
      PROVE  \/ i + s \in Places /\ Kind(i)' = Kind(i + s)
             \/ new /\ Kind(i)' = e.kind /\ \A k \in Places : k - s < i
  BY <1>4 DEF Moves, Kind
<1>5. ASSUME NEW i \in Places', NEW k \in Places, k > i + s PROVE k - s > i
  <2>1. i \in Nat /\ k \in Nat
    BY DEF Moves
  <2> QED BY <1>5, <2>1
<1>6. ASSUME NEW i \in Places', Kind(i)' = "configured"
      PROVE  \E k \in Places' : k > i /\ Promise(k)'
  <2>1. i + s \in Places /\ Kind(i + s) = "configured"
    BY <1>4, <1>6
  <2>2. PICK k \in Places : k > i + s /\ Promise(k)
    BY <2>1 DEF StaleInv
  <2>3. k > s
    BY <1>3, <2>2
  <2> QED BY <1>2, <1>5, <1>6, <2>2, <2>3
<1>7. ASSUME NEW i \in Places', Kind(i)' = "inventoryReady"
      PROVE  \E k \in Places' : Promise(k)' \/ (k > i /\ Fence(k)')
  <2>1. CASE i + s \in Places /\ Kind(i + s) = "inventoryReady"
    <3>1. PICK k \in Places : Promise(k) \/ (k > i + s /\ Fence(k))
      BY <2>1 DEF StaleInv
    <3>2. k > i + s => k > s
      BY <1>7 DEF Moves
    <3>3. k > s
      BY <1>3, <3>1, <3>2
    <3> QED BY <1>2, <1>5, <1>7, <3>1, <3>3
  <2>2. CASE new /\ e.kind = "inventoryReady"
    <3>1. PICK k \in Places : k > s /\ Promise(k)
      BY <2>2
    <3> QED BY <1>2, <3>1
  <2> QED BY <1>4, <1>7, <2>1, <2>2
<1>8. ASSUME NEW d \in Domain, boot'[d].inventory
      PROVE  \E k \in Places' : Promise(k)' \/ Fence(k)'
  <2>1. PICK k \in Places : k > s /\ (Promise(k) \/ Fence(k))
    <3>1. CASE boot[d].inventory /\ (s = 1 => ~Fence(1))
      BY <1>3, <3>1 DEF StaleInv
    <3>2. CASE \E k \in Places : k > s /\ (Promise(k) \/ Fence(k))
      BY <3>2
    <3> QED BY <1>8, <3>1, <3>2
  <2> QED BY <1>2, <2>1
<1> QED BY <1>6, <1>7, <1>8 DEF StaleInv

\* In an active session, a step that keeps it.
LEMMA FreshKept ==
  ASSUME FreshInv, PostsTyped, session = "active", UNCHANGED link,
         NEW s \in {0, 1}, NEW new \in BOOLEAN, NEW e, Moves(s, new, e),
         \A d \in Domain : inv[d].complete => inv'[d].complete,
         \A d \in Domain : seen[d] \subseteq seen'[d],
         new => /\ e.dom \in Domain
                /\ e.kind = "inventoryReady" => inv'[e.dom].complete
                /\ e.kind = "statusUpdated" => e.ids \subseteq seen'[e.dom],
         \A d \in Domain : boot'[d].inventory =>
             inv'[d].complete /\ asked'[d] \subseteq seen'[d] \cup boot'[d].pending,
         \A i \in Places :
             i > s /\ Kind(i) = "statusUpdated" /\ ~(posts[i].ids \subseteq seen[posts[i].dom])
               => ~boot'[posts[i].dom].inventory
  PROVE  FreshInv'
<1>1. session = "active" /\ UNCHANGED <<session, connected, call>>
  BY DEF link
<1>2. ASSUME NEW i \in Places PROVE posts[i].dom \in Domain
  BY <1>2 DEF PostsTyped, Places, Elems
<1>3. ASSUME NEW i \in Places'
      PROVE  \/ i + s \in Places /\ posts'[i] = posts[i + s]
             \/ new /\ posts'[i] = e
  BY <1>3 DEF Moves
<1>4. ASSUME NEW i \in Places', Kind(i)' = "inventoryReady"
      PROVE  inv'[posts'[i].dom].complete
  BY <1>1, <1>2, <1>3, <1>4 DEF FreshInv, Kind
<1>7. \A i \in Places' : i + s - s = i
  <2>1. Places' \subseteq Nat \ {0}
    BY DEF Moves
  <2> QED BY <2>1
<1>5. ASSUME NEW i \in Places', Kind(i)' = "statusUpdated",
             ~(posts'[i].ids \subseteq seen'[posts'[i].dom])
      PROVE  /\ ~boot'[posts'[i].dom].inventory
             /\ \A k \in Places' : k < i /\ Kind(k)' = "inventoryReady"
                                     => posts'[k].dom # posts'[i].dom
  <2>1. i + s \in Places /\ posts'[i] = posts[i + s]
    BY <1>3, <1>5 DEF Kind
  <2> DEFINE p == posts[i + s]
  <2>2. p.dom \in Domain /\ ~(p.ids \subseteq seen[p.dom]) /\ Kind(i + s) = "statusUpdated"
    BY <1>2, <1>5, <2>1 DEF Kind
  <2>5. i + s > s
    BY <1>5 DEF Moves
  <2>3. /\ ~boot'[p.dom].inventory
        /\ \A k \in Places : k < i + s /\ Kind(k) = "inventoryReady" => posts[k].dom # p.dom
    BY <1>1, <2>1, <2>2, <2>5 DEF FreshInv
  <2>4. ASSUME NEW k \in Places', k < i
        PROVE  k + s \in Places /\ posts'[k] = posts[k + s] /\ k + s < i + s
    <3>1. i + s - s = i
      BY <1>7
    <3>2. i \in Nat /\ k \in Nat
      BY DEF Moves
    <3>3. ~\A j \in Places : j - s < k
      BY <2>1, <2>4, <3>1, <3>2
    <3>4. k + s \in Places /\ posts'[k] = posts[k + s]
      BY <3>3 DEF Moves
    <3> QED BY <2>4, <3>2, <3>4
  <2> QED BY <2>1, <2>3, <2>4 DEF Kind
<1>6. \A d \in Domain : boot'[d].inventory =>
         inv'[d].complete /\ asked'[d] \subseteq seen'[d] \cup boot'[d].pending
  OBVIOUS
<1> QED BY <1>4, <1>5, <1>6 DEF FreshInv

\* A step that touches neither the client nor whether the session is active.
LEMMA BootKept ==
  ASSUME BootInv, UNCHANGED client, session' = "active" => session = "active"
  PROVE  BootInv'
BY DEF BootInv, client, Ready, BootstrapReady

LEMMA PostsStay == ASSUME PostsTyped, UNCHANGED posts PROVE \A e : Moves(0, FALSE, e)
<1>1. Len(posts) \in Nat
  BY LenProperties DEF PostsTyped, IsQueue
<1>2. /\ 0 \in {0, 1} /\ FALSE \in BOOLEAN /\ Len(posts) >= 0 /\ ~(0 = 1)
      /\ Len(posts') = Len(posts) - 0 + (IF FALSE THEN 1 ELSE 0)
      /\ \A i \in 1..(Len(posts) - 0) : posts'[i] = posts[i + 0]
  BY <1>1
<1> QED BY <1>1, <1>2, Shifted, Zenon

-----------------------------------------------------------------------------
(* Every step keeps the invariant.                                          *)

LEMMA SchedulerKeeps == ASSUME ReadinessInv, SchedulerStep PROVE ReadinessInv'
<1>1. /\ PanelSends \/ UNCHANGED posts
      /\ UNCHANGED <<link, inv, within, boot, signalled, asked, seen>>
  BY SchedulerSends DEF ReadinessInv, tables, client
<1>2. Typed'
  BY SchedulerTyped DEF ReadinessInv
<1>a. \E new \in BOOLEAN : \E e :
         /\ Moves(0, new, e)
         /\ new => /\ PostTyped(e) /\ e.kind \in Message
                   /\ session # "active" => e.kind = "status"
  <2>1. CASE PanelSends
    <3>1. PICK m : /\ posts' = Append(posts, m) /\ PostTyped(m) /\ m.kind \in Message
                   /\ session # "active" => m.kind = "status"
      BY <2>1 DEF PanelSends
    <3>2. Moves(0, TRUE, m)
      BY <3>1, PostJoins DEF ReadinessInv, Typed
    <3> QED BY <3>1, <3>2
  <2>2. CASE UNCHANGED posts
    BY <2>2, PostsStay DEF ReadinessInv, Typed
  <2> QED BY <1>1, <2>1, <2>2
<1>3. PICK new, e :
         /\ new \in BOOLEAN
         /\ Moves(0, new, e)
         /\ new => /\ PostTyped(e) /\ e.kind \in Message
                   /\ session # "active" => e.kind = "status"
  BY <1>a
<1>4. LinkInv' /\ OrderInv'
  <2>1. new => Plain(e.kind)
    BY <1>3 DEF Message, Plain
  <2>2. 0 \in {0, 1} /\ ~(0 = 1)
    OBVIOUS
  <2> QED BY <1>1, <1>3, <2>1, <2>2, LinkKept DEF ReadinessInv
<1>5. StaleInv'
  <2>1. CASE session = "active"
    BY <1>1, <2>1 DEF StaleInv, link
  <2>2. CASE session # "active"
    <3>1. /\ new => e.kind # "configured" /\ e.kind # "inventoryReady"
          /\ 0 \in {0, 1} /\ ~(0 = 1)
      BY <1>3, <2>2
    <3>2. \A d \in Domain : boot'[d].inventory => boot[d].inventory
      BY <1>1
    <3> QED BY <1>1, <1>3, <2>2, <3>1, <3>2, StaleKept DEF ReadinessInv
  <2> QED BY <2>1, <2>2
<1>6. FreshInv'
  <2>1. CASE session # "active"
    BY <1>1, <2>1 DEF FreshInv, link
  <2>2. CASE session = "active"
    <3>1. 0 \in {0, 1} /\ (new => e.dom \in Domain /\ e.kind # "inventoryReady" /\ e.kind # "statusUpdated")
      BY <1>3 DEF PostTyped, Message
    <3>2. /\ \A d \in Domain : inv[d].complete => inv'[d].complete
          /\ \A d \in Domain : seen[d] \subseteq seen'[d]
      BY <1>1
    <3>3. \A d \in Domain : boot'[d].inventory =>
             inv'[d].complete /\ asked'[d] \subseteq seen'[d] \cup boot'[d].pending
      BY <1>1, <2>2 DEF ReadinessInv, FreshInv
    <3>4. \A i \in Places :
             i > 0 /\ Kind(i) = "statusUpdated" /\ ~(posts[i].ids \subseteq seen[posts[i].dom])
               => ~boot'[posts[i].dom].inventory
      BY <1>1, <2>2 DEF ReadinessInv, FreshInv
    <3>5. FreshInv /\ PostsTyped
      BY DEF ReadinessInv, Typed
    <3> QED BY <1>1, <1>3, <2>2, <3>1, <3>2, <3>3, <3>4, <3>5, FreshKept
  <2> QED BY <2>1, <2>2
<1>7. BootInv'
  BY <1>1, BootKept DEF ReadinessInv, client, link
<1> QED BY <1>2, <1>4, <1>5, <1>6, <1>7 DEF ReadinessInv

\* A handler tells a list when it is complete, and a status when it has been seen.
LEMMA MessageEmits ==
  ASSUME Typed, OnMessage
  PROVE  \E new \in BOOLEAN : \E e :
            /\ Moves(1, new, e) /\ Kind(1) \in Message
            /\ new => /\ e.dom \in Domain
                      /\ e.kind \in {"inventoryReady", "csmUpdated", "statusUpdated"}
                      /\ e.kind = "inventoryReady" =>
                           Kind(1) = "configured" /\ inv'[e.dom].complete
                      /\ e.kind = "statusUpdated" => e.ids \subseteq seen'[e.dom]
            /\ \A d \in Domain : (inv[d].complete => inv'[d].complete) /\ seen[d] \subseteq seen'[d]
<1> DEFINE m == Head(posts)
<1>1. posts # <<>> /\ PostsTyped
  BY DEF OnMessage, Typed
<1>2. m \in Elems(posts) /\ m.dom \in Domain /\ m = posts[1]
  BY <1>1, Emitted, Leaves DEF PostsTyped
<1>3. /\ Emit(<<>>) => \A e : Moves(1, FALSE, e)
      /\ \A e : Emit(<<e>>) => Moves(1, TRUE, e)
  BY <1>1, PostRuns
<1>4. /\ DOMAIN inv = Domain /\ DOMAIN seen = Domain
      /\ \A d \in Domain : InvTyped(inv[d])
  BY DEF Typed, TablesTyped, ClientTyped, InvTyped
<1>5. CASE m.kind = "configured" /\ Configured(m) /\ UNCHANGED <<within, seen>>
  <2>1. Kind(1) = "configured" /\ Kind(1) \in Message
    BY <1>2, <1>5 DEF Kind, Message
  <2>2. CASE ~m.flag
    BY <1>3, <1>5, <2>1, <2>2 DEF Configured
  <2>3. CASE m.flag
    <3> DEFINE e == Post("inventoryReady", m.dom, {}, TRUE)
               ids == m.ids \cap within[m.dom]
    <3>1. inv' = [inv EXCEPT ![m.dom].configured = ids, ![m.dom].complete = TRUE]
      BY <1>5, <2>3 DEF Configured
    <3>2. Emit(<<e>>) \/ Emit(<<>>)
      BY <1>5, <2>3 DEF Configured
    <3>3. e.dom = m.dom /\ e.kind = "inventoryReady"
      BY DEF Post
    <3> HIDE DEF ids, e
    <3>4. inv'[m.dom].complete /\ \A d \in Domain : inv[d].complete => inv'[d].complete
      BY <1>2, <1>4, <3>1 DEF InvTyped
    <3>5. \A d \in Domain : seen[d] \subseteq seen'[d]
      BY <1>5
    <3>6. CASE Emit(<<e>>)
      <4>1. Moves(1, TRUE, e)
        BY <1>3, <3>6
      <4> QED BY <1>2, <2>1, <3>3, <3>4, <3>5, <4>1
    <3>7. CASE Emit(<<>>)
      BY <1>3, <2>1, <3>4, <3>5, <3>7
    <3> QED BY <3>2, <3>6, <3>7
  <2> QED BY <2>2, <2>3
<1>6. CASE m.kind = "table" /\ TableInfo(m) /\ UNCHANGED <<zones, seen>>
  <2>1. Kind(1) \in Message
    BY <1>2, <1>6 DEF Kind, Message
  <2>2. \A d \in Domain : inv[d].complete => inv'[d].complete
    BY <1>2, <1>4, <1>6 DEF TableInfo, InvTyped
  <2>3. Emit(<<>>) \/ \E changed : Emit(<<Post("csmUpdated", m.dom, {}, changed)>>)
    BY <1>6 DEF TableInfo
  <2>4. CASE Emit(<<>>)
    BY <1>3, <1>6, <2>1, <2>2, <2>4
  <2>5. CASE \E changed : Emit(<<Post("csmUpdated", m.dom, {}, changed)>>)
    <3>1. PICK changed : Emit(<<Post("csmUpdated", m.dom, {}, changed)>>)
      BY <2>5
    <3> DEFINE e == Post("csmUpdated", m.dom, {}, changed)
    <3>2. Moves(1, TRUE, e) /\ e.dom \in Domain /\ e.kind = "csmUpdated"
      BY <1>2, <1>3, <3>1 DEF Post
    <3> HIDE DEF e
    <3> QED BY <1>6, <2>1, <2>2, <3>2
  <2> QED BY <2>3, <2>4, <2>5
<1>7. CASE m.kind = "attribs" /\ Attribs(m) /\ UNCHANGED <<within, seen>>
  <2> DEFINE i == CHOOSE j \in m.ids : TRUE
  <2>1. inv' = inv \/ inv' = [inv EXCEPT ![m.dom] = RecordInvalid(inv[m.dom], i)]
    BY <1>2, <1>4, <1>7 DEF Attribs
  <2> HIDE DEF i
  <2>2. RecordInvalid(inv[m.dom], i).complete = inv[m.dom].complete
    BY <1>2, <1>4, RecordInvalidTyped
  <2>3. \A d \in Domain : inv[d].complete => inv'[d].complete
    BY <1>2, <1>4, <2>1, <2>2
  <2>4. Kind(1) \in Message /\ Emit(<<>>)
    BY <1>2, <1>7 DEF Kind, Message, Attribs
  <2> QED BY <1>3, <1>7, <2>3, <2>4
<1>8. CASE /\ (m.kind = "status" /\ Status(m)) \/ (m.kind = "bulk" /\ BulkStatus(m))
           /\ UNCHANGED inv
  <2>1. Kind(1) \in Message
    BY <1>2, <1>8 DEF Kind, Message
  <2>2. \A d \in Domain : seen[d] \subseteq seen'[d]
    BY <1>2, <1>4, <1>8 DEF Status, BulkStatus
  <2>3. \/ Emit(<<>>)
        \/ \E ids, changed : /\ ids \subseteq seen'[m.dom]
                             /\ Emit(<<Post("statusUpdated", m.dom, ids, changed)>>)
    <3>1. CASE Status(m)
      BY <1>2, <1>4, <3>1 DEF Status
    <3>2. CASE BulkStatus(m)
      <4> DEFINE ids == m.ids \cap BulkApplies(m.dom)
      <4>1. \/ Emit(<<>>)
            \/ /\ seen' = [seen EXCEPT ![m.dom] = seen[m.dom] \cup ids]
               /\ Emit(<<>>) \/ Emit(<<Post("statusUpdated", m.dom, ids, TRUE)>>)
        BY <1>2, <1>4, <3>2 DEF BulkStatus
      <4> HIDE DEF ids
      <4> QED BY <1>2, <1>4, <4>1
    <3> QED BY <1>8, <3>1, <3>2
  <2>4. CASE Emit(<<>>)
    BY <1>3, <1>8, <2>1, <2>2, <2>4
  <2>5. CASE \E ids, changed : /\ ids \subseteq seen'[m.dom]
                               /\ Emit(<<Post("statusUpdated", m.dom, ids, changed)>>)
    <3>1. PICK ids, changed : /\ ids \subseteq seen'[m.dom]
                              /\ Emit(<<Post("statusUpdated", m.dom, ids, changed)>>)
      BY <2>5
    <3> DEFINE e == Post("statusUpdated", m.dom, ids, changed)
    <3>2. Moves(1, TRUE, e) /\ e.dom = m.dom /\ e.kind = "statusUpdated" /\ e.ids = ids
      BY <1>3, <3>1 DEF Post
    <3> HIDE DEF e
    <3> QED BY <1>2, <1>8, <2>1, <2>2, <3>1, <3>2
  <2> QED BY <2>3, <2>4, <2>5
<1> QED BY <1>5, <1>6, <1>7, <1>8 DEF OnMessage, tables

LEMMA MessageKeeps == ASSUME ReadinessInv, OnMessage PROVE ReadinessInv'
<1>1. UNCHANGED <<link, client>>
  BY DEF OnMessage
<1>2. Typed'
  BY OnMessageTyped DEF ReadinessInv
<1>3. PICK new, e :
         /\ new \in BOOLEAN
         /\ Moves(1, new, e) /\ Kind(1) \in Message
         /\ new => /\ e.dom \in Domain
                   /\ e.kind \in {"inventoryReady", "csmUpdated", "statusUpdated"}
                   /\ e.kind = "inventoryReady" =>
                        Kind(1) = "configured" /\ inv'[e.dom].complete
                   /\ e.kind = "statusUpdated" => e.ids \subseteq seen'[e.dom]
         /\ \A d \in Domain : (inv[d].complete => inv'[d].complete) /\ seen[d] \subseteq seen'[d]
  BY MessageEmits DEF ReadinessInv
<1>4. 1 \in {0, 1} /\ 1 \in Places
  BY <1>3 DEF Moves
<1>5. Kind(1) # "disconnected" /\ ~Promise(1) /\ ~Fence(1)
  BY <1>3 DEF Message, Promise, Fence
<1>6. LinkInv' /\ OrderInv'
  <2>1. new => Plain(e.kind)
    BY <1>3 DEF Plain
  <2> QED BY <1>1, <1>3, <1>4, <1>5, <2>1, LinkKept DEF ReadinessInv
<1>7. StaleInv'
  <2>1. CASE session = "active"
    BY <1>1, <2>1 DEF StaleInv, link
  <2>2. CASE session # "active"
    <3>1. new => e.kind # "configured"
      BY <1>3
    <3>2. new /\ e.kind = "inventoryReady" => \E k \in Places : k > 1 /\ Promise(k)
      BY <1>3, <1>4, <2>2 DEF ReadinessInv, StaleInv
    <3>3. \A d \in Domain : boot'[d].inventory => boot[d].inventory /\ (1 = 1 => ~Fence(1))
      BY <1>1, <1>5 DEF client
    <3> QED BY <1>1, <1>3, <1>4, <1>5, <2>2, <3>1, <3>2, <3>3, StaleKept DEF ReadinessInv
  <2> QED BY <2>1, <2>2
<1>8. FreshInv'
  <2>1. CASE session # "active"
    BY <1>1, <2>1 DEF FreshInv, link
  <2>2. CASE session = "active"
    <3>1. \A d \in Domain : boot'[d].inventory =>
             inv'[d].complete /\ asked'[d] \subseteq seen'[d] \cup boot'[d].pending
      BY <1>1, <1>3, <2>2 DEF ReadinessInv, FreshInv, client
    <3>2. \A i \in Places :
             i > 1 /\ Kind(i) = "statusUpdated" /\ ~(posts[i].ids \subseteq seen[posts[i].dom])
               => ~boot'[posts[i].dom].inventory
      BY <1>1, <2>2 DEF ReadinessInv, FreshInv, client
    <3>3. FreshInv /\ PostsTyped
      BY DEF ReadinessInv, Typed
    <3> QED BY <1>1, <1>3, <1>4, <2>2, <3>1, <3>2, <3>3, FreshKept
  <2> QED BY <2>1, <2>2
<1>9. BootInv'
  BY <1>1, BootKept DEF ReadinessInv, link
<1> QED BY <1>2, <1>6, <1>7, <1>8, <1>9 DEF ReadinessInv

\* The event is set whenever the client has become ready.
LEMMA MaybeSetReadySets ==
  ASSUME NEW b, MaybeSetReady(b), BootInv, session' = session,
         \A d \in Domain : b[d].inventory /\ b[d].status => b[d].pending = {}
  PROVE  BootInv' /\ boot' = b
BY DEF MaybeSetReady, BootInv, Ready, BootstrapReady

\* What an event does to the client: a domain becomes listed only by its own event.
LEMMA EventKeeps == ASSUME ReadinessInv, OnEvent PROVE ReadinessInv'
<1> DEFINE e == Head(posts)
           d == e.dom
<1>1. /\ posts # <<>> /\ posts' = Tail(posts) /\ PostsTyped
      /\ UNCHANGED <<link, inv, seen>> /\ session' = session
  BY DEF OnEvent, tables, history, link, ReadinessInv, Typed
<1>2. e \in Elems(posts) /\ d \in Domain /\ e = posts[1] /\ e.kind = Kind(1)
  BY <1>1, Emitted, Leaves DEF PostsTyped, Kind
<1>3. Moves(1, FALSE, e)
  BY <1>1, PostLeaves
<1>4. 1 \in {0, 1} /\ 1 \in Places /\ FALSE \in BOOLEAN
  BY <1>3 DEF Moves
<1>5. Typed'
  BY OnEventTyped DEF ReadinessInv
<1>6. e.kind \in Event
  BY DEF OnEvent, Event
<1>7. LinkInv' /\ OrderInv'
  <2>1. Kind(1) # "disconnected"
    BY <1>2, <1>6 DEF Event
  <2> QED BY <1>1, <1>3, <1>4, <2>1, LinkKept DEF ReadinessInv
<1>8. ~Promise(1)
  BY <1>2, <1>6 DEF Promise, Event
<1>9. /\ DOMAIN boot = Domain /\ DOMAIN asked = Domain
      /\ \A c \in Domain : DOMAIN boot[c] = {"inventory", "pending", "status"}
  BY DEF ReadinessInv, Typed, ClientTyped
\* What is left to show of each event.
<1>10. ASSUME BootInv',
              session # "active" =>
                \A c \in Domain : boot'[c].inventory =>
                   \/ boot[c].inventory /\ ~Fence(1)
                   \/ \E k \in Places : k > 1 /\ (Promise(k) \/ Fence(k)),
              session = "active" =>
                \A c \in Domain : boot'[c].inventory =>
                   inv[c].complete /\ asked'[c] \subseteq seen[c] \cup boot'[c].pending,
              session = "active" =>
                \A c \in Domain : boot'[c].inventory =>
                   boot[c].inventory \/ (Kind(1) = "inventoryReady" /\ c = d)
       PROVE  ReadinessInv'
  <2>1. StaleInv'
    <3>1. CASE session = "active"
      BY <1>1, <3>1 DEF StaleInv
    <3>2. CASE session # "active"
      BY <1>1, <1>3, <1>4, <1>8, <1>10, <3>2, StaleKept DEF ReadinessInv
    <3> QED BY <3>1, <3>2
  <2>2. FreshInv'
    <3>1. CASE session # "active"
      BY <1>1, <3>1 DEF FreshInv
    <3>2. CASE session = "active"
      <4>1. ASSUME NEW i \in Places, i > 1, Kind(i) = "statusUpdated",
                   ~(posts[i].ids \subseteq seen[posts[i].dom])
            PROVE  ~boot'[posts[i].dom].inventory
        <5>1. posts[i].dom \in Domain
          BY <1>1 DEF PostsTyped, Elems, Places
        <5>2. /\ ~boot[posts[i].dom].inventory
              /\ Kind(1) = "inventoryReady" => d # posts[i].dom
          BY <1>2, <1>4, <3>2, <4>1 DEF ReadinessInv, FreshInv
        <5> QED BY <1>10, <3>2, <5>1, <5>2
      <4>2. /\ \A c \in Domain : inv[c].complete => inv'[c].complete
            /\ \A c \in Domain : seen[c] \subseteq seen'[c]
        BY <1>1
      <4>3. \A c \in Domain : boot'[c].inventory =>
               inv'[c].complete /\ asked'[c] \subseteq seen'[c] \cup boot'[c].pending
        BY <1>1, <1>10, <3>2
      <4>4. FreshInv
        BY DEF ReadinessInv
      <4> QED BY <1>1, <1>3, <1>4, <3>2, <4>1, <4>2, <4>3, <4>4, FreshKept
    <3> QED BY <3>1, <3>2
  <2> QED BY <1>5, <1>7, <1>10, <2>1, <2>2 DEF ReadinessInv
\* An event that leaves the wait as it is.
<1>11. ASSUME boot' = boot, asked' = asked, MaybeSetReady(boot), ~Fence(1)
       PROVE  ReadinessInv'
  <2>1. BootInv'
    BY <1>1, <1>11, MaybeSetReadySets DEF ReadinessInv, BootInv
  <2>2. session = "active" =>
          \A c \in Domain : boot'[c].inventory =>
             inv[c].complete /\ asked'[c] \subseteq seen[c] \cup boot'[c].pending
    BY <1>11 DEF ReadinessInv, FreshInv
  <2> QED BY <1>10, <1>11, <2>1, <2>2
<1>12. CASE e.kind = "up" /\ OnUp
  BY <1>2, <1>11, <1>12 DEF OnUp, MaybeSetReady, Fence
<1>13. CASE e.kind \in {"lost", "closed"} /\ OnDown
  <2>1. boot' = NotStarted /\ asked' = NothingSeen
    BY <1>13 DEF OnDown, ResetBootstrap
  <2>2. \A c \in Domain : ~boot'[c].inventory
    BY <2>1 DEF NotStarted
  <2>3. BootInv'
    <3>1. \E c \in Domain : TRUE
      BY DEF Domain
    <3> QED BY <2>2, <3>1 DEF BootInv, Ready, BootstrapReady
  <2> QED BY <1>10, <2>2, <2>3
<1>14. CASE e.kind = "inventoryReady" /\ MarkInventoryReady(d)
  <2>1. ~Fence(1) /\ Kind(1) = "inventoryReady"
    BY <1>2, <1>14 DEF Fence
  <2>2. CASE boot[d].inventory
    BY <1>11, <1>14, <2>1, <2>2 DEF MarkInventoryReady, MaybeSetReady
  <2>3. CASE ~boot[d].inventory
    <3> DEFINE ids == inv[d].configured
               x == [inventory |-> TRUE, pending |-> ids, status |-> ids = {}]
               b == [boot EXCEPT ![d] = x]
    <3>1. MaybeSetReady(b) /\ asked' = [asked EXCEPT ![d] = ids]
      BY <1>14, <2>3 DEF MarkInventoryReady
    <3>2. x.inventory /\ x.pending = ids /\ (x.status => ids = {})
      OBVIOUS
    <3> HIDE DEF ids, x
    <3>3. \A c \in Domain : b[c] = IF c = d THEN x ELSE boot[c]
      BY <1>9
    <3> HIDE DEF b
    <3>4. \A c \in Domain : b[c].inventory /\ b[c].status => b[c].pending = {}
      BY <3>2, <3>3 DEF ReadinessInv, BootInv
    <3>5. BootInv' /\ boot' = b
      BY <1>1, <3>1, <3>4, MaybeSetReadySets DEF ReadinessInv
    <3>6. session # "active" => \E k \in Places : k > 1 /\ (Promise(k) \/ Fence(k))
      <4>1. ASSUME session # "active"
            PROVE  \E k \in Places : Promise(k) \/ (k > 1 /\ Fence(k))
        BY <1>4, <2>1, <4>1 DEF ReadinessInv, StaleInv
      <4>2. \A k \in Places : k # 1 => k > 1
        BY <1>3 DEF Moves
      <4> QED BY <1>8, <4>1, <4>2
    <3>7. session = "active" => inv[d].complete
      BY <1>2, <1>4, <2>1 DEF ReadinessInv, FreshInv
    <3>8. session = "active" =>
            \A c \in Domain : boot'[c].inventory =>
               inv[c].complete /\ asked'[c] \subseteq seen[c] \cup boot'[c].pending
      BY <1>9, <3>1, <3>2, <3>3, <3>5, <3>7 DEF ReadinessInv, FreshInv
    <3>9. \A c \in Domain : boot'[c].inventory => boot[c].inventory \/ c = d
      BY <3>3, <3>5
    <3> QED BY <1>10, <2>1, <3>5, <3>6, <3>8, <3>9
  <2> QED BY <2>2, <2>3
<1>15. CASE e.kind = "statusUpdated" /\ OnStatusUpdated(e)
  <2> DEFINE left == boot[d].pending \ e.ids
             b == [boot EXCEPT ![d].pending = left, ![d].status = @ \/ left = {}]
  <2>1. ~Fence(1) /\ Kind(1) = "statusUpdated"
    BY <1>2, <1>15 DEF Fence
  <2>2. MaybeSetReady(b) /\ asked' = asked
    BY <1>15 DEF OnStatusUpdated, MarkStatusSeen
  <2>3. /\ \A c \in Domain : b[c].inventory = boot[c].inventory
        /\ \A c \in Domain : c # d => b[c] = boot[c]
        /\ b[d].pending = left /\ b[d].status = (boot[d].status \/ left = {})
    BY <1>2, <1>9
  <2> HIDE DEF b
  <2>4. \A c \in Domain : b[c].inventory /\ b[c].status => b[c].pending = {}
    BY <2>3 DEF ReadinessInv, BootInv
  <2>5. BootInv' /\ boot' = b
    BY <1>1, <2>2, <2>4, MaybeSetReadySets DEF ReadinessInv
  <2>6. session = "active" /\ boot[d].inventory => e.ids \subseteq seen[d]
    BY <1>2, <1>4, <2>1 DEF ReadinessInv, FreshInv
  <2>7. session = "active" =>
          \A c \in Domain : boot'[c].inventory =>
             inv[c].complete /\ asked'[c] \subseteq seen[c] \cup boot'[c].pending
    <3>1. ASSUME session = "active", NEW c \in Domain, boot'[c].inventory
          PROVE  inv[c].complete /\ asked[c] \subseteq seen[c] \cup b[c].pending
      <4>1. inv[c].complete /\ asked[c] \subseteq seen[c] \cup boot[c].pending
        BY <2>3, <2>5, <3>1 DEF ReadinessInv, FreshInv
      <4> QED BY <2>3, <2>5, <2>6, <3>1, <4>1
    <3> QED BY <2>2, <2>5, <3>1
  <2> QED BY <1>10, <2>1, <2>3, <2>5, <2>7
<1>16. CASE e.kind = "csmUpdated" /\ OnCsmUpdated(e)
  BY <1>2, <1>11, <1>16 DEF OnCsmUpdated, MaybeSetReady, Fence
<1> QED BY <1>12, <1>13, <1>14, <1>15, <1>16 DEF OnEvent

\* A callback that joins stands behind all others.
LEMMA Joined ==
  ASSUME PostsTyped, NEW e, posts' = Append(posts, e)
  PROVE  \E n \in Places' :
           /\ \A i \in Places' : (i \in Places /\ Kind(i)' = Kind(i)) \/ i = n
           /\ \A k \in Places : k \in Places' /\ Kind(k)' = Kind(k) /\ n > k
           /\ \A k \in Places' : ~(k > n)
           /\ Kind(n)' = e.kind
<1>1. /\ Len(posts) \in Nat /\ Len(posts') = Len(posts) + 1
      /\ \A i \in 1..Len(posts) : posts'[i] = posts[i]
      /\ posts'[Len(posts) + 1] = e
  BY Joins DEF PostsTyped
<1>2. PICK m \in Nat : m = Len(posts)
  BY <1>1
<1>3. Places = 1..m /\ Places' = 1..(m + 1)
  BY <1>1, <1>2 DEF Places
<1>4. /\ m + 1 \in Places'
      /\ \A i \in Places' : i \in Places \/ i = m + 1
      /\ \A k \in Places : k \in Places' /\ m + 1 > k
      /\ \A k \in Places' : ~(k > m + 1)
  BY <1>3
<1>5. \A i \in Places : Kind(i)' = Kind(i)
  BY <1>1 DEF Kind, Places
<1>6. \E n \in Places' : n = m + 1
  BY <1>4
<1>7. PICK n \in Places' : n = m + 1
  BY <1>6
<1>8. Kind(n)' = e.kind
  BY <1>1, <1>2, <1>7 DEF Kind
<1> QED BY <1>4, <1>5, <1>7, <1>8

\* The first callback leaves and one joins.
LEMMA Rotated ==
  ASSUME PostsTyped, posts # <<>>, NEW e, Emit(<<e>>)
  PROVE  /\ \E n \in Places' :
              /\ \A i \in Places' : (i + 1 \in Places /\ Kind(i)' = Kind(i + 1)) \/ i = n
              /\ \A k \in Places : k # 1 => n > k - 1
              /\ \A k \in Places' : ~(k > n)
              /\ Kind(n)' = e.kind
         /\ \A k \in Places : k # 1 => k - 1 \in Places' /\ Kind(k - 1)' = Kind(k)
         /\ 1 \in Places /\ Kind(1) = Head(posts).kind
         /\ Places \subseteq Nat \ {0} /\ Places' \subseteq Nat \ {0}
<1>1. Moves(1, TRUE, e)
  BY PostRuns
<1>2. Places \subseteq Nat \ {0} /\ Places' \subseteq Nat \ {0}
  BY <1>1 DEF Moves
<1>3. Len(posts') = Len(posts) /\ Len(posts) \in Nat
  <2>1. IsQueue(posts) /\ posts' = Append(Tail(posts), e)
    BY Emitted DEF PostsTyped
  <2>2. IsQueue(Tail(posts)) /\ Len(Tail(posts)) = Len(posts) - 1 /\ Len(posts) \in Nat
    BY <2>1, Leaves
  <2>3. Len(posts') = Len(Tail(posts)) + 1
    BY <2>1, <2>2, Joins
  <2> QED BY <2>2, <2>3
<1>4. ASSUME NEW k \in Places, k # 1
      PROVE  k - 1 \in Places' /\ Kind(k - 1)' = Kind(k)
  <2>1. k > 1
    BY <1>2, <1>4
  <2>2. k - 1 \in Places' /\ posts'[k - 1] = posts[k]
    BY <1>1, <2>1 DEF Moves
  <2> QED BY <2>2 DEF Kind
<1>5. /\ Len(posts') \in Places' /\ posts'[Len(posts')] = e
      /\ 1 \in Places /\ posts[1] = Head(posts)
  BY <1>1 DEF Moves
<1>6. PICK n \in Places' : n = Len(posts')
  BY <1>5
<1>7. Kind(n)' = e.kind /\ Kind(1) = Head(posts).kind
  BY <1>5, <1>6 DEF Kind
<1>8. ASSUME NEW i \in Places', i # n PROVE i + 1 \in Places /\ Kind(i)' = Kind(i + 1)
  <2>1. i + 1 \in Places /\ posts'[i] = posts[i + 1]
    BY <1>1, <1>6, <1>8 DEF Moves
  <2> QED BY <2>1 DEF Kind
<1>9. /\ \A k \in Places : k # 1 => n > k - 1
      /\ \A k \in Places' : ~(k > n)
  BY <1>3, <1>6 DEF Places
<1> QED BY <1>2, <1>4, <1>5, <1>7, <1>8, <1>9

LEMMA Popped ==
  ASSUME PostsTyped, posts # <<>>, Emit(<<>>)
  PROVE  /\ \A i \in Places' : i + 1 \in Places /\ Kind(i)' = Kind(i + 1)
         /\ \A k \in Places : k # 1 => k - 1 \in Places' /\ Kind(k - 1)' = Kind(k)
         /\ 1 \in Places /\ Kind(1) = Head(posts).kind
         /\ Places \subseteq Nat \ {0} /\ Places' \subseteq Nat \ {0}
<1>1. Moves(1, FALSE, 0)
  BY PostRuns
<1>2. Places \subseteq Nat \ {0} /\ Places' \subseteq Nat \ {0}
  BY <1>1 DEF Moves
<1>3. \A k \in Places : k # 1 => k > 1
  BY <1>2
<1> QED BY <1>1, <1>2, <1>3 DEF Moves, Kind

LEMMA ConnectKeeps == ASSUME ReadinessInv, Connect PROVE ReadinessInv'
<1>1. /\ call = "none" /\ ~connected /\ ResetBootstrap /\ call' = "first" /\ session' = "hello"
      /\ connected' = connected /\ posts' = posts
  BY DEF Connect
<1>2. Places' = Places /\ \A i : Kind(i)' = Kind(i)
  BY <1>1 DEF Places, Kind
<1>3. \A i \in Places : ~Promise(i) /\ Kind(i) # "connectDone"
  BY <1>1 DEF ReadinessInv, OrderInv, Promise
<1>4. session # "active"
  BY <1>1 DEF ReadinessInv, LinkInv
<1>5. \A d \in Domain : ~boot'[d].inventory
  BY <1>1 DEF ResetBootstrap, NotStarted
<1>6. Typed'
  BY LinkTyped DEF ReadinessInv
<1>7. LinkInv'
  BY <1>1 DEF ReadinessInv, LinkInv
<1>8. OrderInv'
  BY <1>1, <1>2, <1>3 DEF ReadinessInv, OrderInv, Promise, Fence
<1>9. StaleInv'
  BY <1>1, <1>2, <1>3, <1>4, <1>5 DEF ReadinessInv, StaleInv, Promise, Fence
<1>10. FreshInv' /\ BootInv'
  BY <1>1, <1>5 DEF FreshInv, BootInv, Ready
<1> QED BY <1>6, <1>7, <1>8, <1>9, <1>10 DEF ReadinessInv

LEMMA HelloEndsKeeps == ASSUME ReadinessInv, HelloEnds PROVE ReadinessInv'
<1> DEFINE e == Post("connectDone", "area", {}, TRUE)
<1>1. /\ session = "hello" /\ session' \in {"fresh", "none"} /\ posts' = Append(posts, e)
      /\ UNCHANGED <<connected, call, client>>
  BY DEF HelloEnds
<1>2. call \in {"first", "second"} /\ ~connected
  BY <1>1 DEF ReadinessInv, LinkInv
<1>3. e.kind = "connectDone"
  BY DEF Post
<1> HIDE DEF e
<1>4. PICK n \in Places' :
         /\ \A i \in Places' : (i \in Places /\ Kind(i)' = Kind(i)) \/ i = n
         /\ \A k \in Places : k \in Places' /\ Kind(k)' = Kind(k) /\ n > k
         /\ \A k \in Places' : ~(k > n)
         /\ Kind(n)' = "connectDone"
  BY <1>1, <1>3, Joined DEF ReadinessInv, Typed
<1>6. \A i \in Places : Kind(i) # "connectDone"
  BY <1>1 DEF ReadinessInv, OrderInv
<1>7. Typed'
  BY LinkTyped DEF ReadinessInv
<1>8. LinkInv'
  BY <1>1, <1>2 DEF ReadinessInv, LinkInv
<1>9. OrderInv'
  <2>1. \A i \in Places' : Kind(i)' = "connectDone" => i = n /\ \A k \in Places' : ~(k > i)
    BY <1>4, <1>6
  <2>2. \A i \in Places' : Kind(i)' # "connectDone" => i \in Places /\ Kind(i)' = Kind(i)
    BY <1>4
  <2> QED BY <1>1, <1>2, <2>1, <2>2 DEF ReadinessInv, OrderInv, Fence
<1>10. StaleInv'
  <2>1. \A k \in Places : /\ (Promise(k) => Promise(k)') /\ (Fence(k) => Fence(k)')
    BY <1>1, <1>4 DEF Promise, Fence
  <2>2. \A i \in Places' : Kind(i)' # "connectDone" => i \in Places /\ Kind(i)' = Kind(i)
    BY <1>4
  <2>3. StaleInv /\ session # "active" /\ boot' = boot /\ \A k \in Places : k \in Places'
    BY <1>1, <1>4 DEF ReadinessInv, client
  <2> QED BY <2>1, <2>2, <2>3 DEF StaleInv
<1>11. FreshInv' /\ BootInv'
  BY <1>1, BootKept DEF ReadinessInv, FreshInv
<1> QED BY <1>7, <1>8, <1>9, <1>10, <1>11 DEF ReadinessInv

LEMMA LinkBreaksKeeps == ASSUME ReadinessInv, LinkBreaks PROVE ReadinessInv'
<1> DEFINE e == Post("disconnected", "area", {}, TRUE)
<1>1. /\ session \in {"fresh", "active"} /\ session' = "broken" /\ posts' = Append(posts, e)
      /\ UNCHANGED <<connected, call, client>>
  BY DEF LinkBreaks
<1>2. e.kind = "disconnected"
  BY DEF Post
<1> HIDE DEF e
<1>3. PICK n \in Places' :
         /\ \A i \in Places' : (i \in Places /\ Kind(i)' = Kind(i)) \/ i = n
         /\ \A k \in Places : k \in Places' /\ Kind(k)' = Kind(k) /\ n > k
         /\ \A k \in Places' : ~(k > n)
         /\ Kind(n)' = "disconnected"
  BY <1>1, <1>2, Joined DEF ReadinessInv, Typed
<1>4. connected => session = "active"
  BY <1>1 DEF ReadinessInv, LinkInv
<1>5. session = "active" => connected
  BY DEF ReadinessInv, LinkInv
<1>6. \A i \in Places : connected => Kind(i) # "disconnected"
  BY <1>1, <1>4 DEF ReadinessInv, OrderInv
<1>7. Typed'
  BY LinkTyped DEF ReadinessInv
<1>8. LinkInv'
  BY <1>1, <1>3 DEF ReadinessInv, LinkInv
<1>9. OrderInv'
  <2>1. \A i \in Places' : Kind(i)' # "disconnected" => i \in Places /\ Kind(i)' = Kind(i)
    BY <1>3
  <2>2. \A i \in Places' : connected /\ Kind(i)' = "disconnected" => i = n
    BY <1>3, <1>6
  <2> QED BY <1>1, <2>1, <2>2 DEF ReadinessInv, OrderInv, Fence
<1>10. StaleInv'
  <2>1. \A k \in Places : /\ (Promise(k) => Promise(k)') /\ (Fence(k) => Fence(k)')
    BY <1>1, <1>3 DEF Promise, Fence
  <2>2. \A i \in Places' : Kind(i)' # "disconnected" => i \in Places /\ Kind(i)' = Kind(i) /\ n > i
    BY <1>3
  <2>3. boot' = boot /\ \A k \in Places : k \in Places'
    BY <1>1, <1>3 DEF client
  <2>4. CASE session = "active"
    <3>1. Promise(n)'
      BY <1>1, <1>3, <1>5, <2>4 DEF Promise
    <3> QED BY <2>2, <3>1 DEF StaleInv
  <2>5. CASE session # "active"
    <3>1. StaleInv
      BY DEF ReadinessInv
    <3> QED BY <2>1, <2>2, <2>3, <2>5, <3>1 DEF StaleInv
  <2> QED BY <2>4, <2>5
<1>11. FreshInv' /\ BootInv'
  BY <1>1, BootKept DEF ReadinessInv, FreshInv
<1> QED BY <1>7, <1>8, <1>9, <1>10, <1>11 DEF ReadinessInv

LEMMA OnDisconnectedKeeps == ASSUME ReadinessInv, OnDisconnected PROVE ReadinessInv'
<1> DEFINE e == Post("lost", "area", {}, TRUE)
<1>1. /\ posts # <<>> /\ Head(posts).kind = "disconnected" /\ connected' = FALSE
      /\ UNCHANGED <<session, call, client>>
      /\ IF connected THEN Emit(<<e>>) ELSE Emit(<<>>)
  BY DEF OnDisconnected
<1>2. e.kind = "lost"
  BY DEF Post
<1> HIDE DEF e
<1>3. Typed' /\ PostsTyped
  BY LinkTyped DEF ReadinessInv, Typed
<1>4. CASE connected
  <2>1. Emit(<<e>>)
    BY <1>1, <1>4
  <2>2. /\ \E n \in Places' :
             /\ \A i \in Places' : (i + 1 \in Places /\ Kind(i)' = Kind(i + 1)) \/ i = n
             /\ \A k \in Places : k # 1 => n > k - 1
             /\ \A k \in Places' : ~(k > n)
             /\ Kind(n)' = "lost"
        /\ \A k \in Places : k # 1 => k - 1 \in Places' /\ Kind(k - 1)' = Kind(k)
        /\ 1 \in Places /\ Kind(1) = "disconnected"
        /\ Places \subseteq Nat \ {0} /\ Places' \subseteq Nat \ {0}
    BY <1>1, <1>2, <1>3, <2>1, Rotated
  <2>3. PICK n \in Places' :
             /\ \A i \in Places' : (i + 1 \in Places /\ Kind(i)' = Kind(i + 1)) \/ i = n
             /\ \A k \in Places : k # 1 => n > k - 1
             /\ \A k \in Places' : ~(k > n)
             /\ Kind(n)' = "lost"
    BY <2>2
  <2>4. session = "broken" /\ call = "none"
    BY <1>4, <2>2 DEF ReadinessInv, LinkInv, OrderInv
  <2>5. \A i \in Places : Kind(i) # "connectDone" /\ Kind(i) # "closeDone"
    BY <2>4 DEF ReadinessInv, OrderInv
  <2>6. \A i \in Places' : Kind(i)' # "connectDone" /\ Kind(i)' # "closeDone"
    BY <2>3, <2>5
  <2>7. LinkInv'
    BY <1>1, <2>4 DEF LinkInv
  <2>8. OrderInv'
    BY <1>1, <2>4, <2>6 DEF OrderInv
  <2>9. \A k \in Places : Promise(k) => k = 1
    BY <1>4, <2>2, <2>5 DEF ReadinessInv, OrderInv, Promise
  <2>10. \A i \in Places : i \in Nat /\ i # 0
    BY <2>2
  <2>11. \A i \in Places : Kind(i) # "configured"
    <3>1. ASSUME NEW i \in Places, Kind(i) = "configured" PROVE FALSE
      <4>1. PICK k \in Places : k > i /\ Promise(k)
        BY <2>4, <3>1 DEF ReadinessInv, StaleInv
      <4>2. k = 1
        BY <2>9, <4>1
      <4> QED BY <2>10, <4>1, <4>2
    <3> QED BY <3>1
  <2>12. Fence(n)'
    BY <2>3 DEF Fence
  <2>13. \A i \in Places' : Kind(i)' = "inventoryReady" => n > i
    <3>1. ASSUME NEW i \in Places', Kind(i)' = "inventoryReady" PROVE n > i
      <4>1. i + 1 \in Places
        BY <2>3, <3>1
      <4>2. i \in Nat /\ i # 0
        BY <2>2
      <4>3. i + 1 # 1 /\ (i + 1) - 1 = i
        BY <4>2
      <4> QED BY <2>3, <4>1, <4>3
    <3> QED BY <3>1
  <2>14. StaleInv'
    BY <2>3, <2>11, <2>12, <2>13 DEF StaleInv
  <2>15. FreshInv' /\ BootInv'
    BY <1>1, <2>4, BootKept DEF ReadinessInv, FreshInv
  <2> QED BY <1>3, <2>7, <2>8, <2>14, <2>15 DEF ReadinessInv
<1>5. CASE ~connected
  <2>1. /\ \A i \in Places' : i + 1 \in Places /\ Kind(i)' = Kind(i + 1)
        /\ \A k \in Places : k # 1 => k - 1 \in Places' /\ Kind(k - 1)' = Kind(k)
        /\ 1 \in Places /\ Kind(1) = "disconnected"
        /\ Places \subseteq Nat \ {0} /\ Places' \subseteq Nat \ {0}
    BY <1>1, <1>3, <1>5, Popped
  <2>2. session # "active"
    BY <1>5 DEF ReadinessInv, LinkInv
  <2>3. LinkInv'
    BY <1>1, <1>5 DEF ReadinessInv, LinkInv
  <2>4. Moves(1, FALSE, 0)
    BY <1>1, <1>3, <1>5, PostRuns
  <2>5. OrderInv'
    <3>1. \A i, k \in Places' : (k > i) = (k + 1 > i + 1) /\ (k = i) = (k + 1 = i + 1)
      BY <2>1
    <3> QED BY <1>1, <2>1, <3>1, SMTT(30) DEF ReadinessInv, OrderInv, Fence
  <2>6. ~Promise(1) /\ ~Fence(1)
    BY <1>5, <2>1 DEF Promise, Fence
  <2>7. StaleInv'
    <3>1. UNCHANGED link
      BY <1>1, <1>5 DEF link, ReadinessInv, LinkInv
    <3> QED BY <1>1, <2>2, <2>4, <2>6, <3>1, StaleKept DEF ReadinessInv, client
  <2>8. FreshInv' /\ BootInv'
    BY <1>1, <2>2, BootKept DEF ReadinessInv, FreshInv
  <2> QED BY <1>3, <2>3, <2>5, <2>7, <2>8 DEF ReadinessInv
<1> QED BY <1>4, <1>5

LEMMA ConnectFailsKeeps == ASSUME ReadinessInv, ConnectFails PROVE ReadinessInv'
<1>1. /\ posts # <<>> /\ Head(posts).kind = "connectDone" /\ session # "fresh" /\ Emit(<<>>)
      /\ UNCHANGED <<connected, client>>
      /\ \/ call' = "none" /\ session' = session
         \/ call' = "second" /\ session' = "hello"
  BY DEF ConnectFails
<1>2. Typed' /\ PostsTyped
  BY LinkTyped DEF ReadinessInv, Typed
<1>3. /\ \A i \in Places' : i + 1 \in Places /\ Kind(i)' = Kind(i + 1)
      /\ \A k \in Places : k # 1 => k - 1 \in Places' /\ Kind(k - 1)' = Kind(k)
      /\ 1 \in Places /\ Kind(1) = "connectDone"
      /\ Places \subseteq Nat \ {0} /\ Places' \subseteq Nat \ {0}
  BY <1>1, <1>2, Popped
<1>4. call \in {"first", "second"} /\ session # "hello"
  BY <1>3 DEF ReadinessInv, OrderInv
<1>5. ~connected /\ session # "active"
  BY <1>4 DEF ReadinessInv, LinkInv
<1>6. \A i \in Places' : i + 1 # 1
  BY <1>3
<1>7. \A i \in Places : Kind(i) # "closeDone" /\ (Kind(i) = "connectDone" => i = 1)
  BY <1>3, <1>4 DEF ReadinessInv, OrderInv
<1>8. \A i \in Places' : Kind(i)' # "connectDone" /\ Kind(i)' # "closeDone"
  BY <1>3, <1>6, <1>7
<1>9. LinkInv'
  BY <1>1, <1>4, <1>5 DEF ReadinessInv, LinkInv
<1>10. OrderInv'
  BY <1>1, <1>5, <1>8 DEF OrderInv
<1>11. \A k \in Places : ~Promise(k) /\ ~Fence(k)
  BY <1>3, <1>5, <1>7 DEF ReadinessInv, OrderInv, Promise, Fence
<1>12. \A k \in Places : Kind(k) # "configured" /\ Kind(k) # "inventoryReady"
  BY <1>5, <1>11 DEF ReadinessInv, StaleInv
<1>13. \A d \in Domain : ~boot'[d].inventory
  BY <1>1, <1>5, <1>11 DEF ReadinessInv, StaleInv, client
<1>14. StaleInv'
  BY <1>3, <1>12, <1>13 DEF StaleInv
<1>15. FreshInv' /\ BootInv'
  BY <1>1, <1>5, BootKept DEF ReadinessInv, FreshInv
<1> QED BY <1>2, <1>9, <1>10, <1>14, <1>15 DEF ReadinessInv

LEMMA ConnectSucceedsKeeps == ASSUME ReadinessInv, ConnectSucceeds PROVE ReadinessInv'
<1> DEFINE e == Post("up", "area", {}, TRUE)
<1>1. /\ posts # <<>> /\ Head(posts).kind = "connectDone" /\ session = "fresh"
      /\ session' = "active" /\ connected' = TRUE /\ call' = "none" /\ Emit(<<e>>)
      /\ UNCHANGED client
  BY DEF ConnectSucceeds
<1>2. e.kind = "up"
  BY DEF Post
<1> HIDE DEF e
<1>3. Typed' /\ PostsTyped
  BY LinkTyped DEF ReadinessInv, Typed
<1>4. /\ \A i \in Places' : (i + 1 \in Places /\ Kind(i)' = Kind(i + 1)) \/ Kind(i)' = "up"
      /\ 1 \in Places /\ Kind(1) = "connectDone"
      /\ Places \subseteq Nat \ {0} /\ Places' \subseteq Nat \ {0}
  BY <1>1, <1>2, <1>3, Rotated
<1>5. call \in {"first", "second"} /\ ~connected
  BY <1>1 DEF ReadinessInv, LinkInv
<1>6. \A i \in Places : i # 1 => i > 1
  BY <1>4
<1>7. \A i \in Places : /\ Kind(i) # "closeDone" /\ (Kind(i) = "connectDone" => i = 1)
                        /\ ~Fence(i) /\ Kind(i) # "disconnected"
  <2>1. \A i \in Places : Kind(i) # "closeDone" /\ (Kind(i) = "connectDone" => i = 1)
    BY <1>4, <1>5 DEF ReadinessInv, OrderInv
  <2>2. \A i \in Places : i > 1 => ~Fence(i) /\ Kind(i) # "disconnected"
    BY <1>1, <1>4 DEF ReadinessInv, OrderInv
  <2>3. ~Fence(1) /\ Kind(1) # "disconnected"
    BY <1>4 DEF Fence
  <2> QED BY <1>6, <2>1, <2>2, <2>3
<1>8. \A k \in Places : ~Promise(k)
  BY <1>7 DEF Promise
<1>9. \A k \in Places : Kind(k) # "configured" /\ Kind(k) # "inventoryReady"
  BY <1>1, <1>7, <1>8 DEF ReadinessInv, StaleInv
<1>10. \A d \in Domain : ~boot'[d].inventory
  BY <1>1, <1>7, <1>8 DEF ReadinessInv, StaleInv, client
<1>11. \A i \in Places' : i + 1 # 1
  BY <1>4
<1>12. \A i \in Places' : Kind(i)' \notin {"connectDone", "closeDone", "disconnected",
                                           "lost", "closed", "inventoryReady"}
  BY <1>4, <1>7, <1>9, <1>11 DEF Fence
<1>13. LinkInv'
  BY <1>1 DEF LinkInv
<1>14. OrderInv'
  BY <1>12 DEF OrderInv, Fence
<1>15. StaleInv'
  BY <1>1 DEF StaleInv
<1>16. FreshInv'
  <2>1. \A i \in Places' : posts'[i].dom \in Domain
    BY <1>3 DEF Typed, PostsTyped, Elems, Places
  <2> QED BY <1>10, <1>12, <2>1 DEF FreshInv
<1>17. BootInv'
  <2>1. \E d \in Domain : TRUE
    BY DEF Domain
  <2> QED BY <1>10, <2>1 DEF BootInv, Ready, BootstrapReady
<1> QED BY <1>3, <1>13, <1>14, <1>15, <1>16, <1>17 DEF ReadinessInv

LEMMA CloseKeeps == ASSUME ReadinessInv, Close PROVE ReadinessInv'
<1> DEFINE e == Post("closeDone", "area", {}, TRUE)
<1>1. /\ call = "none" /\ session \in {"active", "broken"} /\ call' = "close"
      /\ session' = "none" /\ connected' = FALSE /\ posts' = Append(posts, e)
      /\ UNCHANGED client
  BY DEF Close
<1>2. e.kind = "closeDone"
  BY DEF Post
<1> HIDE DEF e
<1>3. PICK n \in Places' :
         /\ \A i \in Places' : (i \in Places /\ Kind(i)' = Kind(i)) \/ i = n
         /\ \A k \in Places : k \in Places' /\ Kind(k)' = Kind(k) /\ n > k
         /\ \A k \in Places' : ~(k > n)
         /\ Kind(n)' = "closeDone"
  BY <1>1, <1>2, Joined DEF ReadinessInv, Typed
<1>4. Typed'
  BY LinkTyped DEF ReadinessInv
<1>5. LinkInv'
  BY <1>1 DEF LinkInv
<1>6. \A i \in Places : Kind(i) # "connectDone" /\ Kind(i) # "closeDone"
  BY <1>1 DEF ReadinessInv, OrderInv
<1>7. \A i \in Places' : Kind(i)' # "connectDone" /\ (Kind(i)' = "closeDone" => i = n)
  BY <1>3, <1>6
<1>8. OrderInv'
  BY <1>1, <1>7 DEF OrderInv
<1>9. Promise(n)'
  BY <1>3 DEF Promise
<1>10. \A i \in Places' : Kind(i)' # "closeDone" => n > i
  BY <1>3
<1>11. StaleInv'
  BY <1>9, <1>10 DEF StaleInv
<1>12. FreshInv' /\ BootInv'
  BY <1>1, BootKept DEF ReadinessInv, FreshInv
<1> QED BY <1>4, <1>5, <1>8, <1>11, <1>12 DEF ReadinessInv

LEMMA CloseEndsKeeps == ASSUME ReadinessInv, CloseEnds PROVE ReadinessInv'
<1> DEFINE e == Post("closed", "area", {}, TRUE)
<1>1. /\ posts # <<>> /\ Head(posts).kind = "closeDone" /\ call' = "none" /\ Emit(<<e>>)
      /\ ResetBootstrap /\ UNCHANGED <<session, connected>>
  BY DEF CloseEnds
<1>2. e.kind = "closed"
  BY DEF Post
<1> HIDE DEF e
<1>3. Typed' /\ PostsTyped
  BY LinkTyped DEF ReadinessInv, Typed
<1>4. /\ \E n \in Places' :
             /\ \A i \in Places' : (i + 1 \in Places /\ Kind(i)' = Kind(i + 1)) \/ i = n
             /\ \A k \in Places : k # 1 => n > k - 1
             /\ \A k \in Places' : ~(k > n)
             /\ Kind(n)' = "closed"
      /\ 1 \in Places /\ Kind(1) = "closeDone"
      /\ Places \subseteq Nat \ {0} /\ Places' \subseteq Nat \ {0}
  BY <1>1, <1>2, <1>3, Rotated
<1>5. PICK n \in Places' :
             /\ \A i \in Places' : (i + 1 \in Places /\ Kind(i)' = Kind(i + 1)) \/ i = n
             /\ \A k \in Places : k # 1 => n > k - 1
             /\ \A k \in Places' : ~(k > n)
             /\ Kind(n)' = "closed"
  BY <1>4
<1>6. call = "close" /\ \A i \in Places : Kind(i) = "closeDone" => i = 1
  BY <1>4 DEF ReadinessInv, OrderInv
<1>7. ~connected /\ session \notin {"active", "hello", "fresh"}
  BY <1>6 DEF ReadinessInv, LinkInv
<1>8. \A i \in Places : Kind(i) # "connectDone"
  BY <1>6 DEF ReadinessInv, OrderInv
<1>9. \A i \in Places' : i + 1 # 1 /\ (i + 1) - 1 = i
  BY <1>4
<1>10. \A i \in Places' : Kind(i)' # "connectDone" /\ Kind(i)' # "closeDone"
  BY <1>5, <1>6, <1>8, <1>9
<1>11. LinkInv'
  BY <1>1, <1>7 DEF ReadinessInv, LinkInv
<1>12. OrderInv'
  BY <1>1, <1>7, <1>10 DEF OrderInv
<1>13. \A k \in Places : Promise(k) => k = 1
  BY <1>6, <1>7 DEF Promise
<1>14. \A i \in Places : Kind(i) # "configured"
  <2>1. ASSUME NEW i \in Places, Kind(i) = "configured" PROVE FALSE
    <3>1. PICK k \in Places : k > i /\ Promise(k)
      BY <1>7, <2>1 DEF ReadinessInv, StaleInv
    <3>2. k = 1 /\ i \in Nat /\ i # 0
      BY <1>4, <1>13, <3>1
    <3> QED BY <3>1, <3>2
  <2> QED BY <2>1
<1>15. Fence(n)'
  BY <1>5 DEF Fence
<1>16. \A i \in Places' : Kind(i)' = "inventoryReady" => n > i
  <2>1. ASSUME NEW i \in Places', Kind(i)' = "inventoryReady" PROVE n > i
    BY <1>5, <1>9, <2>1
  <2> QED BY <2>1
<1>17. \A d \in Domain : ~boot'[d].inventory
  BY <1>1 DEF ResetBootstrap, NotStarted
<1>18. StaleInv'
  BY <1>5, <1>14, <1>15, <1>16, <1>17 DEF StaleInv
<1>19. FreshInv' /\ BootInv'
  BY <1>1, <1>7, <1>17 DEF FreshInv, BootInv, Ready
<1> QED BY <1>3, <1>11, <1>12, <1>18, <1>19 DEF ReadinessInv

LEMMA InitInv == ASSUME Init PROVE ReadinessInv
<1>1. Places = {}
  BY DEF Init, Places
<1>2. \A d \in Domain : ~boot[d].inventory
  BY DEF Init, NotStarted
<1> QED BY <1>1, <1>2, InitTyped
        DEF Init, ReadinessInv, LinkInv, OrderInv, StaleInv, FreshInv, BootInv, Ready

LEMMA StutterKeeps == ASSUME ReadinessInv, UNCHANGED vars PROVE ReadinessInv'
<1>1. /\ UNCHANGED <<session, connected, call, posts, inv, boot, signalled, asked, seen>>
      /\ Places' = Places /\ \A i : Kind(i)' = Kind(i)
  BY DEF vars, link, tables, client, history, Places, Kind
<1>2. Typed'
  BY StutterTyped DEF ReadinessInv
<1> QED BY <1>1, <1>2 DEF ReadinessInv, LinkInv, OrderInv, StaleInv, FreshInv, BootInv, Ready,
                          BootstrapReady, Promise, Fence

LEMMA NextKeeps == ASSUME ReadinessInv, [Next]_vars PROVE ReadinessInv'
BY MessageKeeps, EventKeeps, OnDisconnectedKeeps, ConnectSucceedsKeeps, ConnectFailsKeeps,
   CloseEndsKeeps, ConnectKeeps, HelloEndsKeeps, LinkBreaksKeeps, CloseKeeps, SchedulerKeeps,
   StutterKeeps
   DEF Next, LoopStep, SchedulerStep

-----------------------------------------------------------------------------
\* What is left of an earlier session is reset before the client counts on it, and
\* what it counts on in a session was heard in that session (E27Kernel.connect,
\* _on_session_disconnected, Elke27Client._handle_kernel_event).
THEOREM SessionsApart == Spec => []ReadinessInv
BY InitInv, NextKeeps, PTL DEF Spec

\* A ready client has had, in this session, complete lists and a status of every item
\* it was to wait for, and its event is set (_mark_inventory_ready, _mark_status_seen,
\* _maybe_set_ready).
THEOREM ReadyIsRead == Spec => []ReadyMeansRead
BY SessionsApart, InvImpliesReadyMeansRead, PTL

\* No event of a session that is active makes the client less ready.
LEMMA StaysReady ==
  ASSUME ReadinessInv, [Next]_vars, Ready, session' = "active"
  PROVE  Ready'
<1>1. session = "active" /\ \A d \in Domain : boot[d].inventory /\ boot[d].status
  BY DEF Ready, BootstrapReady
<1>2. call = "none" /\ \A i \in Places : ~Fence(i) /\ Kind(i) # "closeDone"
  BY <1>1 DEF ReadinessInv, LinkInv, OrderInv
<1>3. ASSUME UNCHANGED boot PROVE Ready'
  BY <1>1, <1>3 DEF Ready, BootstrapReady
<1>4. ASSUME posts # <<>>
      PROVE  1 \in Places /\ Head(posts).kind = Kind(1) /\ Head(posts).dom \in Domain
  <2>1. IsQueue(posts)
    BY DEF ReadinessInv, Typed, PostsTyped
  <2>2. Len(posts) \in Nat \ {0} /\ Head(posts) = posts[1] /\ Head(posts) \in Elems(posts)
    BY <1>4, <2>1, Leaves
  <2> QED BY <2>2 DEF ReadinessInv, Typed, PostsTyped, Places, Kind
<1>5. CASE OnEvent
  <2> DEFINE e == Head(posts)
             d == e.dom
  <2>1. posts # <<>>
    BY <1>5 DEF OnEvent
  <2>2. d \in Domain /\ e.kind \notin {"lost", "closed"}
    BY <1>2, <1>4, <2>1 DEF Fence
  <2>3. CASE OnUp \/ OnCsmUpdated(e)
    BY <1>3, <2>3 DEF OnUp, OnCsmUpdated, MaybeSetReady
  <2>4. CASE MarkInventoryReady(d)
    BY <1>1, <1>3, <2>2, <2>4 DEF MarkInventoryReady, MaybeSetReady
  <2>5. CASE OnStatusUpdated(e)
    <3> DEFINE left == boot[d].pending \ e.ids
    <3>1. boot' = [boot EXCEPT ![d].pending = left, ![d].status = @ \/ left = {}]
      BY <2>5 DEF OnStatusUpdated, MarkStatusSeen, MaybeSetReady
    <3>2. /\ DOMAIN boot = Domain
          /\ \A c \in Domain : DOMAIN boot[c] = {"inventory", "pending", "status"}
      BY DEF ReadinessInv, Typed, ClientTyped
    <3> HIDE DEF left
    <3>3. \A c \in Domain : boot'[c].inventory /\ boot'[c].status
      BY <1>1, <2>2, <3>1, <3>2
    <3> QED BY <3>3 DEF Ready, BootstrapReady
  <2> QED BY <1>5, <2>2, <2>3, <2>4, <2>5 DEF OnEvent
<1>6. CASE CloseEnds
  BY <1>2, <1>4, <1>6 DEF CloseEnds
<1>7. CASE Connect
  BY <1>7 DEF Connect
<1>8. CASE OnMessage \/ OnDisconnected \/ ConnectSucceeds \/ ConnectFails \/ HelloEnds
           \/ LinkBreaks \/ Close \/ UNCHANGED vars
  BY <1>3, <1>8 DEF OnMessage, OnDisconnected, ConnectSucceeds, ConnectFails, HelloEnds,
                    LinkBreaks, Close, vars, client
<1>9. CASE SchedulerStep
  BY <1>3, <1>9, SchedulerSends DEF ReadinessInv, client
<1> QED BY <1>5, <1>6, <1>7, <1>8, <1>9 DEF Next, LoopStep, SchedulerStep

\* A client that is ready stays so while its session lives, whatever is read again
\* (_mark_inventory_ready and _mark_status_seen, docs/CHANGES.md:546).
THEOREM ReadyIsMonotonic == Spec => ReadyStays
<1>1. ReadinessInv /\ [Next]_vars => [Ready /\ session' = "active" => Ready']_vars
  BY StaysReady
<1> QED BY <1>1, SessionsApart, PTL DEF Spec, ReadyStays
=============================================================================
