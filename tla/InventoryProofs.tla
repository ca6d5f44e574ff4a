-------------------------- MODULE InventoryProofs --------------------------
(***************************************************************************)
(* Theorems about Inventory, for every size of the table and the blocks.   *)
(***************************************************************************)
EXTENDS Inventory, QueueProofs, FiniteSetTheorems, TLAPS

-----------------------------------------------------------------------------
(* Sets of ids.                                                            *)

LEMMA ImageFinite ==
  ASSUME NEW S, IsFiniteSet(S), NEW f
  PROVE  IsFiniteSet({f[x] : x \in S})
<1> DEFINE T == {f[x] : x \in S}
           g == [x \in S |-> f[x]]
<1>1. g \in Surjection(S, T)
  BY DEF Surjection
<1> QED BY <1>1, FS_Surjection

LEMMA IdSetsClosed ==
  /\ {} \in IdSets
  /\ \A A \in IdSets : \A B : B \subseteq A => B \in IdSets
  /\ \A A, B \in IdSets : A \cup B \in IdSets
<1>1. {} \in IdSets
  BY FS_EmptySet DEF IdSets
<1>2. ASSUME NEW A \in IdSets, NEW B, B \subseteq A PROVE B \in IdSets
  BY <1>2, FS_Subset DEF IdSets
<1>3. ASSUME NEW A \in IdSets, NEW B \in IdSets PROVE A \cup B \in IdSets
  BY <1>3, FS_Union DEF IdSets
<1> QED BY <1>1, <1>2, <1>3

LEMMA ShiftIsIds ==
  ASSUME NEW A \in IdSets, NEW c \in Nat
  PROVE  {i + c : i \in A} \in IdSets
<1> DEFINE f == [i \in A |-> i + c]
<1>1. {i + c : i \in A} = {f[i] : i \in A}
  OBVIOUS
<1>2. IsFiniteSet({f[i] : i \in A})
  BY ImageFinite DEF IdSets
<1>3. {i + c : i \in A} \subseteq Nat \ {0}
  BY DEF IdSets
<1> QED BY <1>1, <1>2, <1>3 DEF IdSets

\* What several blocks hold together is a set of ids.
LEMMA JoinedIsIds ==
  ASSUME NEW got \in Seq(IdSets), NEW f,
         \A b \in DOMAIN got : f[b] \in IdSets
  PROVE  UNION {f[b] : b \in DOMAIN got} \in IdSets
<1> DEFINE P == {f[b] : b \in DOMAIN got}
<1>1. DOMAIN got = 1 .. Len(got) /\ Len(got) \in Nat
  BY LenProperties
<1>2. IsFiniteSet(DOMAIN got)
  BY <1>1, FS_Interval
<1>3. IsFiniteSet(P)
  BY <1>2, ImageFinite
<1>4. \A S \in P : IsFiniteSet(S) /\ S \subseteq Nat \ {0}
  BY DEF IdSets
<1>5. IsFiniteSet(UNION P)
  BY <1>3, <1>4, FS_UNION
<1>6. UNION P \subseteq Nat \ {0}
  BY <1>4
<1> QED BY <1>5, <1>6 DEF IdSets

-----------------------------------------------------------------------------
(* The blocks of a table.                                                  *)

\* A block b holds the ids from (b - 1) * BlockSize + 1 on, as many as it has
\* room for, but for an id beyond the table, which the last block holds too.
LEMMA BlocksOfTable ==
  /\ Blocks \in Nat \ {0}
  /\ (Blocks - 1) * BlockSize < Top
  /\ Top <= Blocks * BlockSize
<1>1. Top \in Nat \ {0} /\ BlockSize \in Nat \ {0}
  BY InventoryBounds
<1>2. Blocks = (Top + BlockSize - 1) \div BlockSize
  BY DEF Blocks
<1> QED BY <1>1, <1>2, SMTT(30)

LEMMA BlockOfId ==
  ASSUME NEW i \in 1 .. Top
  PROVE  /\ BlockOf(i) \in 1 .. Blocks
         /\ (BlockOf(i) - 1) * BlockSize < i
         /\ i <= BlockOf(i) * BlockSize
<1>1. Top \in Nat \ {0} /\ BlockSize \in Nat \ {0}
  BY InventoryBounds
<1>2. BlockOf(i) = (i - 1) \div BlockSize + 1
  BY <1>1 DEF BlockOf
<1> QED BY <1>1, <1>2, BlocksOfTable, SMTT(30)

-----------------------------------------------------------------------------
(* The types of what the model is built from.                              *)

LEMMA ToldTyped ==
  ASSUME TypeOK, NEW b \in Nat \ {0}
  PROVE  Told(b) \in IdSets
<1>1. Top \in Nat \ {0} /\ BlockSize \in Nat \ {0} /\ Blocks \in Nat \ {0}
  BY InventoryBounds, BlocksOfTable
<1>2. panel.ids \subseteq 1 .. Top + 1
  BY DEF TypeOK, PanelTyped, Ids
<1> DEFINE ids == {i \in panel.ids : BlockOf(i) = b}
           S == Told(b)
<1>3. \A i \in ids : i - (b - 1) * BlockSize \in 1 .. Top + 1
  <2> SUFFICES ASSUME NEW i \in ids PROVE i - (b - 1) * BlockSize \in 1 .. Top + 1
    OBVIOUS
  <2>1. i \in 1 .. Top + 1 /\ BlockOf(i) = b
    BY <1>2
  <2>2. (b - 1) * BlockSize \in Nat
    BY <1>1
  <2>3. (b - 1) * BlockSize < i
    <3>1. CASE i <= Top
      BY <1>1, <2>1, <3>1, BlockOfId
    <3>2. CASE i > Top
      BY <1>1, <2>1, <3>2, BlocksOfTable DEF BlockOf
    <3> QED BY <1>1, <2>1, <3>1, <3>2
  <2> QED BY <1>1, <2>1, <2>2, <2>3
<1>4. S \subseteq 1 .. Top + 1
  BY <1>2, <1>3 DEF Told
<1>5. IsFiniteSet(1 .. Top + 1)
  BY <1>1, FS_Interval
<1> QED BY <1>1, <1>4, <1>5, FS_Subset DEF IdSets

LEMMA OffsetTyped ==
  ASSUME TypeOK, NEW A \in IdSets, NEW b \in Nat \ {0}
  PROVE  Offset(A, b) \in IdSets
<1>1. GuessedSize \in Nat
  <2>1. inv.top \in Nat /\ Blocks \in Nat \ {0}
    BY BlocksOfTable, InventoryBounds DEF TypeOK, InvSet
  <2>2. GuessedSize = (inv.top + Blocks - 1) \div Blocks
    BY DEF GuessedSize
  <2> QED BY <2>1, <2>2
<1>2. (b - 1) * GuessedSize \in Nat
  BY <1>1
<1> QED BY <1>2, ShiftIsIds DEF Offset

LEMMA MergeTyped ==
  ASSUME TypeOK, NEW got \in Seq(IdSets)
  PROVE  Merge(got) \in IdSets /\ ClientMerge(got) \in IdSets /\ Joined(got) \in IdSets
<1>1. \A b \in DOMAIN got : b \in Nat \ {0} /\ got[b] \in IdSets
  BY LenProperties, ElementOfSeq
<1>2. Joined(got) = UNION {got[b] : b \in DOMAIN got}
  BY DEF Joined, Range
<1>3. Joined(got) \in IdSets
  BY <1>1, <1>2, JoinedIsIds
<1> DEFINE f == [b \in DOMAIN got |-> Offset(got[b], b)]
<1>4. \A b \in DOMAIN got : f[b] \in IdSets
  BY <1>1, OffsetTyped
<1>5. AreaMerge(got) = UNION {f[b] : b \in DOMAIN got}
  BY DEF AreaMerge
<1> HIDE DEF f
<1>6. AreaMerge(got) \in IdSets
  BY <1>4, <1>5, JoinedIsIds
<1> QED BY <1>3, <1>6 DEF Merge, ClientMerge, ZoneMerge, OutputMerge, LightMerge, LockMerge,
          BarrierMerge, TstatMerge

\* Whatever the domain, a handler of get_configured replaces the list by the ids
\* it is given that the table has room for, or adds them.
LEMMA GetConfiguredCases ==
  ASSUME TypeOK, NEW ids, NEW last \in BOOLEAN
  PROVE  LET h == GetConfigured(ids, last)
         IN /\ h.tells \in BOOLEAN
            /\ d \in Assembled =>
                  /\ h.inv = [inv EXCEPT !.list = InTable(ids), !.complete = TRUE]
                  /\ h.tells \/ (d \in ToldOnce /\ inv.complete)
            /\ d \notin Assembled =>
                  /\ h.inv = [inv EXCEPT !.list = @ \cup ids, !.complete = @ \/ last]
                  /\ h.tells = last
<1>1. d \in Domain /\ inv.complete \in BOOLEAN
  BY DEF TypeOK, PanelTyped, InvSet, d
<1> QED BY <1>1 DEF GetConfigured, AreaGetConfigured, ZoneGetConfigured, OutputGetConfigured,
      LightGetConfigured, LockGetConfigured, BarrierGetConfigured, TstatGetConfigured,
      UserGetConfigured, KeypadGetConfigured, Replaced, Added, Domain, Assembled, ToldOnce

LEMMA GetConfiguredTyped ==
  ASSUME TypeOK, NEW ids \in IdSets, NEW last \in BOOLEAN
  PROVE  GetConfigured(ids, last).inv \in InvSet
<1>1. InTable(ids) \in IdSets /\ inv.list \cup ids \in IdSets
  BY IdSetsClosed DEF InTable, TypeOK, InvSet
<1>2. inv \in InvSet
  BY DEF TypeOK
<1>3. [inv EXCEPT !.list = InTable(ids), !.complete = TRUE] \in InvSet
  BY <1>1, <1>2 DEF InvSet
<1>4. [inv EXCEPT !.list = @ \cup ids, !.complete = @ \/ last] \in InvSet
  BY <1>1, <1>2 DEF InvSet
<1> DEFINE h == GetConfigured(ids, last)
<1>5. /\ d \in Assembled => h.inv = [inv EXCEPT !.list = InTable(ids), !.complete = TRUE]
      /\ d \notin Assembled => h.inv = [inv EXCEPT !.list = @ \cup ids, !.complete = @ \/ last]
  BY GetConfiguredCases
<1> HIDE DEF h
<1>6. h.inv \in InvSet
  BY <1>3, <1>4, <1>5
<1> QED BY <1>6 DEF h

LEMMA TableInfoCases ==
  ASSUME TypeOK
  PROVE  TableInfo = IF d \in ToldOnce THEN Pruned ELSE Sized
<1>1. d \in Domain
  BY DEF TypeOK, PanelTyped, d
<1> QED BY <1>1 DEF TableInfo, AreaGetTableInfo, ZoneGetTableInfo, OutputGetTableInfo,
      LightGetTableInfo, LockGetTableInfo, BarrierGetTableInfo, TstatGetTableInfo,
      KeypadGetTableInfo, ToldOnce

LEMMA TableInfoTyped ==
  ASSUME TypeOK
  PROVE  TableInfo \in InvSet
<1>1. inv \in InvSet
  BY DEF TypeOK
<1>2. {i \in inv.list : i <= Top} \in IdSets
  BY <1>1, IdSetsClosed DEF InvSet
<1> QED BY <1>1, <1>2, TableInfoCases DEF InvSet, Pruned, Sized

LEMMA RecordInvalidTyped ==
  ASSUME TypeOK, NEW i \in Nat
  PROVE  RecordInvalid(i) \in InvSet
<1>1. inv \in InvSet
  BY DEF TypeOK
<1> DEFINE streak == IF inv.last # Unknown /\ i = inv.last + 1 THEN inv.streak + 1 ELSE 1
           limit  == IF i > streak THEN i - streak ELSE 0
           known  == [inv EXCEPT !.last = i, !.streak = streak]
<1>2. streak \in Nat /\ limit \in Nat
  BY <1>1 DEF InvSet
<1>3. known \in InvSet /\ known.list = inv.list
  BY <1>1, <1>2 DEF InvSet
<1>4. {k \in inv.list : k <= limit} \in IdSets
  BY <1>1, IdSetsClosed DEF InvSet
<1>5. RecordInvalid(i) = IF streak >= Streak /\ (inv.limit = Unknown \/ limit < inv.limit)
                         THEN [known EXCEPT !.limit = limit, !.list = {k \in @ : k <= limit}]
                         ELSE known
  BY DEF RecordInvalid
<1> HIDE DEF streak, limit, known
<1> QED BY <1>2, <1>3, <1>4, <1>5 DEF InvSet

LEMMA RequestTyped ==
  ASSUME TypeOK
  PROVE  /\ List(TRUE) \in Requests /\ List(FALSE) \in Requests
         /\ Table \in Requests
         /\ \A i \in Nat \ {0} : Attribs(i) \in Requests
<1>1. panel.ids \subseteq Nat
  BY DEF TypeOK, PanelTyped, Ids
<1>2. <<>> \in Seq(IdSets)
  OBVIOUS
<1> QED BY <1>1, <1>2 DEF List, Table, Attribs, Request, Requests

LEMMA AttribsOfTyped ==
  ASSUME TypeOK, NEW ids \in IdSets, NEW s \in Sorted(ids)
  PROVE  AttribsOf(s) \in Seq(Requests)
<1>1. Cardinality(ids) \in Nat
  BY FS_CardinalityType DEF IdSets
<1>2. s \in [1 .. Cardinality(ids) -> ids]
  BY DEF Sorted
<1>3. Len(s) \in Nat /\ \A k \in 1 .. Len(s) : s[k] \in Nat \ {0}
  <2>1. s \in Seq(ids)
    BY <1>1, <1>2, SeqDef
  <2> QED BY <2>1, LenProperties, ElementOfSeq DEF IdSets
<1>4. \A k \in 1 .. Len(s) : Attribs(s[k]) \in Requests
  BY <1>3, RequestTyped
<1> QED BY <1>3, <1>4 DEF AttribsOf

LEMMA BootstrapTyped ==
  ASSUME TypeOK
  PROVE  Bootstrap \in Seq(Requests)
<1>0. \A r \in Requests : <<r>> \in Seq(Requests)
  OBVIOUS
<1>1. <<Table>> \in Seq(Requests) /\ <<List(FALSE)>> \in Seq(Requests)
  BY <1>0, RequestTyped
<1>2. <<>> \in Seq(Requests)
  OBVIOUS
<1>3. \A a, b \in Seq(Requests) : a \o b \in Seq(Requests)
  OBVIOUS
<1> QED BY <1>1, <1>2, <1>3 DEF Bootstrap

LEMMA NextBlockTyped ==
  ASSUME NEW r \in Requests, NEW ids \in IdSets
  PROVE  NextBlock(r, ids) \in Requests
<1>1. Append(r.got, ids) \in Seq(IdSets)
  BY DEF Requests
<1>2. r.block + 1 \in Nat \ {0}
  BY DEF Requests
<1> QED BY <1>1, <1>2 DEF NextBlock, Requests

LEMMA PostTyped ==
  /\ Ready \in Posts
  /\ \A r \in Requests, err \in Errors :
        Resume(r, err) \in Posts /\ \A ids \in IdSets : Message(r, err, ids) \in Posts
  BY DEF Ready, Resume, Message, Posts

LEMMA HeadPost ==
  ASSUME TypeOK, posts # <<>>
  PROVE  /\ Tail(posts) \in Seq(Posts)
         /\ Head(posts) \in Posts
         /\ Head(posts).kind \in {"message", "resume"} =>
               Head(posts).request \in Requests /\ Head(posts).err \in Errors
         /\ Head(posts).kind = "message" => Head(posts).ids \in IdSets
<1>1. posts \in Seq(Posts)
  BY DEF TypeOK, QueuesTyped
<1>2. Tail(posts) \in Seq(Posts) /\ Head(posts) \in Posts
  BY <1>1
<1> QED BY <1>2 DEF Posts

\* A handler's emission keeps the callbacks what they are.
LEMMA EmitTyped ==
  ASSUME TypeOK, posts # <<>>, NEW events \in Seq(Posts), Emit(events)
  PROVE  posts' \in Seq(Posts)
  BY HeadPost DEF Emit

-----------------------------------------------------------------------------
(* The types of the state.                                                 *)

LEMMA TypeInit == Init => TypeOK
<1> SUFFICES ASSUME Init PROVE TypeOK
  OBVIOUS
<1>1. panel \in [dom : Domain, ids : SUBSET Ids, relative : BOOLEAN]
  BY InventoryBounds DEF Init
<1>2. NoInventory \in InvSet
  BY IdSetsClosed DEF NoInventory, InvSet
<1>3. panel.ids \subseteq Nat
  BY <1>1 DEF Ids
<1>4. <<>> \in Seq(IdSets) /\ <<>> \in Seq(Requests) /\ <<>> \in Seq(Posts)
  OBVIOUS
<1>5. Table \in Requests /\ List(FALSE) \in Requests
  BY <1>3, <1>4 DEF List, Table, Request, Requests
<1>6. \A r \in Requests : <<r>> \in Seq(Requests)
  OBVIOUS
<1>7. \A a, b \in Seq(Requests) : a \o b \in Seq(Requests)
  OBVIOUS
<1>8. Bootstrap \in Seq(Requests)
  BY <1>4, <1>5, <1>6, <1>7 DEF Bootstrap
<1>9. PanelTyped /\ inv \in InvSet /\ QueuesTyped
  BY <1>1, <1>2, <1>4, <1>8 DEF PanelTyped, QueuesTyped, Init
<1>10. ClientTyped
  <2>1. ready \in BOOLEAN
    BY DEF Init
  <2>2. call \in [busy : BOOLEAN, attribs : 0 .. Top]
    BY InventoryBounds DEF Init, Idle
  <2> QED BY <2>1, <2>2 DEF ClientTyped
<1>11. basis \in BasisSet
  BY DEF Init, NoBasis, BasisSet
<1>12. ReadTyped /\ BoundsTyped
  BY InventoryBounds DEF ReadTyped, BoundsTyped, Init
<1> QED BY <1>9, <1>10, <1>11, <1>12 DEF TypeOK

\* The last block of a list, in a handler, and what follows it.
LEMMA HandleTyped ==
  ASSUME TypeOK, posts # <<>>, NEW r \in Requests, NEW ids \in IdSets,
         NEW after \in Seq(Posts), Handle(r, ids, after)
  PROVE  /\ inv' \in InvSet
         /\ basis' \in BasisSet
         /\ requests' = requests /\ posts' \in Seq(Posts)
<1> DEFINE last == r.block = Blocks
           h == GetConfigured(ids, last)
           events == (IF h.tells THEN <<Ready>> ELSE <<>>) \o after
<1>1. /\ inv' = h.inv /\ basis' = ListBasis(r, last)
      /\ Emit(events) /\ requests' = requests
  BY DEF Handle
<1>2. last \in BOOLEAN
  OBVIOUS
<1> HIDE DEF last
<1>3. inv' \in InvSet
  BY <1>1, <1>2, GetConfiguredTyped
<1>4. ListBasis(r, last) \in BasisSet
  <2>1. r.ever \subseteq Nat /\ r.always \subseteq Nat
    BY DEF Requests
  <2>2. basis.ever \subseteq Nat /\ basis.always \subseteq Nat
    BY DEF TypeOK, BasisSet
  <2>3. (Placed /\ (~r.mine \/ Blocks = 1)) \in BOOLEAN
    OBVIOUS
  <2> QED BY <2>1, <2>2, <2>3 DEF ListBasis, BasisSet
<1>5. events \in Seq(Posts)
  <2>1. <<Ready>> \in Seq(Posts) /\ <<>> \in Seq(Posts)
    BY PostTyped
  <2>2. \A a, b \in Seq(Posts) : a \o b \in Seq(Posts)
    OBVIOUS
  <2> HIDE DEF h
  <2> QED BY <2>1, <2>2
<1> HIDE DEF events
<1> QED BY <1>1, <1>3, <1>4, <1>5, EmitTyped

LEMMA OnListTyped ==
  ASSUME TypeOK, posts # <<>>, Head(posts).kind = "message", Head(posts).request.kind = "list",
         OnList, ready' = ready
  PROVE  /\ inv' \in InvSet
         /\ basis' \in BasisSet
         /\ requests' \in Seq(Requests) /\ posts' \in Seq(Posts)
         /\ later' \subseteq Nat
<1> DEFINE m == Head(posts)
           r == m.request
           partial == ~r.mine /\ d \in Assembled
<1>1. r \in Requests /\ m.ids \in IdSets /\ m.err \in Errors
  BY HeadPost
<1>2. /\ inv \in InvSet
      /\ basis \in BasisSet
      /\ requests \in Seq(Requests) /\ <<>> \in Seq(Posts)
  BY DEF TypeOK, QueuesTyped
<1>3. OnBlock(m)
  BY DEF OnList
<1> HIDE DEF m
<1>4. NextBlock(r, m.ids) \in Requests
  BY <1>1, NextBlockTyped
<1>5. /\ \A p \in Posts : <<p>> \in Seq(Posts)
      /\ Resume(r, m.err) \in Posts /\ Resume(NextBlock(r, m.ids), "none") \in Posts
  BY <1>1, <1>4, PostTyped DEF Errors
<1>6. /\ inv' \in InvSet
      /\ basis' \in BasisSet
      /\ requests' \in Seq(Requests) /\ posts' \in Seq(Posts)
  <2>1. CASE m.err # "none"
    <3>1. Emit(IF r.mine THEN <<Resume(r, m.err)>> ELSE <<>>) /\ UNCHANGED <<inv, basis, requests>>
      BY <1>3, <2>1 DEF OnBlock
    <3>2. (IF r.mine THEN <<Resume(r, m.err)>> ELSE <<>>) \in Seq(Posts)
      BY <1>2, <1>5
    <3> QED BY <1>2, <3>1, <3>2, EmitTyped
  <2>2. CASE m.err = "none" /\ partial /\ r.block < Blocks
    <3>1. /\ requests' = Append(requests, NextBlock(r, m.ids))
          /\ Emit(<<>>) /\ UNCHANGED <<inv, basis>>
      BY <1>3, <2>2 DEF OnBlock
    <3>2. requests' \in Seq(Requests)
      BY <1>2, <1>4, <3>1, AppendProperties
    <3> QED BY <1>2, <3>1, <3>2, EmitTyped
  <2>3. CASE m.err = "none" /\ partial /\ ~(r.block < Blocks)
    <3>1. Handle(r, Merge(Append(r.got, m.ids)), <<>>)
      BY <1>3, <2>3 DEF OnBlock
    <3>2. Append(r.got, m.ids) \in Seq(IdSets)
      BY <1>1 DEF Requests
    <3>3. Merge(Append(r.got, m.ids)) \in IdSets
      BY <3>2, MergeTyped
    <3> QED BY <1>1, <1>2, <3>1, <3>3, HandleTyped
  <2>4. CASE m.err = "none" /\ ~partial
    <3> DEFINE after == IF r.mine THEN <<Resume(NextBlock(r, m.ids), "none")>> ELSE <<>>
    <3>1. Handle(r, m.ids, after)
      BY <1>3, <2>4 DEF OnBlock
    <3>2. after \in Seq(Posts)
      BY <1>2, <1>5
    <3> HIDE DEF after
    <3> QED BY <1>1, <1>2, <3>1, <3>2, HandleTyped
  <2> QED BY <2>1, <2>2, <2>3, <2>4
<1>7. inv'.list \subseteq Nat
  BY <1>6 DEF InvSet, IdSets
<1>8. later' \subseteq Nat
  BY <1>7 DEF OnList, Later, TypeOK, ReadTyped
<1> QED BY <1>6, <1>8

LEMMA OnMessageTyped ==
  ASSUME TypeOK, OnMessage
  PROVE  TypeOK'
<1> DEFINE m == Head(posts)
           r == m.request
<1>1. /\ posts # <<>> /\ m.kind = "message"
      /\ UNCHANGED <<panel, ready, call, bounds>>
  BY DEF OnMessage
<1>2. m.err \in Errors /\ r \in Requests
  BY <1>1, HeadPost
<1>3. PanelTyped' /\ ClientTyped' /\ BoundsTyped'
  <2>1. PanelTyped'
    BY <1>1 DEF TypeOK, PanelTyped
  <2>2. ClientTyped'
    BY <1>1 DEF TypeOK, ClientTyped
  <2>3. BoundsTyped'
    BY <1>1 DEF TypeOK, BoundsTyped, bounds
  <2> QED BY <2>1, <2>2, <2>3
<1>4. /\ inv \in InvSet /\ basis \in BasisSet
      /\ requests \in Seq(Requests) /\ <<>> \in Seq(Posts)
      /\ named \subseteq Nat /\ failed \subseteq Nat /\ refused \subseteq Nat /\ later \subseteq Nat
  BY DEF TypeOK, QueuesTyped, ReadTyped
<1>5. /\ inv' \in InvSet /\ basis' \in BasisSet
      /\ requests' \in Seq(Requests) /\ posts' \in Seq(Posts)
      /\ named' \subseteq Nat /\ failed' \subseteq Nat /\ refused' \subseteq Nat
      /\ later' \subseteq Nat
  <2>1. CASE r.kind = "list" /\ OnList
    <3>1. UNCHANGED <<named, failed, refused>>
      BY <2>1 DEF OnList
    <3> QED BY <1>1, <1>4, <2>1, <3>1, OnListTyped
  <2>2. CASE r.kind = "table" /\ OnTable
    <3>1. /\ inv' = IF m.err = "none" THEN TableInfo ELSE inv
          /\ Emit(<<>>) /\ UNCHANGED <<requests, named, history>>
      BY <2>2 DEF OnTable
    <3>2. posts' \in Seq(Posts)
      BY <1>1, <1>4, <3>1, EmitTyped
    <3> HIDE DEF m
    <3> QED BY <1>4, <3>1, <3>2, TableInfoTyped DEF history
  <2>3. CASE r.kind = "attribs" /\ OnAttribs
    <3> DEFINE i == r.id
    <3>1. i \in Nat
      BY <1>2 DEF Requests
    <3>2. /\ refused' = IF m.err = "invalid" THEN refused \cup {i} ELSE refused
          /\ Emit(<<>>) /\ UNCHANGED <<requests, basis, later>>
          /\ \/ Store(i)
             \/ Refuse(i)
             \/ RefuseInvalid(i)
      BY <2>3 DEF OnAttribs, AreaGetAttribs, ZoneGetAttribs, OutputGetAttribs, LightGetAttribs,
         LockGetAttribs, BarrierGetAttribs, TstatGetAttribs, UserGetAttribs, KeypadGetAttribs
    <3>3. posts' \in Seq(Posts)
      BY <1>1, <1>4, <3>2, EmitTyped
    <3> HIDE DEF m, r, i
    <3>4. inv' \in InvSet /\ named' \subseteq Nat /\ failed' \subseteq Nat
      BY <1>4, <3>1, <3>2, RecordInvalidTyped DEF Store, Refuse, RefuseInvalid
    <3> QED BY <1>4, <3>1, <3>2, <3>3, <3>4
  <2> QED BY <2>1, <2>2, <2>3 DEF OnMessage
<1> QED BY <1>3, <1>5 DEF TypeOK, QueuesTyped, ReadTyped

\* When a list is ready its entities are asked for, or nothing more is.
LEMMA OnReadyCases ==
  ASSUME OnReady
  PROVE  /\ posts # <<>> /\ Head(posts).kind = "ready" /\ Emit(<<>>) /\ ready' = TRUE
         /\ UNCHANGED <<panel, inv, call, named, failed, refused, basis, bounds>>
         /\ \/ d \in Waited /\ ready /\ UNCHANGED <<requests, later>>
            \/ /\ ~(d \in Waited /\ ready)
               /\ \E s \in Sorted(inv.list) : requests' = requests \o AttribsOf(s)
               /\ later' = later \ inv.list
  BY DEF OnReady

LEMMA OnReadyTyped ==
  ASSUME TypeOK, OnReady
  PROVE  TypeOK'
<1>1. /\ posts # <<>> /\ Emit(<<>>) /\ ready' = TRUE
      /\ UNCHANGED <<panel, inv, call, named, failed, refused, basis, bounds>>
  BY OnReadyCases
<1>2. inv \in InvSet /\ requests \in Seq(Requests) /\ <<>> \in Seq(Posts) /\ later \subseteq Nat
  BY DEF TypeOK, QueuesTyped, ReadTyped
<1>3. later' \subseteq Nat
  BY <1>2, OnReadyCases
<1>4. requests' \in Seq(Requests) /\ posts' \in Seq(Posts)
  <2>1. ASSUME NEW s \in Sorted(inv.list) PROVE requests \o AttribsOf(s) \in Seq(Requests)
    <3>1. AttribsOf(s) \in Seq(Requests)
      BY <1>2, AttribsOfTyped DEF InvSet
    <3> QED BY <1>2, <3>1
  <2>2. requests' = requests \/ \E s \in Sorted(inv.list) : requests' = requests \o AttribsOf(s)
    BY OnReadyCases
  <2>3. posts' \in Seq(Posts)
    BY <1>1, <1>2, EmitTyped
  <2> QED BY <1>2, <2>1, <2>2, <2>3
<1>5. PanelTyped' /\ (inv \in InvSet)' /\ (basis \in BasisSet)' /\ ReadTyped' /\ BoundsTyped'
  BY <1>1, <1>3 DEF TypeOK, PanelTyped, ReadTyped, BoundsTyped, bounds
<1>6. ClientTyped'
  BY <1>1 DEF TypeOK, ClientTyped
<1> QED BY <1>4, <1>5, <1>6 DEF TypeOK, QueuesTyped

LEMMA OnResumeTyped ==
  ASSUME TypeOK, OnResume
  PROVE  TypeOK'
<1> DEFINE r == Head(posts).request
<1>1. /\ posts # <<>> /\ Head(posts).kind = "resume" /\ Emit(<<>>) /\ Later
      /\ UNCHANGED <<panel, ready, named, failed, refused, bounds>>
  BY DEF OnResume
<1>2. r \in Requests
  BY <1>1, HeadPost
<1>3. /\ inv \in InvSet /\ basis \in BasisSet /\ requests \in Seq(Requests) /\ <<>> \in Seq(Posts)
      /\ ready \in BOOLEAN /\ later \subseteq Nat
      /\ call.attribs \in 0 .. Top /\ call \in [busy : BOOLEAN, attribs : 0 .. Top]
      /\ Top \in Nat
  BY InventoryBounds DEF TypeOK, QueuesTyped, ClientTyped, ReadTyped
<1>4. Idle \in [busy : BOOLEAN, attribs : 0 .. Top]
  BY <1>3 DEF Idle
<1>5. posts' \in Seq(Posts)
  BY <1>1, <1>3, EmitTyped
<1>6. Prefetched(r) => inv' \in InvSet /\ basis' \in BasisSet
  <2>1. r.got \in Seq(IdSets) /\ r.ever \subseteq Nat /\ r.always \subseteq Nat
    BY <1>2 DEF Requests
  <2>2. ClientMerge(r.got) \in IdSets
    BY <2>1, MergeTyped
  <2>3. [inv EXCEPT !.list = ClientMerge(r.got), !.complete = TRUE] \in InvSet
    BY <1>3, <2>2 DEF InvSet
  <2>4. [ever |-> r.ever, always |-> r.always, whole |-> TRUE] \in BasisSet
    BY <2>1 DEF BasisSet
  <2> QED BY <1>3, <2>3, <2>4 DEF Prefetched
<1>7. call.attribs # 0 => Attribs(call.attribs) \in Requests
  BY <1>3, RequestTyped
<1>8. /\ inv' \in InvSet /\ basis' \in BasisSet /\ requests' \in Seq(Requests)
      /\ call' \in [busy : BOOLEAN, attribs : 0 .. Top]
  <2>1. CASE requests' = Append(requests, r) /\ UNCHANGED <<inv, basis, call>>
    BY <1>2, <1>3, <2>1
  <2>2. CASE call' = Idle /\ UNCHANGED <<inv, basis, requests>>
    BY <1>3, <1>4, <2>2
  <2>3. CASE /\ Prefetched(r) /\ call' = Idle
             /\ requests' = IF call.attribs = 0 THEN requests
                            ELSE Append(requests, Attribs(call.attribs))
    BY <1>3, <1>4, <1>6, <1>7, <2>3
  <2> QED BY <2>1, <2>2, <2>3 DEF OnResume
<1>9. inv'.list \subseteq Nat
  BY <1>8 DEF InvSet, IdSets
<1>10. later' \subseteq Nat
  BY <1>1, <1>3, <1>9 DEF Later
<1>11. PanelTyped' /\ BoundsTyped' /\ ReadTyped'
  BY <1>1, <1>10 DEF TypeOK, PanelTyped, BoundsTyped, ReadTyped, bounds
<1>12. ClientTyped'
  BY <1>1, <1>3, <1>8 DEF ClientTyped
<1> QED BY <1>5, <1>8, <1>11, <1>12 DEF TypeOK, QueuesTyped

LEMMA AppCallsTyped ==
  ASSUME TypeOK, AppCalls
  PROVE  TypeOK'
<1>1. /\ calls < MaxCalls /\ calls' = calls + 1
      /\ UNCHANGED <<panel, inv, ready, posts, named, history, troubles>>
  BY DEF AppCalls
<1>2. /\ inv \in InvSet /\ requests \in Seq(Requests)
      /\ ready \in BOOLEAN /\ call \in [busy : BOOLEAN, attribs : 0 .. Top] /\ Top \in Nat \ {0}
  BY InventoryBounds DEF TypeOK, QueuesTyped, ClientTyped
<1>3. /\ \A i \in 1 .. Top : Attribs(i) \in Requests
      /\ Table \in Requests /\ List(TRUE) \in Requests /\ List(FALSE) \in Requests
  <2>1. \A i \in 1 .. Top : i \in Nat \ {0}
    BY InventoryBounds
  <2> QED BY <2>1, RequestTyped
<1>4. /\ requests' \in Seq(Requests)
      /\ call' \in [busy : BOOLEAN, attribs : 0 .. Top]
  <2>1. CASE (\E more \in RefreshConfig : requests' = requests \o more) /\ UNCHANGED call
    <3>1. PICK s \in Sorted(IF d = "zone" THEN inv.list ELSE {}) :
             requests' = requests \o (<<Table, List(FALSE)>> \o AttribsOf(s))
      BY <2>1 DEF RefreshConfig
    <3>2. (IF d = "zone" THEN inv.list ELSE {}) \in IdSets
      BY <1>2, IdSetsClosed DEF InvSet
    <3>3. AttribsOf(s) \in Seq(Requests)
      BY <3>2, AttribsOfTyped
    <3>4. \A a, b \in Requests : <<a, b>> \in Seq(Requests)
      OBVIOUS
    <3>5. <<Table, List(FALSE)>> \o AttribsOf(s) \in Seq(Requests)
      BY <1>3, <3>3, <3>4, ConcatProperties
    <3>6. requests' \in Seq(Requests)
      BY <1>2, <3>1, <3>5, ConcatProperties
    <3> QED BY <1>2, <2>1, <3>6
  <2>2. CASE requests' = Append(requests, Table) /\ UNCHANGED call
    BY <1>2, <1>3, <2>2
  <2>3. CASE call' = [Idle EXCEPT !.busy = TRUE] /\ requests' = Append(requests, List(TRUE))
    <3>1. 0 \in 0 .. Top
      BY InventoryBounds
    <3>2. Idle \in [busy : BOOLEAN, attribs : 0 .. Top]
      BY <3>1 DEF Idle
    <3>3. [Idle EXCEPT !.busy = TRUE] \in [busy : BOOLEAN, attribs : 0 .. Top]
      BY <3>2
    <3>4. Append(requests, List(TRUE)) \in Seq(Requests)
      BY <1>2, <1>3, AppendProperties
    <3> QED BY <2>3, <3>3, <3>4
  <2>4. ASSUME NEW i \in 1 .. Top,
               IF Unlisted
               THEN call' = [busy |-> TRUE, attribs |-> i] /\ requests' = Append(requests, List(TRUE))
               ELSE UNCHANGED call /\ requests' = Append(requests, Attribs(i))
        PROVE  requests' \in Seq(Requests) /\ call' \in [busy : BOOLEAN, attribs : 0 .. Top]
    <3>1. Append(requests, List(TRUE)) \in Seq(Requests)
      BY <1>2, <1>3, AppendProperties
    <3>2. Append(requests, Attribs(i)) \in Seq(Requests)
      <4>1. Attribs(i) \in Requests
        BY <1>3
      <4> QED BY <1>2, <4>1, AppendProperties
    <3>3. i \in 0 .. Top
      BY InventoryBounds
    <3>4. [busy |-> TRUE, attribs |-> i] \in [busy : BOOLEAN, attribs : 0 .. Top]
      BY <3>3
    <3>5. CASE Unlisted
      BY <2>4, <3>1, <3>4, <3>5
    <3>6. CASE ~Unlisted
      BY <1>2, <2>4, <3>2, <3>6
    <3> QED BY <3>5, <3>6
  <2> QED BY <2>1, <2>2, <2>3, <2>4 DEF AppCalls
<1>5. ClientTyped'
  BY <1>1, <1>2, <1>4 DEF ClientTyped
<1>6. QueuesTyped'
  BY <1>1, <1>4 DEF TypeOK, QueuesTyped
<1>7. BoundsTyped'
  BY <1>1, InventoryBounds DEF TypeOK, BoundsTyped
<1>8. PanelTyped' /\ (inv \in InvSet)' /\ (basis \in BasisSet)' /\ ReadTyped'
  BY <1>1 DEF TypeOK, PanelTyped, ReadTyped, history
<1> QED BY <1>5, <1>6, <1>7, <1>8 DEF TypeOK

LEMMA TroubleTyped == TypeOK /\ Trouble /\ UNCHANGED calls => BoundsTyped'
  BY InventoryBounds DEF TypeOK, Trouble, BoundsTyped

LEMMA PanelAnswersTyped ==
  ASSUME TypeOK, PanelAnswers
  PROVE  TypeOK'
<1> DEFINE r == Head(requests)
<1>1. /\ requests # <<>> /\ requests' = Tail(requests)
      /\ UNCHANGED <<panel, inv, ready, call, named, history, calls>>
      /\ UNCHANGED troubles \/ Trouble
      /\ \E err \in Errors, ids \in {Told(r.block), {}} :
            posts' = Append(posts, Message(r, err, ids))
  BY DEF PanelAnswers, Errors
<1>2. requests \in Seq(Requests) /\ posts \in Seq(Posts)
  BY DEF TypeOK, QueuesTyped
<1>3. r \in Requests /\ requests' \in Seq(Requests)
  BY <1>1, <1>2
<1>4. Told(r.block) \in IdSets /\ {} \in IdSets
  BY <1>3, ToldTyped, IdSetsClosed DEF Requests
<1>5. PICK err \in Errors, ids \in IdSets : posts' = Append(posts, Message(r, err, ids))
  BY <1>1, <1>4
<1>6. Message(r, err, ids) \in Posts
  BY <1>3, PostTyped
<1>7. QueuesTyped'
  BY <1>2, <1>3, <1>5, <1>6 DEF QueuesTyped
<1>8. BoundsTyped'
  BY <1>1, TroubleTyped DEF TypeOK, BoundsTyped
<1>9. PanelTyped' /\ (inv \in InvSet)' /\ (basis \in BasisSet)' /\ ReadTyped' /\ ClientTyped'
  BY <1>1 DEF TypeOK, PanelTyped, ReadTyped, ClientTyped, history
<1> QED BY <1>7, <1>8, <1>9 DEF TypeOK

LEMMA ReconnectTyped ==
  ASSUME TypeOK, Reconnect
  PROVE  TypeOK'
<1>1. /\ Trouble /\ posts' = posts /\ panel' = panel /\ calls' = calls
      /\ inv' = NoInventory /\ ready' = FALSE /\ call' = Idle /\ requests' = Bootstrap
      /\ named' = {} /\ failed' = {} /\ refused' = {} /\ later' = {} /\ basis' = NoBasis
  BY DEF Reconnect
<1>2. NoInventory \in InvSet
  BY IdSetsClosed DEF NoInventory, InvSet
<1>3. Idle \in [busy : BOOLEAN, attribs : 0 .. Top]
  BY InventoryBounds DEF Idle
<1>4. NoBasis \in BasisSet
  BY DEF NoBasis, BasisSet
<1>5. ClientTyped'
  BY <1>1, <1>3 DEF ClientTyped
<1>6. QueuesTyped'
  BY <1>1, BootstrapTyped DEF TypeOK, QueuesTyped
<1>7. PanelTyped' /\ ReadTyped'
  BY <1>1 DEF TypeOK, PanelTyped, ReadTyped
<1> QED BY <1>1, <1>2, <1>4, <1>5, <1>6, <1>7, TroubleTyped DEF TypeOK

LEMMA FunctionIsSeq ==
  ASSUME NEW S, NEW n \in Nat, NEW f \in [1 .. n -> S]
  PROVE  f \in Seq(S) /\ Len(f) = n
<1>1. f \in Seq(S)
  BY SeqDef
<1>2. Len(f) \in Nat /\ 1 .. Len(f) = 1 .. n
  BY <1>1, LenProperties
<1> QED BY <1>1, <1>2

\* What an edit of the panel does to a request: history only.
See(r, ids) == [r EXCEPT !.ever = @ \cup ids, !.always = @ \cap ids]

LEMMA EditCases ==
  ASSUME TypeOK, PanelEdits
  PROVE  \E ids \in SUBSET Ids :
           /\ panel' = [panel EXCEPT !.ids = ids]
           /\ (panel.ids \subseteq 1 .. Top => ids \subseteq 1 .. Top)
           /\ Len(requests') = Len(requests) /\ requests' \in Seq(Requests)
           /\ \A k \in 1 .. Len(requests) : requests'[k] = See(requests[k], ids)
           /\ Len(posts') = Len(posts) /\ posts' \in Seq(Posts)
           /\ \A k \in 1 .. Len(posts) :
                IF posts[k].kind = "ready" THEN posts'[k] = posts[k]
                ELSE posts'[k] = [posts[k] EXCEPT !.request = See(@, ids)]
<1>1. PICK i \in 1 .. Top :
        LET ids == IF i \in panel.ids THEN panel.ids \ {i} ELSE panel.ids \cup {i}
            Saw(r) == [r EXCEPT !.ever = @ \cup ids, !.always = @ \cap ids]
        IN /\ panel' = [panel EXCEPT !.ids = ids]
           /\ requests' = [k \in DOMAIN requests |-> Saw(requests[k])]
           /\ posts' = [k \in DOMAIN posts |-> IF posts[k].kind = "ready" THEN posts[k]
                                              ELSE [posts[k] EXCEPT !.request = Saw(@)]]
  BY DEF PanelEdits
<1> DEFINE ids == IF i \in panel.ids THEN panel.ids \ {i} ELSE panel.ids \cup {i}
<1>2. ids \in SUBSET Ids /\ (panel.ids \subseteq 1 .. Top => ids \subseteq 1 .. Top)
      /\ ids \subseteq Nat
  BY InventoryBounds DEF TypeOK, PanelTyped, Ids
<1>3. /\ panel' = [panel EXCEPT !.ids = ids]
      /\ requests' = [k \in DOMAIN requests |-> See(requests[k], ids)]
      /\ posts' = [k \in DOMAIN posts |-> IF posts[k].kind = "ready" THEN posts[k]
                                         ELSE [posts[k] EXCEPT !.request = See(@, ids)]]
  BY <1>1 DEF See
<1>4. /\ requests \in Seq(Requests) /\ posts \in Seq(Posts)
      /\ DOMAIN requests = 1 .. Len(requests) /\ DOMAIN posts = 1 .. Len(posts)
      /\ Len(requests) \in Nat /\ Len(posts) \in Nat
  BY LenProperties DEF TypeOK, QueuesTyped
<1> HIDE DEF ids
<1>5. \A r \in Requests : See(r, ids) \in Requests
  BY <1>2 DEF See, Requests
<1>6. \A k \in 1 .. Len(requests) : requests[k] \in Requests
  BY <1>4, ElementOfSeq
<1>7. \A k \in 1 .. Len(posts) : posts[k] \in Posts
  BY <1>4, ElementOfSeq
<1>8. \A p \in Posts : p.kind = "ready" \/ [p EXCEPT !.request = See(@, ids)] \in Posts
  BY <1>5 DEF Posts
<1>9. /\ requests' \in [1 .. Len(requests) -> Requests]
      /\ posts' \in [1 .. Len(posts) -> Posts]
  BY <1>3, <1>4, <1>5, <1>6, <1>7, <1>8
<1>10. /\ requests' \in Seq(Requests) /\ Len(requests') = Len(requests)
       /\ posts' \in Seq(Posts) /\ Len(posts') = Len(posts)
  BY <1>4, <1>9, FunctionIsSeq
<1> QED BY <1>2, <1>3, <1>4, <1>10

LEMMA PanelEditsTyped ==
  ASSUME TypeOK, PanelEdits
  PROVE  TypeOK'
<1>1. PICK ids \in SUBSET Ids :
         /\ panel' = [panel EXCEPT !.ids = ids]
         /\ requests' \in Seq(Requests) /\ posts' \in Seq(Posts)
  BY EditCases
<1>2. /\ Trouble
      /\ UNCHANGED <<inv, ready, call, named, failed, refused, basis, later, calls>>
  BY DEF PanelEdits
<1>3. PanelTyped'
  BY <1>1 DEF TypeOK, PanelTyped
<1>4. QueuesTyped' /\ ClientTyped' /\ ReadTyped' /\ (inv \in InvSet)' /\ (basis \in BasisSet)'
  BY <1>1, <1>2 DEF TypeOK, QueuesTyped, ClientTyped, ReadTyped
<1> QED BY <1>2, <1>3, <1>4, TroubleTyped DEF TypeOK

LEMMA TypeStep == TypeOK /\ [Next]_vars => TypeOK'
<1> SUFFICES ASSUME TypeOK, [Next]_vars PROVE TypeOK'
  OBVIOUS
<1>1. CASE UNCHANGED vars
  BY <1>1 DEF vars, history, bounds, TypeOK, PanelTyped, ClientTyped, QueuesTyped, ReadTyped,
     BoundsTyped
<1>2. CASE Next
  BY <1>2, OnMessageTyped, OnReadyTyped, OnResumeTyped, AppCallsTyped, PanelAnswersTyped,
     PanelEditsTyped, ReconnectTyped DEF Next
<1> QED BY <1>1, <1>2

\* The inventory, the requests and the callbacks are what they are taken for: ids
\* count from 1, a list is finite, the known size is the table's or none.
THEOREM TypeCorrect == Spec => []TypeOK
  BY TypeInit, TypeStep, PTL DEF Spec

-----------------------------------------------------------------------------
(* What a step does to the inventory.                                      *)

\* The list may grow or shrink, the size be told: the streak and the limit stay.
Kept == inv'.last = inv.last /\ inv'.streak = inv.streak /\ inv'.limit = inv.limit

LEMMA InvCases ==
  ASSUME TypeOK, [Next]_vars
  PROVE  \/ inv' = inv /\ refused \subseteq refused'
         \/ /\ inv' = NoInventory
         \/ /\ Kept /\ refused' = refused /\ inv'.top = inv.top
            /\ d \in ToldOnce => \E ids : inv'.list = InTable(ids)
         \/ /\ Kept /\ refused' = refused /\ inv'.top = Top
            /\ d \in ToldOnce => \A i \in inv'.list : i <= Top
         \/ \E i \in Nat \ {0} :
              inv' = RecordInvalid(i) /\ refused' = refused \cup {i} /\ d \in ToldOnce
<1>0. inv \in InvSet /\ d \in Domain
  BY DEF TypeOK, PanelTyped, d
<1>1. CASE OnMessage
  <2> DEFINE m == Head(posts)
             r == m.request
  <2>1. posts # <<>> /\ m.kind = "message"
    BY <1>1 DEF OnMessage
  <2>2. m.err \in Errors /\ r \in Requests
    BY <2>1, HeadPost
  <2>3. CASE OnList
    <3>1. refused' = refused
      BY <2>3 DEF OnList
    <3>2. inv' = inv \/ \E ids : \E last \in BOOLEAN : inv' = GetConfigured(ids, last).inv
      <4>1. OnBlock(m)
        BY <2>3 DEF OnList
      <4>2. inv' = inv \/ \E ids, after : Handle(r, ids, after)
        BY <4>1 DEF OnBlock
      <4>3. \A ids, after : Handle(r, ids, after) =>
               inv' = GetConfigured(ids, r.block = Blocks).inv
        BY DEF Handle
      <4>4. (r.block = Blocks) \in BOOLEAN
        OBVIOUS
      <4> HIDE DEF m, r
      <4> QED BY <4>2, <4>3, <4>4
    <3>3. ASSUME NEW ids, NEW last \in BOOLEAN, inv' = GetConfigured(ids, last).inv
          PROVE  /\ Kept /\ inv'.top = inv.top
                 /\ d \in ToldOnce => inv'.list = InTable(ids)
      <4> DEFINE h == GetConfigured(ids, last)
      <4>1. \/ h.inv = [inv EXCEPT !.list = InTable(ids), !.complete = TRUE]
            \/ /\ h.inv = [inv EXCEPT !.list = @ \cup ids, !.complete = @ \/ last]
               /\ d \notin ToldOnce
        BY <1>0, GetConfiguredCases DEF Assembled, ToldOnce
      <4>2. inv' = h.inv
        BY <3>3
      <4> HIDE DEF h
      <4> QED BY <1>0, <4>1, <4>2 DEF Kept, InvSet
    <3> QED BY <3>1, <3>2, <3>3
  <2>4. CASE OnTable
    <3>1. inv' = inv \/ inv' = TableInfo
      BY <2>4 DEF OnTable
    <3>2. refused' = refused
      BY <2>4 DEF OnTable, history
    <3>3. CASE inv' = TableInfo
      BY <1>0, <3>2, <3>3, TableInfoCases DEF Pruned, Sized, Kept, InvSet
    <3> QED BY <3>1, <3>2, <3>3
  <2>5. CASE r.kind = "attribs" /\ OnAttribs
    <3> DEFINE i == r.id
    <3>1. i \in Nat \ {0}
      BY <2>2, <2>5 DEF Requests
    <3>2. /\ refused' = IF m.err = "invalid" THEN refused \cup {i} ELSE refused
          /\ \/ inv' = inv
             \/ inv' = RecordInvalid(i) /\ m.err = "invalid" /\ d \in ToldOnce
      BY <2>5 DEF OnAttribs, AreaGetAttribs, ZoneGetAttribs, OutputGetAttribs, LightGetAttribs,
         LockGetAttribs, BarrierGetAttribs, TstatGetAttribs, UserGetAttribs, KeypadGetAttribs,
         Store, Refuse, RefuseInvalid, ToldOnce
    <3> HIDE DEF m, r, i
    <3> QED BY <3>1, <3>2
  <2> QED BY <1>1, <2>3, <2>4, <2>5 DEF OnMessage
<1>2. CASE OnReady \/ AppCalls \/ PanelAnswers \/ PanelEdits \/ UNCHANGED vars
  BY <1>2 DEF OnReady, AppCalls, PanelAnswers, PanelEdits, vars, history
<1>3. CASE OnResume
  <2>1. refused' = refused
    BY <1>3 DEF OnResume
  <2>2. \/ inv' = inv
        \/ d \notin ToldOnce /\ \E ids : inv' = [inv EXCEPT !.list = ids, !.complete = TRUE]
    BY <1>3 DEF OnResume, Prefetched
  <2> QED BY <1>0, <2>1, <2>2 DEF Kept, InvSet
<1>4. CASE Reconnect
  BY <1>4 DEF Reconnect
<1> QED BY <1>1, <1>2, <1>3, <1>4 DEF Next

\* The domain of a behaviour stays, and so does what kind of ids its panel sends.
LEMMA DomainStays ==
  ASSUME TypeOK, [Next]_vars
  PROVE  d' = d /\ panel'.relative = panel.relative
<1>1. panel' = panel \/ \E ids : panel' = [panel EXCEPT !.ids = ids]
  <2>1. CASE PanelEdits
    BY <2>1, EditCases
  <2> QED BY <2>1 DEF Next, OnMessage, OnReady, OnResume, AppCalls, PanelAnswers, Reconnect, vars
<1> QED BY <1>1 DEF d, TypeOK, PanelTyped

\* Whatever order the size of the table and the list come in, an area or a zone
\* beyond the table is not listed.
THEOREM TableBounds == Spec => []NothingBeyondTable
<1>1. Init => NothingBeyondTable
  BY DEF Init, NoInventory, NothingBeyondTable
<1>2. TypeOK /\ NothingBeyondTable /\ [Next]_vars => NothingBeyondTable'
  <2> SUFFICES ASSUME TypeOK, NothingBeyondTable, [Next]_vars, d' \in ToldOnce, inv'.top # 0,
                      NEW i \in inv'.list
               PROVE  i <= inv'.top
    BY DEF NothingBeyondTable
  <2>1. d \in ToldOnce /\ inv \in InvSet
    BY DomainStays DEF TypeOK
  <2>2. CASE inv' = inv
    BY <2>1, <2>2 DEF NothingBeyondTable
  <2>3. CASE inv' = NoInventory
    BY <2>3 DEF NoInventory
  <2>4. CASE inv'.top = inv.top /\ \E ids : inv'.list = InTable(ids)
    BY <2>1, <2>4 DEF InTable
  <2>5. CASE inv'.top = Top /\ \A k \in inv'.list : k <= Top
    BY <2>5
  <2>6. ASSUME NEW k \in Nat \ {0}, inv' = RecordInvalid(k)
        PROVE  i <= inv'.top
    <3>1. inv'.list \subseteq inv.list /\ inv'.top = inv.top
      BY <2>1, <2>6 DEF RecordInvalid, InvSet
    <3> QED BY <2>1, <3>1 DEF NothingBeyondTable
  <2> QED BY <2>1, <2>2, <2>3, <2>4, <2>5, <2>6, InvCases
<1> QED BY <1>1, <1>2, TypeCorrect, PTL DEF Spec

\* The list ends early only behind a full run of ids that the panel called invalid
\* in this session, in whatever order and between whatever else the answers came.
THEOREM EarnedLimit == Spec => []LimitIsEarned
<1> DEFINE Earned == LimitIsEarned /\ StreakIsRefused
<1>1. Init => Earned
  BY DEF Init, NoInventory, LimitIsEarned, StreakIsRefused
<1>2. TypeOK /\ Earned /\ [Next]_vars => Earned'
  <2> SUFFICES ASSUME TypeOK, Earned, [Next]_vars PROVE Earned'
    OBVIOUS
  <2>1. inv \in InvSet /\ Streak \in Nat \ {0} /\ Unknown \notin Int
    BY InventoryBounds DEF TypeOK
  <2>2. CASE inv' = inv /\ refused \subseteq refused'
    BY <2>1, <2>2 DEF LimitIsEarned, StreakIsRefused
  <2>3. CASE inv' = NoInventory
    BY <2>3 DEF NoInventory, LimitIsEarned, StreakIsRefused
  <2>4. CASE Kept /\ refused' = refused
    BY <2>1, <2>4 DEF Kept, LimitIsEarned, StreakIsRefused
  <2>5. ASSUME NEW i \in Nat \ {0}, inv' = RecordInvalid(i), refused' = refused \cup {i}
        PROVE  Earned'
    <3> DEFINE streak == IF inv.last # Unknown /\ i = inv.last + 1 THEN inv.streak + 1 ELSE 1
               limit  == IF i > streak THEN i - streak ELSE 0
    <3>1. /\ inv'.last = i /\ inv'.streak = streak
          /\ \/ inv'.limit = inv.limit
             \/ inv'.limit = limit /\ streak >= Streak
      BY <2>1, <2>5 DEF RecordInvalid, InvSet
    <3>2. /\ streak \in Nat /\ 1 <= streak /\ streak <= i
          /\ \A k \in i - streak + 1 .. i : k \in refused'
      BY <2>1, <2>5 DEF StreakIsRefused, InvSet
    <3> HIDE DEF streak
    <3>3. StreakIsRefused'
      BY <3>1, <3>2 DEF StreakIsRefused
    <3>4. CASE inv'.limit = inv.limit
      <4>1. LimitIsEarned /\ refused' = refused \cup {i}
        BY <2>5
      <4> QED BY <3>3, <3>4, <4>1 DEF LimitIsEarned
    <3>5. CASE inv'.limit = limit /\ streak >= Streak
      <4>1. \A k \in limit + 1 .. limit + Streak : k \in i - streak + 1 .. i
        BY <2>1, <3>2, <3>5
      <4>2. \A k \in inv'.limit + 1 .. inv'.limit + Streak : k \in refused'
        BY <3>2, <3>5, <4>1
      <4> QED BY <3>3, <4>2 DEF LimitIsEarned
    <3> QED BY <3>1, <3>3, <3>4, <3>5
  <2> QED BY <2>2, <2>3, <2>4, <2>5, InvCases
<1>3. Earned => LimitIsEarned
  OBVIOUS
<1> QED BY <1>1, <1>2, <1>3, TypeCorrect, PTL DEF Spec

-----------------------------------------------------------------------------
(* A complete list is whole.                                               *)

\* An area's block whose ids count from its start can only be placed where the
\* guessed size of a block is the size of a block and no area is beyond the
\* table; only areas are placed at all.
Fits ==
    \A p \in Panels : p.relative =>
        /\ p.dom = "area" /\ p.ids \subseteq 1 .. Top
        /\ (Top + Blocks - 1) \div Blocks = BlockSize

PanelFits ==
    panel.relative =>
        /\ d = "area" /\ panel.ids \subseteq 1 .. Top
        /\ (Top + Blocks - 1) \div Blocks = BlockSize

\* The ids of S in block b, and the ids that a block with ids means.
Part(S, b) == {i \in S : BlockOf(i) = b}
Meant(ids, b) == IF panel.relative THEN {i + (b - 1) * BlockSize : i \in ids} ELSE ids

\* A block has what the panel listed of it all the time the list was being read,
\* and nothing it never listed meanwhile.
BlockIsWhole(ids, b, r) ==
    Part(r.always, b) \subseteq Meant(ids, b) /\ Meant(ids, b) \subseteq Part(r.ever, b)

Room == IF panel.relative THEN 1 .. Top ELSE Ids

\* What a list being read has seen of the panel; its blocks so far, each of them
\* whole; where the handler adds block by block, they are listed.
Heard(r) == r.always \subseteq panel.ids /\ panel.ids \subseteq r.ever /\ r.ever \subseteq Room
BlocksRead(r) ==
    /\ r.block = Len(r.got) + 1 /\ r.block <= Blocks + 1
    /\ \A b \in 1 .. Len(r.got) : BlockIsWhole(r.got[b], b, r)
AddedSoFar(r) ==
    d \notin Assembled =>
        /\ r.mine \/ r.block = 1
        /\ \A i \in r.always : BlockOf(i) < r.block => i \in inv.list

BeingRead(r) == r.kind = "list" => Heard(r) /\ BlocksRead(r) /\ AddedSoFar(r)

GoodRequests == {r \in Requests : BeingRead(r) /\ (r.kind = "list" => r.block <= Blocks)}

GoodPosts ==
    {p \in Posts :
       /\ p.kind = "message" =>
             /\ p.request \in GoodRequests
             /\ p.request.kind = "list" /\ p.err = "none" =>
                   BlockIsWhole(p.ids, p.request.block, p.request)
       /\ p.kind = "resume" =>
             /\ BeingRead(p.request) /\ p.request.kind = "list" /\ p.request.mine
             /\ p.err # "none" => p.request.block <= Blocks}

\* The application's call has one request or callback under way at a time.
AtMostOne(s, M) == \A j, k \in 1 .. Len(s) : s[j] \in M /\ s[k] \in M => j = k
Free(s, M) == \A k \in 1 .. Len(s) : s[k] \notin M

MineRequests == {r \in Requests : r.kind = "list" /\ r.mine}
MinePosts == {p \in Posts : p.kind # "ready" /\ p.request \in MineRequests}

OneCall ==
    /\ AtMostOne(requests, MineRequests) /\ AtMostOne(posts, MinePosts)
    /\ Free(requests, MineRequests) \/ Free(posts, MinePosts)
    /\ ~call.busy => Free(requests, MineRequests) /\ Free(posts, MinePosts)

Accounted == d \notin Assembled => inv.list \subseteq basis.ever /\ basis.whole

Good == requests \in Seq(GoodRequests) /\ posts \in Seq(GoodPosts)

WholeInv == PanelFits /\ OneCall /\ Accounted /\ ListIsWhole /\ Good

LEMMA BlockInRange ==
  ASSUME NEW i \in Ids
  PROVE  BlockOf(i) \in 1 .. Blocks
<1>1. Top \in Nat \ {0} /\ Blocks \in Nat \ {0}
  BY InventoryBounds, BlocksOfTable
<1>2. CASE i <= Top
  BY <1>1, <1>2, BlockOfId DEF Ids
<1>3. CASE i > Top
  BY <1>1, <1>3 DEF BlockOf
<1> QED BY <1>1, <1>2, <1>3 DEF Ids

LEMMA ToldIsWhole ==
  ASSUME TypeOK, NEW b \in Nat \ {0}, NEW r, Heard(r)
  PROVE  BlockIsWhole(Told(b), b, r)
<1> DEFINE c == (b - 1) * BlockSize
           ids == {i \in panel.ids : BlockOf(i) = b}
<1>1. c \in Nat
  BY InventoryBounds
<1>2. panel.ids \subseteq Nat
  BY DEF TypeOK, PanelTyped, Ids
<1>3. Meant(Told(b), b) = ids
  <2>1. Told(b) = IF panel.relative THEN {i - c : i \in ids} ELSE ids
    BY DEF Told
  <2>2. Meant(Told(b), b) = IF panel.relative THEN {i + c : i \in Told(b)} ELSE Told(b)
    BY DEF Meant
  <2> HIDE DEF c
  <2>3. \A i \in ids : (i - c) + c = i
    BY <1>1, <1>2
  <2>4. {i + c : i \in {j - c : j \in ids}} = ids
    BY <2>3
  <2>5. CASE panel.relative
    BY <2>1, <2>2, <2>4, <2>5
  <2>6. CASE ~panel.relative
    BY <2>1, <2>2, <2>6
  <2> QED BY <2>5, <2>6
<1> QED BY <1>3 DEF BlockIsWhole, Part, Heard

\* An area's block is placed where it belongs, once the size of the table is known
\* where that matters.
LEMMA OffsetMeans ==
  ASSUME TypeOK, PanelFits, Placed, NEW b \in 1 .. Blocks, NEW A \in IdSets,
         Meant(A, b) \subseteq Part(Room, b)
  PROVE  Offset(A, b) = Meant(A, b)
<1>1. /\ Top \in Nat \ {0} /\ BlockSize \in Nat \ {0} /\ Blocks \in Nat \ {0}
      /\ inv.top \in {0, Top} /\ A \subseteq Nat \ {0}
  BY InventoryBounds, BlocksOfTable DEF TypeOK, InvSet, IdSets
<1>2. /\ (Blocks - 1) * BlockSize < Top
      /\ Top <= Blocks * BlockSize
  BY BlocksOfTable
<1>3. CASE panel.relative
  <2>1. inv.top = Top /\ GuessedSize = BlockSize
    BY <1>1, <1>3 DEF Placed, GuessedSize, PanelFits
  <2> DEFINE c == (b - 1) * BlockSize
  <2>2. c \in Nat /\ (b = 1 => c = 0) /\ b * BlockSize = c + BlockSize
    BY <1>1
  <2>3. \A i \in A : i <= BlockSize
    <3> SUFFICES ASSUME NEW i \in A PROVE i <= BlockSize
      OBVIOUS
    <3>1. i + c \in Part(Room, b)
      BY <1>3 DEF Meant
    <3>2. i + c \in 1 .. Top /\ BlockOf(i + c) = b
      BY <1>3, <3>1 DEF Part, Room
    <3>3. i + c <= b * BlockSize
      BY <3>2, BlockOfId
    <3> HIDE DEF c
    <3> QED BY <1>1, <2>2, <3>3
  <2>4. Meant(A, b) = {i + c : i \in A}
    BY <1>3 DEF Meant
  <2>5. Offset(A, b) = IF b > 1 THEN {i + c : i \in A} ELSE A
    BY <1>1, <2>1, <2>3 DEF Offset
  <2> HIDE DEF c
  <2>6. ASSUME b = 1 PROVE {i + c : i \in A} = A
    <3>1. \A i \in A : i + c = i
      BY <1>1, <2>2, <2>6
    <3> QED BY <3>1
  <2> QED BY <2>4, <2>5, <2>6
<1>4. CASE ~panel.relative
  <2>1. Meant(A, b) = A
    BY <1>4 DEF Meant
  <2>2. CASE b > 1 /\ inv.top # 0 /\ \A i \in A : i <= GuessedSize
    <3>0. (b - 1) * BlockSize \in Nat /\ (b - 1) * BlockSize >= BlockSize
      <4>1. b - 2 \in Nat
        BY <1>1, <2>2
      <4>2. (b - 2) * BlockSize \in Nat
        BY <1>1, <4>1
      <4>3. (b - 1) * BlockSize = (b - 2) * BlockSize + BlockSize
        BY <1>1, <4>1
      <4> QED BY <1>1, <4>2, <4>3
    <3>1. GuessedSize <= BlockSize
      <4>1. GuessedSize = (Top + Blocks - 1) \div Blocks
        BY <1>1, <2>2 DEF GuessedSize
      <4> QED BY <1>1, <1>2, <4>1, SMTT(30)
    <3>2. GuessedSize \in Nat
      BY <1>1 DEF GuessedSize
    <3>3. \A i \in A : i > BlockSize
      <4> SUFFICES ASSUME NEW i \in A PROVE i > BlockSize
        OBVIOUS
      <4>1. i \in Ids /\ BlockOf(i) = b
        BY <1>4, <2>1 DEF Part, Room
      <4>2. CASE i <= Top
        <5>1. (b - 1) * BlockSize < i
          BY <1>1, <4>1, <4>2, BlockOfId DEF Ids
        <5> QED BY <1>1, <3>0, <5>1
      <4>3. CASE i > Top
        <5>1. Blocks = b
          BY <4>1, <4>3 DEF BlockOf
        <5> QED BY <1>1, <1>2, <3>0, <4>1, <4>3, <5>1
      <4> QED BY <1>1, <4>2, <4>3
    <3>4. A = {}
      BY <1>1, <2>2, <3>1, <3>2, <3>3
    <3> QED BY <2>1, <3>4 DEF Offset
  <2>3. CASE ~(b > 1 /\ inv.top # 0 /\ \A i \in A : i <= GuessedSize)
    BY <2>1, <2>3 DEF Offset
  <2> QED BY <2>2, <2>3
<1> QED BY <1>3, <1>4

\* What the blocks of a list mean together.
AllMeant(got) == UNION {Meant(got[b], b) : b \in DOMAIN got}

LEMMA AllIsWhole ==
  ASSUME NEW r, NEW got, DOMAIN got = 1 .. Blocks, r.ever \subseteq Ids, r.always \subseteq Ids,
         \A b \in 1 .. Blocks : BlockIsWhole(got[b], b, r)
  PROVE  r.always \subseteq AllMeant(got) /\ AllMeant(got) \subseteq r.ever
<1>1. ASSUME NEW i \in r.always PROVE i \in AllMeant(got)
  <2> DEFINE b == BlockOf(i)
  <2>1. b \in 1 .. Blocks
    BY <1>1, BlockInRange
  <2>2. i \in Part(r.always, b)
    BY <1>1 DEF Part
  <2> HIDE DEF b
  <2>3. i \in Meant(got[b], b)
    BY <2>1, <2>2 DEF BlockIsWhole
  <2> QED BY <2>1, <2>3 DEF AllMeant
<1>2. ASSUME NEW i \in AllMeant(got) PROVE i \in r.ever
  <2>1. PICK b \in 1 .. Blocks : i \in Meant(got[b], b)
    BY <1>2 DEF AllMeant
  <2> QED BY <2>1 DEF BlockIsWhole, Part
<1> QED BY <1>1, <1>2

\* What is put together is what the blocks mean: by the dispatcher, and by the client
\* for the domains whose list it takes from there.
LEMMA MergeMeans ==
  ASSUME TypeOK, PanelFits, NEW r, NEW got \in Seq(IdSets), Len(got) = Blocks,
         r.ever \subseteq Room, \A b \in 1 .. Blocks : BlockIsWhole(got[b], b, r)
  PROVE  /\ d \in Assembled /\ Placed => Merge(got) = AllMeant(got)
         /\ d \notin ToldOnce => ClientMerge(got) = AllMeant(got)
<1>1. DOMAIN got = 1 .. Blocks /\ \A b \in 1 .. Blocks : got[b] \in IdSets
  BY LenProperties, ElementOfSeq
<1>2. CASE d = "area"
  <2>1. ASSUME Placed PROVE AreaMerge(got) = AllMeant(got)
    <3>1. \A b \in 1 .. Blocks : Offset(got[b], b) = Meant(got[b], b)
      <4> SUFFICES ASSUME NEW b \in 1 .. Blocks PROVE Offset(got[b], b) = Meant(got[b], b)
        OBVIOUS
      <4>1. Meant(got[b], b) \subseteq Part(Room, b)
        BY DEF BlockIsWhole, Part
      <4> QED BY <1>1, <2>1, <4>1, OffsetMeans
    <3> QED BY <1>1, <3>1 DEF AreaMerge, AllMeant
  <2> QED BY <1>2, <2>1 DEF Merge, ToldOnce
<1>3. CASE d # "area"
  <2>1. ~panel.relative
    BY <1>3 DEF PanelFits, TypeOK, PanelTyped
  <2>2. Joined(got) = AllMeant(got)
    BY <2>1 DEF Joined, AllMeant, Meant, Range
  <2> QED BY <1>3, <2>2 DEF Merge, ClientMerge, ZoneMerge, OutputMerge, LightMerge, LockMerge,
          BarrierMerge, TstatMerge
<1> QED BY <1>2, <1>3

-----------------------------------------------------------------------------
(* Sequences with at most one element of a kind.                           *)

LEMMA SeqWider ==
  ASSUME NEW S, NEW T, S \subseteq T, NEW s \in Seq(S)
  PROVE  s \in Seq(T)
<1>1. s \in [1 .. Len(s) -> S] /\ Len(s) \in Nat
  BY LenProperties
<1>2. s \in [1 .. Len(s) -> T]
  BY <1>1
<1> QED BY <1>1, <1>2, SeqDef

LEMMA FreeAppended ==
  ASSUME NEW X, NEW s \in Seq(X), NEW x \in X, NEW M
  PROVE  /\ Free(s, M) /\ x \notin M => Free(Append(s, x), M)
         /\ AtMostOne(s, M) /\ x \notin M => AtMostOne(Append(s, x), M)
         /\ Free(s, M) => AtMostOne(Append(s, x), M)
  BY DEF Free, AtMostOne

LEMMA FreeConcat ==
  ASSUME NEW X, NEW s \in Seq(X), NEW t \in Seq(X), NEW M
  PROVE  /\ Free(s, M) /\ Free(t, M) => Free(s \o t, M)
         /\ AtMostOne(s, M) /\ Free(t, M) => AtMostOne(s \o t, M)
         /\ Free(s, M) /\ AtMostOne(t, M) => AtMostOne(s \o t, M)
<1>1. /\ Len(s) \in Nat /\ Len(t) \in Nat /\ Len(s \o t) = Len(s) + Len(t)
      /\ \A k \in 1 .. Len(s \o t) :
            (s \o t)[k] = IF k <= Len(s) THEN s[k] ELSE t[k - Len(s)]
  BY LenProperties, ConcatProperties
<1>2. \A k \in 1 .. Len(s \o t) : IF k <= Len(s) THEN k \in 1 .. Len(s) ELSE k - Len(s) \in 1 .. Len(t)
  BY <1>1
<1>3. ASSUME Free(s, M), Free(t, M) PROVE Free(s \o t, M)
  BY <1>1, <1>2, <1>3 DEF Free
<1>4. ASSUME AtMostOne(s, M), Free(t, M) PROVE AtMostOne(s \o t, M)
  BY <1>1, <1>2, <1>4 DEF Free, AtMostOne
<1>5. ASSUME Free(s, M), AtMostOne(t, M) PROVE AtMostOne(s \o t, M)
  <2> SUFFICES ASSUME NEW j \in 1 .. Len(s \o t), NEW k \in 1 .. Len(s \o t),
                      (s \o t)[j] \in M, (s \o t)[k] \in M
               PROVE  j = k
    BY DEF AtMostOne
  <2>1. /\ j - Len(s) \in 1 .. Len(t) /\ t[j - Len(s)] \in M
        /\ k - Len(s) \in 1 .. Len(t) /\ t[k - Len(s)] \in M
    BY <1>1, <1>2, <1>5 DEF Free
  <2>2. j - Len(s) = k - Len(s)
    BY <1>5, <2>1 DEF AtMostOne
  <2> QED BY <1>1, <2>2
<1> QED BY <1>3, <1>4, <1>5

LEMMA FreeTail ==
  ASSUME NEW X, NEW s \in Seq(X), s # <<>>, NEW M
  PROVE  /\ Free(s, M) => Free(Tail(s), M) /\ Head(s) \notin M
         /\ AtMostOne(s, M) => AtMostOne(Tail(s), M)
         /\ AtMostOne(s, M) /\ Head(s) \in M => Free(Tail(s), M)
<1>1. /\ Len(s) \in Nat \ {0} /\ Head(s) = s[1] /\ Len(Tail(s)) = Len(s) - 1
      /\ \A k \in 1 .. Len(Tail(s)) : k + 1 \in 1 .. Len(s) /\ k + 1 # 1 /\ Tail(s)[k] = s[k + 1]
  OBVIOUS
<1>2. Free(s, M) => Free(Tail(s), M) /\ Head(s) \notin M
  BY <1>1 DEF Free
<1>3. AtMostOne(s, M) /\ Head(s) \in M => Free(Tail(s), M)
  BY <1>1 DEF Free, AtMostOne
<1>4. ASSUME AtMostOne(s, M) PROVE AtMostOne(Tail(s), M)
  <2> SUFFICES ASSUME NEW j \in 1 .. Len(Tail(s)), NEW k \in 1 .. Len(Tail(s)),
                      Tail(s)[j] \in M, Tail(s)[k] \in M
               PROVE  j = k
    BY DEF AtMostOne
  <2>1. j + 1 = k + 1
    BY <1>1, <1>4 DEF AtMostOne
  <2> QED BY <1>1, <2>1
<1> QED BY <1>2, <1>3, <1>4

-----------------------------------------------------------------------------
(* What is good stays good.                                                *)

LEMMA GoodStays ==
  ASSUME UNCHANGED panel, d \notin Assembled => inv.list \subseteq inv'.list
  PROVE  GoodRequests \subseteq GoodRequests' /\ GoodPosts \subseteq GoodPosts'
<1>1. ASSUME NEW r, BeingRead(r) PROVE BeingRead(r)'
  <2>1. Heard(r) => Heard(r)'
    BY DEF Heard, Room
  <2>2. BlocksRead(r) => BlocksRead(r)'
    BY DEF BlocksRead, BlockIsWhole, Meant, Part
  <2>3. AddedSoFar(r) => AddedSoFar(r)'
    BY DEF AddedSoFar, d
  <2> QED BY <1>1, <2>1, <2>2, <2>3 DEF BeingRead
<1>2. GoodRequests \subseteq GoodRequests'
  BY <1>1 DEF GoodRequests
<1>3. ASSUME NEW ids, NEW b, NEW r, BlockIsWhole(ids, b, r) PROVE BlockIsWhole(ids, b, r)'
  BY <1>3 DEF BlockIsWhole, Meant, Part
<1>4. GoodPosts \subseteq GoodPosts'
  BY <1>1, <1>2, <1>3 DEF GoodPosts
<1> QED BY <1>2, <1>4

LEMMA RequestIsGood ==
  ASSUME TypeOK, PanelFits
  PROVE  /\ List(TRUE) \in GoodRequests /\ List(FALSE) \in GoodRequests
         /\ Table \in GoodRequests
         /\ \A i \in Nat \ {0} : Attribs(i) \in GoodRequests
         /\ Table \notin MineRequests /\ List(FALSE) \notin MineRequests
         /\ \A i \in Nat \ {0} : Attribs(i) \notin MineRequests
<1>1. \A mine \in BOOLEAN : BeingRead(List(mine)) /\ List(mine).block <= Blocks
  <2> SUFFICES ASSUME NEW mine \in BOOLEAN PROVE BeingRead(List(mine)) /\ List(mine).block <= Blocks
    OBVIOUS
  <2> DEFINE r == List(mine)
  <2>1. /\ r.always = panel.ids /\ r.ever = panel.ids /\ r.mine = mine /\ r.block = 1
        /\ r.got = <<>> /\ r.kind = "list"
    BY DEF List, Request
  <2> HIDE DEF r
  <2>2. Heard(r)
    BY <2>1 DEF Heard, Room, TypeOK, PanelTyped, PanelFits
  <2>3. BlocksRead(r)
    BY <2>1, BlocksOfTable DEF BlocksRead
  <2>4. AddedSoFar(r)
    <3>1. \A i \in panel.ids : ~(BlockOf(i) < 1)
      BY BlockInRange, BlocksOfTable DEF TypeOK, PanelTyped
    <3> QED BY <2>1, <3>1 DEF AddedSoFar
  <2>5. r.block <= Blocks
    BY <2>1, BlocksOfTable
  <2> QED BY <2>2, <2>3, <2>4, <2>5 DEF BeingRead, r
<1>2. List(TRUE) \in GoodRequests /\ List(FALSE) \in GoodRequests
  BY <1>1, RequestTyped DEF GoodRequests
<1>3. Table \in GoodRequests /\ Table \notin MineRequests
  BY RequestTyped DEF GoodRequests, BeingRead, Table, Request, MineRequests
<1>4. \A i \in Nat \ {0} : Attribs(i) \in GoodRequests /\ Attribs(i) \notin MineRequests
  BY RequestTyped DEF GoodRequests, BeingRead, Attribs, Request, MineRequests
<1>5. List(FALSE) \notin MineRequests
  BY DEF List, Request, MineRequests
<1> QED BY <1>2, <1>3, <1>4, <1>5

LEMMA AttribsOfIsGood ==
  ASSUME TypeOK, PanelFits, NEW ids \in IdSets, NEW s \in Sorted(ids)
  PROVE  AttribsOf(s) \in Seq(GoodRequests) /\ Free(AttribsOf(s), MineRequests)
<1>1. Cardinality(ids) \in Nat
  BY FS_CardinalityType DEF IdSets
<1>2. s \in [1 .. Cardinality(ids) -> ids]
  BY DEF Sorted
<1>3. Len(s) \in Nat /\ \A k \in 1 .. Len(s) : s[k] \in Nat \ {0}
  <2>1. s \in Seq(ids)
    BY <1>1, <1>2, SeqDef
  <2> QED BY <2>1, LenProperties, ElementOfSeq DEF IdSets
<1>4. \A k \in 1 .. Len(s) : Attribs(s[k]) \in GoodRequests /\ Attribs(s[k]) \notin MineRequests
  BY <1>3, RequestIsGood
<1>5. /\ AttribsOf(s) \in Seq(GoodRequests) /\ Len(AttribsOf(s)) = Len(s)
      /\ \A k \in 1 .. Len(s) : AttribsOf(s)[k] = Attribs(s[k])
  <2>1. AttribsOf(s) \in [1 .. Len(s) -> GoodRequests]
    BY <1>4 DEF AttribsOf
  <2> QED BY <1>3, <2>1, FunctionIsSeq DEF AttribsOf
<1> QED BY <1>4, <1>5 DEF Free

LEMMA BootstrapIsGood ==
  ASSUME TypeOK, PanelFits
  PROVE  Bootstrap \in Seq(GoodRequests) /\ Free(Bootstrap, MineRequests)
<1>1. /\ <<>> \in Seq(GoodRequests) /\ Free(<<>>, MineRequests)
      /\ \A r \in GoodRequests : <<r>> \in Seq(GoodRequests)
      /\ \A r : r \notin MineRequests => Free(<<r>>, MineRequests)
  BY DEF Free
<1>2. Bootstrap = (IF d \in Assembled THEN <<Table>> ELSE <<>>)
                  \o (IF d = "keypad" THEN <<>> ELSE <<List(FALSE)>>)
  BY DEF Bootstrap
<1> DEFINE a == IF d \in Assembled THEN <<Table>> ELSE <<>>
           b == IF d = "keypad" THEN <<>> ELSE <<List(FALSE)>>
<1>3. a \in Seq(GoodRequests) /\ Free(a, MineRequests)
  BY <1>1, RequestIsGood
<1>4. b \in Seq(GoodRequests) /\ Free(b, MineRequests)
  BY <1>1, RequestIsGood
<1> HIDE DEF a, b
<1> QED BY <1>2, <1>3, <1>4, FreeConcat, ConcatProperties DEF a, b

\* An edit of the panel, seen by every list that is being read.
LEMMA EditsWhole ==
  ASSUME TypeOK, WholeInv, PanelEdits
  PROVE  WholeInv'
<1>1. PICK ids \in SUBSET Ids :
        /\ panel' = [panel EXCEPT !.ids = ids]
        /\ (panel.ids \subseteq 1 .. Top => ids \subseteq 1 .. Top)
        /\ Len(requests') = Len(requests) /\ requests' \in Seq(Requests)
        /\ \A k \in 1 .. Len(requests) : requests'[k] = See(requests[k], ids)
        /\ Len(posts') = Len(posts) /\ posts' \in Seq(Posts)
        /\ \A k \in 1 .. Len(posts) :
             IF posts[k].kind = "ready" THEN posts'[k] = posts[k]
             ELSE posts'[k] = [posts[k] EXCEPT !.request = See(@, ids)]
  BY EditCases
<1>2. UNCHANGED <<inv, basis, call>>
  BY DEF PanelEdits
<1>3. /\ d' = d /\ panel'.relative = panel.relative /\ panel'.ids = ids
      /\ panel.relative \in BOOLEAN
  BY <1>1 DEF d, TypeOK, PanelTyped
<1>4. PanelFits' /\ Room' = Room /\ ids \subseteq Room
  BY <1>1, <1>3 DEF WholeInv, PanelFits, Room
<1>5. Accounted' /\ ListIsWhole'
  BY <1>2, <1>3 DEF WholeInv, Accounted, ListIsWhole, Unpruned
<1>6. ASSUME NEW r \in Requests
      PROVE  LET s == See(r, ids)
             IN /\ s \in Requests /\ s.kind = r.kind /\ s.block = r.block /\ s.mine = r.mine /\ s.got = r.got
                /\ s.ever = r.ever \cup ids /\ s.always = r.always \cap ids
                /\ s \in MineRequests <=> r \in MineRequests
  <2>1. ids \subseteq Nat
    BY DEF Ids
  <2> QED BY <2>1 DEF See, Requests, MineRequests
<1>7. ASSUME NEW A, NEW b, NEW r \in Requests, BlockIsWhole(A, b, r)
      PROVE  BlockIsWhole(A, b, See(r, ids))'
  BY <1>3, <1>6, <1>7 DEF BlockIsWhole, Meant, Part
<1>8. ASSUME NEW r \in Requests, BeingRead(r) PROVE BeingRead(See(r, ids))'
  <2>1. Heard(r) => Heard(See(r, ids))'
    BY <1>3, <1>4, <1>6 DEF Heard
  <2>2. BlocksRead(r) => BlocksRead(See(r, ids))'
    BY <1>6, <1>7 DEF BlocksRead
  <2>3. AddedSoFar(r) => AddedSoFar(See(r, ids))'
    BY <1>2, <1>3, <1>6 DEF AddedSoFar
  <2> QED BY <1>6, <1>8, <2>1, <2>2, <2>3 DEF BeingRead
<1>9. \A r \in GoodRequests : See(r, ids) \in GoodRequests'
  BY <1>6, <1>8 DEF GoodRequests
<1>10. ASSUME NEW p \in GoodPosts
       PROVE  IF p.kind = "ready" THEN p \in GoodPosts' /\ p \notin MinePosts
              ELSE LET q == [p EXCEPT !.request = See(@, ids)]
                   IN q \in GoodPosts' /\ (q \in MinePosts <=> p \in MinePosts)
  <2>1. CASE p.kind = "ready"
    BY <2>1 DEF GoodPosts, MinePosts
  <2>2. CASE p.kind # "ready"
    <3> DEFINE q == [p EXCEPT !.request = See(@, ids)]
    <3>1. p \in Posts /\ p.request \in Requests
      BY <2>2 DEF GoodPosts, Posts
    <3>2. /\ q.request = See(p.request, ids) /\ q.kind = p.kind /\ q.err = p.err
          /\ p.kind = "message" => q.ids = p.ids
      BY <2>2, <3>1 DEF Posts
    <3>3. q \in Posts
      BY <1>6, <2>2, <3>1 DEF Posts
    <3> HIDE DEF q
    <3>4. q \in MinePosts <=> p \in MinePosts
      BY <1>6, <3>1, <3>2, <3>3 DEF MinePosts
    <3>5. q \in GoodPosts'
      <4>1. CASE p.kind = "message"
        <5>1. q.request \in GoodRequests'
          BY <1>9, <3>2, <4>1 DEF GoodPosts
        <5>2. q.request.kind = "list" /\ q.err = "none" =>
                 BlockIsWhole(q.ids, q.request.block, q.request)'
          <6> SUFFICES ASSUME p.request.kind = "list", p.err = "none"
                       PROVE  BlockIsWhole(p.ids, p.request.block, See(p.request, ids))'
            BY <1>6, <3>1, <3>2, <4>1
          <6>1. BlockIsWhole(p.ids, p.request.block, p.request)
            BY <4>1 DEF GoodPosts
          <6> QED BY <1>7, <3>1, <6>1
        <5> QED BY <3>2, <3>3, <4>1, <5>1, <5>2 DEF GoodPosts
      <4>2. CASE p.kind = "resume"
        <5>1. BeingRead(q.request)'
          BY <1>8, <3>1, <3>2, <4>2 DEF GoodPosts
        <5> QED BY <1>6, <3>1, <3>2, <3>3, <4>2, <5>1 DEF GoodPosts
      <4> QED BY <2>2, <3>1, <4>1, <4>2 DEF Posts
    <3> QED BY <2>2, <3>4, <3>5 DEF q
  <2> QED BY <2>1, <2>2
<1>11. /\ requests \in Seq(GoodRequests) /\ posts \in Seq(GoodPosts)
       /\ \A k \in 1 .. Len(requests) : requests[k] \in GoodRequests
       /\ \A k \in 1 .. Len(posts) : posts[k] \in GoodPosts
       /\ Len(requests) \in Nat /\ Len(posts) \in Nat
  BY ElementOfSeq, LenProperties DEF WholeInv, Good
<1>12. /\ \A k \in 1 .. Len(requests) :
             requests'[k] \in GoodRequests' /\ (requests'[k] \in MineRequests <=> requests[k] \in MineRequests)
       /\ \A k \in 1 .. Len(posts) :
             posts'[k] \in GoodPosts' /\ (posts'[k] \in MinePosts <=> posts[k] \in MinePosts)
  <2>1. \A r \in GoodRequests : r \in Requests
    BY DEF GoodRequests
  <2>2. ASSUME NEW k \in 1 .. Len(requests)
        PROVE  requests'[k] \in GoodRequests' /\ (requests'[k] \in MineRequests <=> requests[k] \in MineRequests)
    <3>1. requests[k] \in GoodRequests /\ requests[k] \in Requests
      BY <1>11, <2>1
    <3>2. requests'[k] = See(requests[k], ids)
      BY <1>1
    <3> QED BY <1>6, <1>9, <3>1, <3>2
  <2>3. ASSUME NEW k \in 1 .. Len(posts)
        PROVE  posts'[k] \in GoodPosts' /\ (posts'[k] \in MinePosts <=> posts[k] \in MinePosts)
    <3>1. posts[k] \in GoodPosts
      BY <1>11
    <3> DEFINE p == posts[k]
    <3>2. IF p.kind = "ready" THEN posts'[k] = p
          ELSE posts'[k] = [p EXCEPT !.request = See(@, ids)]
      BY <1>1
    <3> HIDE DEF p
    <3>3. p \in GoodPosts
      BY <3>1 DEF p
    <3>4. posts'[k] \in GoodPosts' /\ (posts'[k] \in MinePosts <=> p \in MinePosts)
      BY <1>10, <3>2, <3>3
    <3> QED BY <3>4 DEF p
  <2> QED BY <2>2, <2>3
<1>13. Good'
  <2>1. /\ requests' \in [1 .. Len(requests) -> GoodRequests']
        /\ posts' \in [1 .. Len(posts) -> GoodPosts']
    BY <1>1, <1>11, <1>12, LenProperties
  <2> QED BY <1>11, <2>1, FunctionIsSeq DEF Good
<1>14. OneCall'
  BY <1>1, <1>2, <1>12 DEF WholeInv, OneCall, AtMostOne, Free, MinePosts, MineRequests
<1> QED BY <1>4, <1>5, <1>13, <1>14 DEF WholeInv

\* A handler that is given a whole list, or a whole block of one.
LEMMA HandleKeeps ==
  ASSUME TypeOK, WholeInv, NEW r \in GoodRequests, r.kind = "list", NEW ids \in IdSets, NEW after,
         Handle(r, ids, after), panel' = panel,
         \/ d \in Assembled /\ ~r.mine /\ (Placed => r.always \subseteq ids /\ ids \subseteq r.ever)
         \/ (d \notin Assembled \/ r.mine) /\ BlockIsWhole(ids, r.block, r)
  PROVE  /\ Accounted' /\ ListIsWhole'
         /\ d \notin Assembled => inv.list \subseteq inv'.list /\ ids \subseteq inv'.list
<1> DEFINE last == r.block = Blocks
           h == GetConfigured(ids, last)
<1>1. /\ d' = d /\ inv' = h.inv /\ basis' = ListBasis(r, last)
      /\ inv \in InvSet /\ r \in Requests /\ basis \in BasisSet /\ d \in Domain
      /\ Top \in Nat \ {0} /\ Unknown \notin Int /\ Blocks \in Nat \ {0}
  BY InventoryBounds, BlocksOfTable DEF Handle, d, TypeOK, GoodRequests, PanelTyped
<1>2. /\ last \in BOOLEAN
      /\ d \in Assembled => h.inv = [inv EXCEPT !.list = InTable(ids), !.complete = TRUE]
      /\ d \notin Assembled => h.inv = [inv EXCEPT !.list = @ \cup ids, !.complete = @ \/ last]
  BY GetConfiguredCases
<1> HIDE DEF h
<1>3. Heard(r) /\ r.block <= Blocks /\ r.block \in Nat \ {0} /\ BlocksRead(r) /\ AddedSoFar(r)
  BY <1>1 DEF GoodRequests, BeingRead, Requests
<1>4. r.ever \subseteq Ids /\ r.always \subseteq Ids
  BY <1>1, <1>3 DEF Heard, Room, Ids
<1>5. CASE d \in Assembled
  <2>1. /\ inv'.list = InTable(ids) /\ inv'.limit = inv.limit
        /\ basis' = [ever |-> r.ever, always |-> r.always, whole |-> Placed /\ (~r.mine \/ Blocks = 1)]
    BY <1>1, <1>2, <1>5 DEF InvSet, ListBasis
  <2>2. ASSUME basis'.whole PROVE r.always \subseteq ids /\ ids \subseteq r.ever
    <3>1. CASE ~r.mine
      BY <1>5, <2>1, <2>2, <3>1
    <3>2. CASE r.mine
      <4>0. Blocks = 1
        BY <2>1, <2>2, <3>2
      <4>1. r.block = 1 /\ Blocks = 1 /\ BlockIsWhole(ids, 1, r)
        <5>1. r.block = 1
          BY <1>3, <4>0
        <5>2. BlockIsWhole(ids, r.block, r)
          BY <1>5, <3>2
        <5> QED BY <4>0, <5>1, <5>2
      <4>2. Meant(ids, 1) = ids
        <5>1. \A i \in ids : i + (1 - 1) * BlockSize = i
          BY InventoryBounds DEF IdSets
        <5> QED BY <5>1 DEF Meant
      <4>3. Part(r.always, 1) = r.always
        BY <1>4, <4>1, BlockInRange DEF Part
      <4> QED BY <4>1, <4>2, <4>3 DEF BlockIsWhole, Part
    <3> QED BY <3>1, <3>2
  <2>3. ListIsWhole'
    <3> SUFFICES ASSUME basis'.whole
                 PROVE  /\ \A i \in basis'.always : i <= Top => i \in inv'.list
                        /\ inv'.list \subseteq basis'.ever
      BY DEF ListIsWhole, Unpruned
    <3>1. r.always \subseteq ids /\ ids \subseteq r.ever
      BY <2>2
    <3>2. inv'.list \subseteq ids /\ \A i \in ids : i <= Top => i \in inv'.list
      BY <1>1, <2>1 DEF InTable, InvSet
    <3> QED BY <2>1, <3>1, <3>2
  <2> QED BY <1>1, <1>5, <2>3 DEF Accounted
<1>6. CASE d \notin Assembled
  <2>1. /\ inv'.list = inv.list \cup ids /\ inv'.limit = inv.limit
        /\ inv'.complete = (inv.complete \/ last)
        /\ basis' = [ever |-> basis.ever \cup r.ever,
                     always |-> IF last THEN r.always ELSE basis.always, whole |-> TRUE]
    BY <1>1, <1>2, <1>6 DEF InvSet, ListBasis
  <2>2. Meant(ids, r.block) = ids
    <3>1. ~panel.relative
      BY <1>6 DEF WholeInv, PanelFits, Assembled, Domain
    <3> QED BY <3>1 DEF Meant
  <2>3. ids \subseteq r.ever /\ Part(r.always, r.block) \subseteq ids
    BY <1>6, <2>2 DEF BlockIsWhole, Part
  <2>4. inv.list \subseteq basis.ever /\ basis.whole
    BY <1>6 DEF WholeInv, Accounted
  <2>5. Accounted'
    BY <1>1, <2>1, <2>3, <2>4 DEF Accounted
  <2>6. ListIsWhole'
    <3> SUFFICES ASSUME inv'.complete
                 PROVE  /\ \A i \in basis'.always :
                              i <= Top /\ (inv'.limit # Unknown => i <= inv'.limit) => i \in inv'.list
                        /\ inv'.list \subseteq basis'.ever
      BY DEF ListIsWhole, Unpruned
    <3>1. inv'.list \subseteq basis'.ever
      BY <2>1, <2>3, <2>4
    <3>2. CASE last
      <4>1. \A i \in r.always : i \in inv'.list
        <5> SUFFICES ASSUME NEW i \in r.always PROVE i \in inv'.list
          OBVIOUS
        <5>1. BlockOf(i) \in 1 .. Blocks
          BY <1>4, BlockInRange
        <5>2. CASE BlockOf(i) = r.block
          BY <2>1, <2>3, <5>2 DEF Part
        <5>3. CASE BlockOf(i) < r.block
          BY <1>3, <1>6, <2>1, <5>3 DEF AddedSoFar
        <5> QED BY <1>1, <3>2, <5>1, <5>2, <5>3
      <4>2. basis'.always = r.always
        BY <2>1, <3>2
      <4> QED BY <3>1, <4>1, <4>2
    <3>3. CASE ~last
      <4>1. Unpruned(basis.always) \subseteq inv.list
        BY <2>1, <2>4, <3>3 DEF WholeInv, ListIsWhole
      <4>2. basis'.always = basis.always /\ inv.list \subseteq inv'.list
        BY <2>1, <3>3
      <4> QED BY <2>1, <3>1, <4>1, <4>2 DEF Unpruned
    <3> QED BY <3>2, <3>3
  <2> QED BY <2>1, <2>5, <2>6
<1> QED BY <1>5, <1>6

LEMMA HeadIsGood ==
  ASSUME WholeInv, posts # <<>>
  PROVE  /\ posts \in Seq(GoodPosts) /\ Head(posts) \in GoodPosts /\ Tail(posts) \in Seq(GoodPosts)
         /\ Head(posts) \in Posts
<1>1. posts \in Seq(GoodPosts)
  BY DEF WholeInv, Good
<1>2. Head(posts) \in GoodPosts /\ Tail(posts) \in Seq(GoodPosts)
  BY <1>1
<1> QED BY <1>1, <1>2 DEF GoodPosts

\* The queue of requests as it grows without the application's call.
LEMMA MoreRequests ==
  ASSUME WholeInv, GoodRequests \subseteq GoodRequests',
         \/ requests' = requests
         \/ \E x \in GoodRequests' : requests' = Append(requests, x) /\ x \notin MineRequests
         \/ \E t \in Seq(GoodRequests') : requests' = requests \o t /\ Free(t, MineRequests)
  PROVE  /\ requests' \in Seq(GoodRequests')
         /\ AtMostOne(requests, MineRequests) => AtMostOne(requests', MineRequests)
         /\ Free(requests, MineRequests) => Free(requests', MineRequests)
<1>1. requests \in Seq(GoodRequests')
  BY SeqWider DEF WholeInv, Good
<1>2. CASE requests' = requests
  BY <1>1, <1>2
<1>3. ASSUME NEW x \in GoodRequests', requests' = Append(requests, x), x \notin MineRequests
      PROVE  /\ requests' \in Seq(GoodRequests')
             /\ AtMostOne(requests, MineRequests) => AtMostOne(requests', MineRequests)
             /\ Free(requests, MineRequests) => Free(requests', MineRequests)
  <2>1. Append(requests, x) \in Seq(GoodRequests')
    BY <1>1, AppendProperties
  <2> QED BY <1>1, <1>3, <2>1, FreeAppended
<1>4. ASSUME NEW t \in Seq(GoodRequests'), requests' = requests \o t, Free(t, MineRequests)
      PROVE  /\ requests' \in Seq(GoodRequests')
             /\ AtMostOne(requests, MineRequests) => AtMostOne(requests', MineRequests)
             /\ Free(requests, MineRequests) => Free(requests', MineRequests)
  <2>1. requests \o t \in Seq(GoodRequests')
    BY <1>1, ConcatProperties
  <2> QED BY <1>1, <1>4, <2>1, FreeConcat
<1> QED BY <1>2, <1>3, <1>4

\* A callback that is carried out, and what it leaves behind: at most the next one of
\* the application's call, if it was one itself.
LEMMA EmittedWhole ==
  ASSUME WholeInv, posts # <<>>, UNCHANGED <<panel, call>>,
         d \notin Assembled => inv.list \subseteq inv'.list,
         NEW e \in Seq(GoodPosts'), Emit(e), Accounted', ListIsWhole',
         \/ requests' = requests
         \/ \E x \in GoodRequests' : requests' = Append(requests, x) /\ x \notin MineRequests
         \/ \E t \in Seq(GoodRequests') : requests' = requests \o t /\ Free(t, MineRequests),
         \/ Free(e, MinePosts)
         \/ AtMostOne(e, MinePosts) /\ Head(posts) \in MinePosts /\ requests' = requests
  PROVE  WholeInv'
<1>1. GoodRequests \subseteq GoodRequests' /\ GoodPosts \subseteq GoodPosts'
  BY GoodStays
<1>2. /\ posts \in Seq(GoodPosts) /\ Tail(posts) \in Seq(GoodPosts)
      /\ posts' = Tail(posts) \o e
  BY HeadIsGood DEF WholeInv, Good, Emit
<1>3. Tail(posts) \in Seq(GoodPosts')
  BY <1>1, <1>2, SeqWider
<1>4. /\ requests' \in Seq(GoodRequests')
      /\ AtMostOne(requests, MineRequests) => AtMostOne(requests', MineRequests)
      /\ Free(requests, MineRequests) => Free(requests', MineRequests)
  BY <1>1, MoreRequests
<1>5. Good'
  <2>1. posts' \in Seq(GoodPosts')
    BY <1>2, <1>3, ConcatProperties
  <2> QED BY <1>4, <2>1 DEF Good
<1>6. OneCall'
  <2> SUFFICES
        /\ AtMostOne(requests', MineRequests) /\ AtMostOne(posts', MinePosts)
        /\ Free(requests', MineRequests) \/ Free(posts', MinePosts)
        /\ ~call.busy => Free(requests', MineRequests) /\ Free(posts', MinePosts)
    BY DEF OneCall, MineRequests, MinePosts
  <2>1. OneCall
    BY DEF WholeInv
  <2>2. CASE Free(e, MinePosts)
    <3>1. /\ AtMostOne(posts, MinePosts) => AtMostOne(posts', MinePosts)
          /\ Free(posts, MinePosts) => Free(posts', MinePosts)
      BY <1>2, <1>3, <2>2, FreeTail, FreeConcat
    <3> QED BY <1>4, <2>1, <3>1 DEF OneCall
  <2>3. CASE AtMostOne(e, MinePosts) /\ Head(posts) \in MinePosts /\ requests' = requests
    <3>1. ~Free(posts, MinePosts)
      BY <1>2, <2>3, FreeTail
    <3>2. AtMostOne(posts', MinePosts)
      <4>1. Free(Tail(posts), MinePosts)
        BY <1>2, <2>1, <2>3, FreeTail DEF OneCall
      <4> QED BY <1>2, <1>3, <2>3, <4>1, FreeConcat
    <3> QED BY <2>1, <2>3, <3>1, <3>2 DEF OneCall
  <2> QED BY <2>2, <2>3
<1>7. PanelFits'
  BY DEF WholeInv, PanelFits, d
<1> QED BY <1>5, <1>6, <1>7 DEF WholeInv

LEMMA NextIsRead ==
  ASSUME TypeOK, PanelFits, NEW r \in GoodRequests, r.kind = "list", NEW ids \in IdSets,
         BlockIsWhole(ids, r.block, r), panel' = panel,
         d \notin Assembled => r.mine /\ inv.list \subseteq inv'.list /\ ids \subseteq inv'.list
  PROVE  BeingRead(NextBlock(r, ids))'
<1> DEFINE s == NextBlock(r, ids)
<1>1. r \in Requests /\ Heard(r) /\ BlocksRead(r) /\ AddedSoFar(r) /\ r.block <= Blocks
  BY DEF GoodRequests, BeingRead
<1>2. /\ s.kind = r.kind /\ s.ever = r.ever /\ s.always = r.always /\ s.mine = r.mine
      /\ s.block = r.block + 1 /\ s.got = Append(r.got, ids) /\ r.got \in Seq(IdSets)
      /\ r.block \in Nat
  BY <1>1 DEF NextBlock, Requests
<1> HIDE DEF s
<1>3. Heard(s)'
  BY <1>1, <1>2 DEF Heard, Room
<1>4. BlocksRead(s)'
  <2>1. ASSUME NEW A, NEW b, BlockIsWhole(A, b, r) PROVE BlockIsWhole(A, b, s)'
    BY <1>2, <2>1 DEF BlockIsWhole, Meant, Part
  <2>2. /\ Len(s.got) = Len(r.got) + 1 /\ Len(r.got) \in Nat
        /\ \A b \in 1 .. Len(s.got) : IF b = Len(r.got) + 1 THEN s.got[b] = ids ELSE s.got[b] = r.got[b]
    BY <1>2, AppendProperties, LenProperties
  <2>3. \A b \in 1 .. Len(s.got) : BlockIsWhole(s.got[b], b, s)'
    <3> SUFFICES ASSUME NEW b \in 1 .. Len(s.got) PROVE BlockIsWhole(s.got[b], b, s)'
      OBVIOUS
    <3>1. CASE b = Len(r.got) + 1
      <4>1. s.got[b] = ids /\ b = r.block
        BY <1>1, <2>2, <3>1 DEF BlocksRead
      <4> QED BY <2>1, <4>1
    <3>2. CASE b # Len(r.got) + 1
      <4>1. b \in 1 .. Len(r.got) /\ s.got[b] = r.got[b]
        BY <2>2, <3>2
      <4>2. BlockIsWhole(r.got[b], b, r)
        BY <1>1, <4>1 DEF BlocksRead
      <4> QED BY <2>1, <4>1, <4>2
    <3> QED BY <3>1, <3>2
  <2>4. s.block = Len(s.got) + 1 /\ s.block <= Blocks + 1
    BY <1>1, <1>2, <2>2, BlocksOfTable DEF BlocksRead
  <2> QED BY <2>3, <2>4 DEF BlocksRead
<1>5. AddedSoFar(s)'
  <2> SUFFICES ASSUME d \notin Assembled, NEW i \in r.always, BlockOf(i) < r.block + 1
               PROVE  i \in inv'.list
    BY <1>2 DEF AddedSoFar, d
  <2>1. i \in Ids /\ BlockOf(i) \in 1 .. Blocks
    <3>1. i \in Ids
      BY <1>1 DEF Heard, TypeOK, PanelTyped
    <3> QED BY <3>1, BlockInRange
  <2>2. CASE BlockOf(i) < r.block
    BY <1>1, <2>2 DEF AddedSoFar
  <2>3. CASE BlockOf(i) = r.block
    <3>1. ~panel.relative
      BY DEF PanelFits, Assembled, Domain
    <3>2. Meant(ids, r.block) = ids
      BY <3>1 DEF Meant
    <3> QED BY <2>3, <3>2 DEF BlockIsWhole, Part
  <2> QED BY <1>2, <2>1, <2>2, <2>3, BlocksOfTable
<1> QED BY <1>3, <1>4, <1>5 DEF BeingRead, s

LEMMA ListWhole ==
  ASSUME TypeOK, WholeInv, posts # <<>>, Head(posts).kind = "message",
         Head(posts).request.kind = "list", OnList, UNCHANGED <<panel, call>>
  PROVE  WholeInv'
<1>0. PICK m : m = Head(posts)
  OBVIOUS
<1> DEFINE r == m.request
           partial == ~r.mine /\ d \in Assembled
<1>1. /\ m \in GoodPosts /\ m \in Posts /\ m.kind = "message" /\ r.kind = "list"
      /\ OnBlock(m)
  BY <1>0, HeadIsGood DEF OnList
<1>2. /\ r \in GoodRequests /\ r \in Requests /\ m.ids \in IdSets /\ m.err \in Errors
      /\ m.err = "none" => BlockIsWhole(m.ids, r.block, r)
      /\ r.mine <=> m \in MinePosts
      /\ r.mine \in BOOLEAN
  BY <1>0, <1>1, HeadPost DEF GoodPosts, GoodRequests, MinePosts, MineRequests, Requests
<1>3. /\ Heard(r) /\ BlocksRead(r) /\ AddedSoFar(r) /\ r.block <= Blocks /\ r.block \in Nat
      /\ BeingRead(r) /\ r.got \in Seq(IdSets)
  BY <1>1, <1>2 DEF GoodRequests, BeingRead, Requests
<1>4. PanelFits /\ Accounted /\ ListIsWhole /\ d' = d
  BY DEF WholeInv, d
<1>5. ASSUME UNCHANGED <<inv, basis>> PROVE Accounted' /\ ListIsWhole'
  BY <1>4, <1>5 DEF Accounted, ListIsWhole, Unpruned
<1>6. /\ <<>> \in Seq(GoodPosts') /\ Free(<<>>, MinePosts)
      /\ \A p \in GoodPosts' : <<p>> \in Seq(GoodPosts') /\ AtMostOne(<<p>>, MinePosts)
      /\ Ready \in GoodPosts' /\ Ready \notin MinePosts /\ Free(<<Ready>>, MinePosts)
  <2>1. Ready \in GoodPosts' /\ Ready \notin MinePosts
    BY PostTyped DEF GoodPosts, Ready, MinePosts
  <2> QED BY <2>1 DEF Free, AtMostOne
<1>7. CASE m.err # "none"
  <2> DEFINE e == IF r.mine THEN <<Resume(r, m.err)>> ELSE <<>>
  <2>1. Emit(e) /\ UNCHANGED <<inv, basis, requests>>
    BY <1>1, <1>7 DEF OnBlock
  <2>2. ASSUME r.mine PROVE Resume(r, m.err) \in GoodPosts'
    <3>1. BeingRead(r)'
      BY <1>1, <1>2, <2>1, GoodStays DEF GoodRequests
    <3>2. Resume(r, m.err) \in Posts
      BY <1>2, PostTyped
    <3> QED BY <1>1, <1>3, <2>2, <3>1, <3>2 DEF GoodPosts, Resume
  <2>3. e \in Seq(GoodPosts') /\ AtMostOne(e, MinePosts) /\ (~r.mine => Free(e, MinePosts))
    <3>1. AtMostOne(<<>>, MinePosts)
      BY DEF AtMostOne
    <3> QED BY <1>6, <2>2, <3>1
  <2> HIDE DEF e
  <2> QED BY <1>0, <1>2, <1>5, <2>1, <2>3, EmittedWhole
<1>8. CASE m.err = "none" /\ partial /\ r.block < Blocks
  <2>1. /\ requests' = Append(requests, NextBlock(r, m.ids))
        /\ Emit(<<>>) /\ UNCHANGED <<inv, basis>>
    BY <1>1, <1>8 DEF OnBlock
  <2>2. NextBlock(r, m.ids) \in GoodRequests' /\ NextBlock(r, m.ids) \notin MineRequests
    <3>1. BeingRead(NextBlock(r, m.ids))'
      BY <1>1, <1>2, <1>4, <1>8, NextIsRead
    <3>2. NextBlock(r, m.ids) \in Requests
      BY <1>2, NextBlockTyped
    <3>3. NextBlock(r, m.ids).block = r.block + 1 /\ NextBlock(r, m.ids).mine = r.mine
      BY <1>2 DEF NextBlock, Requests
    <3>4. r.block + 1 <= Blocks
      BY <1>3, <1>8, BlocksOfTable
    <3> QED BY <1>8, <3>1, <3>2, <3>3, <3>4 DEF GoodRequests, MineRequests
  <2> QED BY <1>5, <1>6, <2>1, <2>2, EmittedWhole
<1>9. CASE m.err = "none" /\ partial /\ ~(r.block < Blocks)
  <2> DEFINE got == Append(r.got, m.ids)
             ids == Merge(got)
             h == GetConfigured(ids, r.block = Blocks)
  <2>1. Handle(r, ids, <<>>)
    BY <1>1, <1>9 DEF OnBlock
  <2>2. Placed => r.always \subseteq ids /\ ids \subseteq r.ever
    <3>1. /\ got \in Seq(IdSets) /\ Len(got) = Blocks
          /\ \A b \in 1 .. Blocks : BlockIsWhole(got[b], b, r)
      <4>1. r.block = Blocks /\ Len(r.got) = Blocks - 1 /\ Blocks \in Nat \ {0}
        BY <1>3, <1>9, LenProperties, BlocksOfTable DEF BlocksRead
      <4>2. /\ got \in Seq(IdSets) /\ Len(got) = Blocks
            /\ \A b \in 1 .. Blocks : IF b = Blocks THEN got[b] = m.ids ELSE got[b] = r.got[b]
        BY <1>2, <1>3, <4>1, AppendProperties
      <4> HIDE DEF got
      <4>3. BlockIsWhole(m.ids, Blocks, r)
        BY <1>2, <1>9, <4>1
      <4>4. \A b \in 1 .. Blocks - 1 : BlockIsWhole(r.got[b], b, r)
        BY <1>3, <4>1 DEF BlocksRead
      <4>5. ASSUME NEW b \in 1 .. Blocks PROVE BlockIsWhole(got[b], b, r)
        <5>1. CASE b = Blocks
          BY <4>2, <4>3, <5>1
        <5>2. CASE b # Blocks
          <6>1. b \in 1 .. Blocks - 1
            BY <4>1, <5>2
          <6> QED BY <4>2, <4>4, <5>2, <6>1
        <5> QED BY <5>1, <5>2
      <4> QED BY <4>2, <4>5
    <3> HIDE DEF got
    <3>2. DOMAIN got = 1 .. Blocks
      BY <3>1, LenProperties
    <3>3. r.ever \subseteq Ids /\ r.always \subseteq Ids /\ r.ever \subseteq Room
      BY <1>3, InventoryBounds DEF Heard, Room, TypeOK, PanelTyped, Ids
    <3>4. r.always \subseteq AllMeant(got) /\ AllMeant(got) \subseteq r.ever
      BY <3>1, <3>2, <3>3, AllIsWhole
    <3>5. Placed => Merge(got) = AllMeant(got)
      BY <1>4, <1>9, <3>1, <3>3, MergeMeans
    <3> QED BY <3>4, <3>5
  <2>3. ids \in IdSets
    <3>1. got \in Seq(IdSets)
      BY <1>2, <1>3
    <3> QED BY <3>1, MergeTyped
  <2> DEFINE e == (IF h.tells THEN <<Ready>> ELSE <<>>) \o <<>>
  <2>4. Emit(e) /\ requests' = requests
    BY <2>1 DEF Handle
  <2> HIDE DEF ids, h
  <2>5. Accounted' /\ ListIsWhole'
    BY <1>1, <1>2, <1>9, <2>1, <2>2, <2>3, HandleKeeps
  <2>6. e \in Seq(GoodPosts') /\ Free(e, MinePosts)
    BY <1>6, FreeConcat, ConcatProperties
  <2> HIDE DEF e
  <2> QED BY <1>9, <2>4, <2>5, <2>6, EmittedWhole
<1>10. CASE m.err = "none" /\ ~partial
  <2> DEFINE s == NextBlock(r, m.ids)
             after == IF r.mine THEN <<Resume(s, "none")>> ELSE <<>>
             h == GetConfigured(m.ids, r.block = Blocks)
             e == (IF h.tells THEN <<Ready>> ELSE <<>>) \o after
  <2>1. Handle(r, m.ids, after)
    BY <1>1, <1>10 DEF OnBlock
  <2>2. Emit(e) /\ requests' = requests
    BY <2>1 DEF Handle
  <2>3. /\ Accounted' /\ ListIsWhole'
        /\ d \notin Assembled => inv.list \subseteq inv'.list /\ m.ids \subseteq inv'.list
    BY <1>1, <1>2, <1>10, <2>1, HandleKeeps
  <2>4. ASSUME r.mine PROVE Resume(s, "none") \in GoodPosts'
    <3>1. BeingRead(s)'
      BY <1>1, <1>2, <1>4, <1>10, <2>3, <2>4, NextIsRead
    <3>2. s \in Requests
      BY <1>2, NextBlockTyped
    <3>3. s.kind = r.kind /\ s.mine = r.mine
      BY <1>2 DEF NextBlock, Requests
    <3>4. Resume(s, "none") \in Posts
      BY <3>2, PostTyped DEF Errors
    <3> HIDE DEF s
    <3> QED BY <1>1, <2>4, <3>1, <3>3, <3>4 DEF GoodPosts, Resume
  <2>5. after \in Seq(GoodPosts') /\ AtMostOne(after, MinePosts) /\ (~r.mine => Free(after, MinePosts))
    <3>1. AtMostOne(<<>>, MinePosts)
      BY DEF AtMostOne
    <3> QED BY <1>6, <2>4, <3>1
  <2> HIDE DEF after, h
  <2>6. e \in Seq(GoodPosts') /\ AtMostOne(e, MinePosts) /\ (~r.mine => Free(e, MinePosts))
    BY <1>6, <2>5, FreeConcat, ConcatProperties
  <2> HIDE DEF e
  <2> QED BY <1>0, <1>2, <2>2, <2>3, <2>6, EmittedWhole
<1> QED BY <1>7, <1>8, <1>9, <1>10

\* A step that leaves the list as it is, or drops from it only what the table or the
\* limit has no room for.
LEMMA PrunedKeeps ==
  ASSUME TypeOK, WholeInv, UNCHANGED <<panel, basis>>,
         inv'.complete = inv.complete, inv'.list \subseteq inv.list,
         d \notin Assembled => inv'.list = inv.list,
         \A i \in inv.list : i <= Top /\ (inv'.limit # Unknown => i <= inv'.limit) => i \in inv'.list,
         \A i \in Nat : (inv'.limit # Unknown => i <= inv'.limit) => (inv.limit # Unknown => i <= inv.limit)
  PROVE  Accounted' /\ ListIsWhole'
<1>1. Accounted'
  BY DEF WholeInv, Accounted, d
<1>2. ASSUME inv'.complete, basis'.whole
      PROVE  /\ \A i \in basis'.always :
                   i <= Top /\ (inv'.limit # Unknown => i <= inv'.limit) => i \in inv'.list
             /\ inv'.list \subseteq basis'.ever
  <2>1. Unpruned(basis.always) \subseteq inv.list /\ inv.list \subseteq basis.ever
    BY <1>2 DEF WholeInv, ListIsWhole
  <2>2. basis.always \subseteq Nat
    BY DEF TypeOK, BasisSet
  <2> QED BY <2>1, <2>2 DEF Unpruned
<1> QED BY <1>1, <1>2 DEF ListIsWhole, Unpruned

LEMMA MessageWhole ==
  ASSUME TypeOK, WholeInv, OnMessage
  PROVE  WholeInv'
<1> DEFINE m == Head(posts)
           r == m.request
<1>1. posts # <<>> /\ m.kind = "message" /\ UNCHANGED <<panel, call>>
  BY DEF OnMessage
<1>2. m.err \in Errors /\ r \in Requests
  BY <1>1, HeadPost
<1>3. inv \in InvSet /\ Top \in Nat \ {0} /\ Unknown \notin Int
  BY InventoryBounds DEF TypeOK
<1>4. <<>> \in Seq(GoodPosts') /\ Free(<<>>, MinePosts)
  BY DEF Free
<1>5. CASE r.kind = "list" /\ OnList
  BY <1>1, <1>5, ListWhole
<1>6. CASE r.kind = "table" /\ OnTable
  <2>1. Emit(<<>>) /\ requests' = requests /\ basis' = basis /\ (inv' = inv \/ inv' = TableInfo)
    BY <1>6 DEF OnTable, history
  <2>2. /\ inv'.complete = inv.complete /\ inv'.limit = inv.limit
        /\ IF d \in ToldOnce /\ inv' = TableInfo THEN inv'.list = {i \in inv.list : i <= Top}
           ELSE inv'.list = inv.list
    <3>1. CASE inv' = inv
      BY <1>3, <3>1, TableInfoCases DEF Pruned, Sized, InvSet
    <3>2. CASE inv' = TableInfo
      BY <1>3, <3>2, TableInfoCases DEF Pruned, Sized, InvSet
    <3> QED BY <2>1, <3>1, <3>2
  <2>3. d \notin Assembled => inv'.list = inv.list
    BY <2>2 DEF Assembled, ToldOnce, Domain
  <2>4. Accounted' /\ ListIsWhole'
    BY <1>1, <2>1, <2>2, <2>3, PrunedKeeps
  <2> QED BY <1>1, <1>4, <2>1, <2>3, <2>4, EmittedWhole
<1>7. CASE r.kind = "attribs" /\ OnAttribs
  <2> DEFINE i == r.id
  <2>1. Emit(<<>>) /\ requests' = requests /\ basis' = basis
    BY <1>7 DEF OnAttribs
  <2>2. inv' = inv \/ (inv' = RecordInvalid(i) /\ d \in ToldOnce)
    BY <1>7 DEF OnAttribs, AreaGetAttribs, ZoneGetAttribs, OutputGetAttribs, LightGetAttribs,
       LockGetAttribs, BarrierGetAttribs, TstatGetAttribs, UserGetAttribs, KeypadGetAttribs,
       Store, Refuse, RefuseInvalid, ToldOnce
  <2>3. i \in Nat
    BY <1>2 DEF Requests
  <2> HIDE DEF i
  <2>4. /\ inv'.complete = inv.complete /\ inv'.list \subseteq inv.list
        /\ d \notin ToldOnce => inv'.list = inv.list
        /\ \A k \in inv.list : (inv'.limit # Unknown => k <= inv'.limit) => k \in inv'.list
        /\ \A k \in Nat : (inv'.limit # Unknown => k <= inv'.limit) => (inv.limit # Unknown => k <= inv.limit)
    <3>1. CASE inv' = inv
      BY <1>3, <3>1
    <3>2. CASE inv' = RecordInvalid(i) /\ d \in ToldOnce
      <4> DEFINE streak == IF inv.last # Unknown /\ i = inv.last + 1 THEN inv.streak + 1 ELSE 1
                 limit  == IF i > streak THEN i - streak ELSE 0
      <4>1. limit \in Nat
        BY <1>3, <2>3 DEF InvSet
      <4>2. /\ inv'.complete = inv.complete
            /\ \/ inv'.list = inv.list /\ inv'.limit = inv.limit
               \/ /\ inv'.limit = limit /\ inv'.list = {k \in inv.list : k <= limit}
                  /\ inv.limit = Unknown \/ limit < inv.limit
        BY <1>3, <2>3, <3>2 DEF RecordInvalid, InvSet
      <4> HIDE DEF limit
      <4> QED BY <1>3, <3>2, <4>1, <4>2 DEF InvSet
    <3> QED BY <2>2, <3>1, <3>2
  <2>5. d \notin Assembled => inv'.list = inv.list
    BY <2>4 DEF Assembled, ToldOnce, Domain
  <2>6. Accounted' /\ ListIsWhole'
    BY <1>1, <2>1, <2>4, <2>5, PrunedKeeps
  <2> QED BY <1>1, <1>4, <2>1, <2>5, <2>6, EmittedWhole
<1> QED BY <1>5, <1>6, <1>7 DEF OnMessage

LEMMA ReadyWhole ==
  ASSUME TypeOK, WholeInv, OnReady
  PROVE  WholeInv'
<1>1. /\ posts # <<>> /\ Emit(<<>>) /\ UNCHANGED <<panel, inv, call, basis>>
  BY OnReadyCases
<1>2. PICK s \in Sorted(inv.list) : requests' \in {requests, requests \o AttribsOf(s)}
  BY DEF OnReady
<1>3. AttribsOf(s) \in Seq(GoodRequests) /\ Free(AttribsOf(s), MineRequests)
  BY AttribsOfIsGood DEF WholeInv, TypeOK, InvSet
<1>4. AttribsOf(s) \in Seq(GoodRequests')
  BY <1>1, <1>3, GoodStays, SeqWider
<1>5. Accounted' /\ ListIsWhole'
  BY <1>1, PrunedKeeps DEF WholeInv
<1>6. <<>> \in Seq(GoodPosts') /\ Free(<<>>, MinePosts)
  BY DEF Free
<1> QED BY <1>1, <1>2, <1>3, <1>4, <1>5, <1>6, EmittedWhole

\* Whatever becomes of the list, requests and callbacks that are not the application's
\* stay good.
LEMMA GoodButMine ==
  ASSUME TypeOK, panel' = panel
  PROVE  /\ \A s \in Seq(GoodRequests) : Free(s, MineRequests) => s \in Seq(GoodRequests')
         /\ \A s \in Seq(GoodPosts) : Free(s, MinePosts) => s \in Seq(GoodPosts')
<1>1. ASSUME NEW r \in GoodRequests, r \notin MineRequests PROVE r \in GoodRequests'
  <2>1. CASE r.kind # "list"
    BY <1>1, <2>1 DEF GoodRequests, BeingRead
  <2>2. CASE r.kind = "list"
    <3>1. /\ Heard(r) /\ BlocksRead(r) /\ AddedSoFar(r) /\ r \in Requests /\ r.block <= Blocks
          /\ ~r.mine
      BY <1>1, <2>2 DEF GoodRequests, BeingRead, MineRequests
    <3>2. Heard(r)' /\ BlocksRead(r)'
      BY <3>1 DEF Heard, Room, BlocksRead, BlockIsWhole, Meant, Part
    <3>3. AddedSoFar(r)'
      <4>1. d \notin Assembled => r.block = 1
        BY <3>1 DEF AddedSoFar
      <4>2. \A i \in r.always : BlockOf(i) \in Nat /\ BlockOf(i) >= 1
        <5>1. r.always \subseteq Ids
          BY <3>1 DEF Heard, TypeOK, PanelTyped
        <5> QED BY <5>1, BlockInRange, BlocksOfTable
      <4> QED BY <4>1, <4>2 DEF AddedSoFar, d
    <3> QED BY <3>1, <3>2, <3>3 DEF GoodRequests, BeingRead
  <2> QED BY <2>1, <2>2
<1>2. ASSUME NEW p \in GoodPosts, p \notin MinePosts PROVE p \in GoodPosts'
  <2>1. p \in Posts
    BY DEF GoodPosts
  <2>2. CASE p.kind = "ready"
    BY <2>1, <2>2 DEF GoodPosts
  <2>3. CASE p.kind = "message"
    <3>1. p.request \in GoodRequests /\ p.request \in GoodRequests'
      BY <1>1, <1>2, <2>1, <2>3 DEF GoodPosts, MinePosts
    <3>2. p.request.kind = "list" /\ p.err = "none" => BlockIsWhole(p.ids, p.request.block, p.request)
      BY <2>3 DEF GoodPosts
    <3>3. BlockIsWhole(p.ids, p.request.block, p.request)
          => BlockIsWhole(p.ids, p.request.block, p.request)'
      BY DEF BlockIsWhole, Meant, Part
    <3> QED BY <2>1, <2>3, <3>1, <3>2, <3>3 DEF GoodPosts
  <2>4. p.kind # "resume"
    BY <1>2, <2>1 DEF GoodPosts, MinePosts, MineRequests, Posts
  <2> QED BY <2>1, <2>2, <2>3, <2>4 DEF Posts
<1>3. ASSUME NEW S, NEW T, NEW M, NEW s \in Seq(S), Free(s, M), \A x \in S : x \notin M => x \in T
      PROVE  s \in Seq(T)
  <2>1. Len(s) \in Nat /\ s \in [1 .. Len(s) -> S]
    BY LenProperties
  <2>2. s \in [1 .. Len(s) -> T]
    BY <1>3, <2>1 DEF Free
  <2> QED BY <2>1, <2>2, SeqDef
<1>4. \A s \in Seq(GoodRequests) : Free(s, MineRequests) => s \in Seq(GoodRequests')
  BY <1>1, <1>3
<1>5. \A s \in Seq(GoodPosts) : Free(s, MinePosts) => s \in Seq(GoodPosts')
  BY <1>2, <1>3
<1> QED BY <1>4, <1>5

\* The call resumes: nothing else of it is under way.
LEMMA ResumeWhole ==
  ASSUME TypeOK, WholeInv, OnResume
  PROVE  WholeInv'
<1>0. PICK r : r = Head(posts).request
  OBVIOUS
<1>1. PICK err : err = Head(posts).err
  OBVIOUS
<1>2. posts # <<>> /\ Head(posts).kind = "resume" /\ Emit(<<>>) /\ panel' = panel
  BY DEF OnResume
<1>3. /\ r \in Requests /\ BeingRead(r) /\ r.kind = "list" /\ r.mine
      /\ err # "none" => r.block <= Blocks
      /\ Head(posts) \in MinePosts
  <2>1. r \in Requests
    BY <1>0, <1>2, HeadPost
  <2> QED BY <1>0, <1>1, <1>2, <2>1, HeadIsGood DEF GoodPosts, MinePosts, MineRequests
<1>4. /\ posts \in Seq(GoodPosts) /\ Tail(posts) \in Seq(GoodPosts) /\ requests \in Seq(GoodRequests)
      /\ posts' = Tail(posts)
  BY <1>2, HeadIsGood DEF WholeInv, Good, Emit
<1>5. /\ Free(posts', MinePosts) /\ Free(requests, MineRequests) /\ call.busy
  BY <1>2, <1>3, <1>4, FreeTail DEF WholeInv, OneCall
<1>6. posts' \in Seq(GoodPosts')
  BY <1>2, <1>4, <1>5, GoodButMine
<1>7. PanelFits' /\ d' = d
  BY <1>2 DEF WholeInv, PanelFits, d
<1>8. CASE /\ err = "busy" \/ (err = "none" /\ r.block <= Blocks)
           /\ requests' = Append(requests, r)
           /\ UNCHANGED <<inv, basis, call>>
  <2>1. r \in GoodRequests
    BY <1>3, <1>8 DEF GoodRequests
  <2>2. Append(requests, r) \in Seq(GoodRequests)
    BY <1>4, <2>1, AppendProperties
  <2>3. requests' \in Seq(GoodRequests')
    BY <1>2, <1>8, <2>2, GoodStays, SeqWider
  <2>4. AtMostOne(requests', MineRequests)
    BY <1>4, <1>5, <1>8, <2>1, FreeAppended
  <2>5. OneCall'
    BY <1>5, <1>8, <2>4 DEF OneCall, AtMostOne, Free, MinePosts, MineRequests
  <2>6. Accounted' /\ ListIsWhole'
    BY <1>2, <1>8, PrunedKeeps DEF WholeInv
  <2> QED BY <1>6, <1>7, <2>3, <2>5, <2>6 DEF WholeInv, Good
<1>9. ASSUME call' = Idle, Accounted', ListIsWhole',
             requests' = requests \/ \E i \in 1 .. Top : requests' = Append(requests, Attribs(i))
      PROVE  WholeInv'
  <2>1. requests \in Seq(GoodRequests')
    BY <1>2, <1>4, <1>5, GoodButMine
  <2>2. requests' \in Seq(GoodRequests') /\ Free(requests', MineRequests)
    <3>1. CASE requests' = requests
      BY <1>5, <2>1, <3>1
    <3>2. ASSUME NEW i \in 1 .. Top, requests' = Append(requests, Attribs(i))
          PROVE  requests' \in Seq(GoodRequests') /\ Free(requests', MineRequests)
      <4>1. Attribs(i) \in GoodRequests /\ Attribs(i) \notin MineRequests
        <5>1. i \in Nat \ {0}
          BY InventoryBounds
        <5> QED BY <5>1, RequestIsGood DEF WholeInv
      <4>2. Append(requests, Attribs(i)) \in Seq(GoodRequests)
        BY <1>4, <4>1, AppendProperties
      <4>3. Free(Append(requests, Attribs(i)), MineRequests)
        BY <1>4, <1>5, <4>1, FreeAppended
      <4> QED BY <1>2, <3>2, <4>2, <4>3, GoodButMine
    <3> QED BY <1>9, <3>1, <3>2
  <2>3. OneCall'
    BY <1>5, <2>2 DEF OneCall, AtMostOne, Free, MinePosts, MineRequests
  <2> QED BY <1>6, <1>7, <1>9, <2>2, <2>3 DEF WholeInv, Good
<1>10. CASE err = "error" /\ call' = Idle /\ UNCHANGED <<inv, basis, requests>>
  <2>1. Accounted' /\ ListIsWhole'
    BY <1>2, <1>10, PrunedKeeps DEF WholeInv
  <2> QED BY <1>9, <1>10, <2>1
<1>11. CASE /\ err = "none" /\ r.block > Blocks
            /\ Prefetched(r) /\ call' = Idle
            /\ requests' = IF call.attribs = 0 THEN requests
                           ELSE Append(requests, Attribs(call.attribs))
  <2>1. Accounted' /\ ListIsWhole'
    <3>1. CASE UNCHANGED <<inv, basis>>
      BY <1>2, <3>1, PrunedKeeps DEF WholeInv
    <3>2. CASE /\ d \notin ToldOnce
               /\ inv' = [inv EXCEPT !.list = ClientMerge(r.got), !.complete = TRUE]
               /\ basis' = [ever |-> r.ever, always |-> r.always, whole |-> TRUE]
      <4>1. Heard(r) /\ BlocksRead(r)
        BY <1>3 DEF BeingRead
      <4>2. r.got \in Seq(IdSets) /\ r.block \in Nat
        BY <1>3 DEF Requests
      <4>3. Len(r.got) = Blocks /\ \A b \in 1 .. Blocks : BlockIsWhole(r.got[b], b, r)
        <5>1. Len(r.got) = Blocks
          BY <1>11, <4>1, <4>2, BlocksOfTable, LenProperties DEF BlocksRead
        <5> QED BY <4>1, <5>1 DEF BlocksRead
      <4>4. DOMAIN r.got = 1 .. Blocks
        BY <4>2, <4>3, LenProperties
      <4>5. r.ever \subseteq Ids /\ r.always \subseteq Ids /\ r.ever \subseteq Room
        BY <4>1, InventoryBounds DEF Heard, Room, TypeOK, PanelTyped, Ids
      <4>6. r.always \subseteq AllMeant(r.got) /\ AllMeant(r.got) \subseteq r.ever
        BY <4>3, <4>4, <4>5, AllIsWhole
      <4>7. ClientMerge(r.got) = AllMeant(r.got)
        BY <3>2, <4>2, <4>3, <4>5, MergeMeans DEF WholeInv
      <4>8. inv'.list = AllMeant(r.got) /\ basis'.ever = r.ever /\ basis'.always = r.always
            /\ basis'.whole
        BY <3>2, <4>7 DEF TypeOK, InvSet
      <4> QED BY <4>6, <4>8 DEF Accounted, ListIsWhole, Unpruned
    <3> QED BY <1>11, <3>1, <3>2 DEF Prefetched
  <2>2. call.attribs # 0 => call.attribs \in 1 .. Top
    BY DEF TypeOK, ClientTyped
  <2>3. requests' = requests \/ \E i \in 1 .. Top : requests' = Append(requests, Attribs(i))
    BY <1>11, <2>2
  <2> QED BY <1>9, <1>11, <2>1, <2>3
<1> QED BY <1>0, <1>1, <1>8, <1>10, <1>11 DEF OnResume

LEMMA AppCallsWhole ==
  ASSUME TypeOK, WholeInv, AppCalls
  PROVE  WholeInv'
<1>1. UNCHANGED <<panel, inv, posts, basis>>
  BY DEF AppCalls, history
<1>2. PanelFits' /\ Accounted' /\ ListIsWhole'
  BY <1>1, PrunedKeeps DEF WholeInv, PanelFits, d
<1>3. GoodRequests \subseteq GoodRequests' /\ GoodPosts \subseteq GoodPosts'
  BY <1>1, GoodStays
<1>4. /\ List(TRUE) \in GoodRequests /\ List(FALSE) \in GoodRequests /\ Table \in GoodRequests
      /\ Table \notin MineRequests /\ List(FALSE) \notin MineRequests
      /\ \A i \in 1 .. Top : Attribs(i) \in GoodRequests /\ Attribs(i) \notin MineRequests
  <2>1. \A i \in 1 .. Top : i \in Nat \ {0}
    BY InventoryBounds
  <2> QED BY <2>1, RequestIsGood DEF WholeInv
<1>5. requests \in Seq(GoodRequests) /\ posts' \in Seq(GoodPosts')
  BY <1>1, <1>3, SeqWider DEF WholeInv, Good
<1>6. ASSUME call' = call,
             \/ \E x \in GoodRequests : requests' = Append(requests, x) /\ x \notin MineRequests
             \/ \E t \in Seq(GoodRequests) : requests' = requests \o t /\ Free(t, MineRequests)
      PROVE  WholeInv'
  <2>1. \A t \in Seq(GoodRequests) : t \in Seq(GoodRequests')
    BY <1>3, SeqWider
  <2>2. /\ requests' \in Seq(GoodRequests')
        /\ AtMostOne(requests, MineRequests) => AtMostOne(requests', MineRequests)
        /\ Free(requests, MineRequests) => Free(requests', MineRequests)
    BY <1>3, <1>6, <2>1, MoreRequests
  <2>3. OneCall'
    <3>1. OneCall
      BY DEF WholeInv
    <3> QED BY <1>1, <1>6, <2>2, <3>1 DEF OneCall, MineRequests, MinePosts
  <2> QED BY <1>2, <1>5, <2>2, <2>3 DEF WholeInv, Good
<1>7. ASSUME ~call.busy, call'.busy, requests' = Append(requests, List(TRUE))
      PROVE  WholeInv'
  <2>1. Free(requests, MineRequests) /\ Free(posts, MinePosts)
    BY <1>7 DEF WholeInv, OneCall
  <2>2. Append(requests, List(TRUE)) \in Seq(GoodRequests)
    BY <1>4, <1>5, AppendProperties
  <2>3. requests' \in Seq(GoodRequests')
    BY <1>3, <1>7, <2>2, SeqWider
  <2>4. AtMostOne(requests', MineRequests)
    BY <1>4, <1>5, <1>7, <2>1, FreeAppended
  <2>5. OneCall'
    BY <1>1, <1>7, <2>1, <2>4 DEF OneCall, AtMostOne, Free, MineRequests, MinePosts
  <2> QED BY <1>2, <1>5, <2>3, <2>5 DEF WholeInv, Good
<1>8. CASE (\E more \in RefreshConfig : requests' = requests \o more) /\ UNCHANGED call
  <2>1. PICK s \in Sorted(IF d = "zone" THEN inv.list ELSE {}) :
           requests' = requests \o (<<Table, List(FALSE)>> \o AttribsOf(s))
    BY <1>8 DEF RefreshConfig
  <2>2. (IF d = "zone" THEN inv.list ELSE {}) \in IdSets
    BY IdSetsClosed DEF TypeOK, InvSet
  <2>3. AttribsOf(s) \in Seq(GoodRequests) /\ Free(AttribsOf(s), MineRequests)
    BY <2>2, AttribsOfIsGood DEF WholeInv
  <2> DEFINE a == <<Table, List(FALSE)>>
  <2>4. a \in Seq(GoodRequests) /\ Free(a, MineRequests)
    <3>1. \A x, y \in GoodRequests : <<x, y>> \in Seq(GoodRequests)
      OBVIOUS
    <3>2. \A x, y : x \notin MineRequests /\ y \notin MineRequests => Free(<<x, y>>, MineRequests)
      BY DEF Free
    <3> QED BY <1>4, <3>1, <3>2
  <2> HIDE DEF a
  <2>5. a \o AttribsOf(s) \in Seq(GoodRequests) /\ Free(a \o AttribsOf(s), MineRequests)
    BY <2>3, <2>4, FreeConcat, ConcatProperties
  <2> QED BY <1>6, <1>8, <2>1, <2>5 DEF a
<1>9. CASE requests' = Append(requests, Table) /\ UNCHANGED call
  BY <1>4, <1>6, <1>9
<1>10. CASE ~call.busy /\ call' = [Idle EXCEPT !.busy = TRUE] /\ requests' = Append(requests, List(TRUE))
  BY <1>7, <1>10 DEF Idle
<1>11. ASSUME ~call.busy, NEW i \in 1 .. Top,
              IF Unlisted
              THEN call' = [busy |-> TRUE, attribs |-> i] /\ requests' = Append(requests, List(TRUE))
              ELSE UNCHANGED call /\ requests' = Append(requests, Attribs(i))
       PROVE  WholeInv'
  <2>1. CASE Unlisted
    <3>1. call'.busy
      BY <1>11, <2>1
    <3> QED BY <1>7, <1>11, <2>1, <3>1
  <2>2. CASE ~Unlisted
    BY <1>4, <1>6, <1>11, <2>2
  <2> QED BY <2>1, <2>2
<1> QED BY <1>8, <1>9, <1>10, <1>11 DEF AppCalls

LEMMA AnswersWhole ==
  ASSUME TypeOK, WholeInv, PanelAnswers
  PROVE  WholeInv'
<1>0. PICK r : r = Head(requests)
  OBVIOUS
<1>1. /\ requests # <<>> /\ requests' = Tail(requests) /\ UNCHANGED <<panel, inv, call, basis>>
      /\ \E err \in Errors, ids \in {Told(r.block), {}} :
            /\ posts' = Append(posts, Message(r, err, ids))
            /\ r.kind = "list" /\ err = "none" => ids = Told(r.block)
  BY <1>0 DEF PanelAnswers, Errors, history
<1>2. requests \in Seq(GoodRequests) /\ posts \in Seq(GoodPosts)
  BY DEF WholeInv, Good
<1>3. r \in GoodRequests /\ r \in Requests /\ requests' \in Seq(GoodRequests)
  BY <1>0, <1>1, <1>2 DEF GoodRequests
<1>4. PICK err \in Errors, ids \in {Told(r.block), {}} :
        /\ posts' = Append(posts, Message(r, err, ids))
        /\ r.kind = "list" /\ err = "none" => ids = Told(r.block)
  BY <1>1
<1> DEFINE m == Message(r, err, ids)
<1>5. /\ m.kind = "message" /\ m.request = r /\ m.err = err /\ m.ids = ids
  BY DEF Message
<1>6. m \in Posts
  <2>1. ids \in IdSets
    BY <1>3, ToldTyped, IdSetsClosed DEF Requests
  <2> QED BY <1>3, <2>1, PostTyped
<1> HIDE DEF m
<1>7. m \in GoodPosts
  <2>1. ASSUME r.kind = "list", err = "none" PROVE BlockIsWhole(ids, r.block, r)
    <3>1. Heard(r) /\ r.block \in Nat \ {0}
      BY <1>3, <2>1 DEF GoodRequests, BeingRead, Requests
    <3> QED BY <1>4, <2>1, <3>1, ToldIsWhole
  <2> QED BY <1>3, <1>5, <1>6, <2>1 DEF GoodPosts
<1>8. m \in MinePosts <=> r \in MineRequests
  BY <1>5, <1>6 DEF MinePosts
<1>9. posts' = Append(posts, m) /\ posts' \in Seq(GoodPosts)
  <2>1. Append(posts, m) \in Seq(GoodPosts)
    BY <1>2, <1>7, AppendProperties
  <2> QED BY <1>4, <2>1 DEF m
<1>10. Good'
  BY <1>1, <1>3, <1>9, GoodStays, SeqWider DEF Good
<1>11. OneCall'
  <2> SUFFICES
        /\ AtMostOne(requests', MineRequests) /\ AtMostOne(posts', MinePosts)
        /\ Free(requests', MineRequests) \/ Free(posts', MinePosts)
        /\ ~call.busy => Free(requests', MineRequests) /\ Free(posts', MinePosts)
    BY <1>1 DEF OneCall, MineRequests, MinePosts
  <2>1. OneCall
    BY DEF WholeInv
  <2>2. CASE r \in MineRequests
    <3>1. ~Free(requests, MineRequests) /\ Free(requests', MineRequests)
      BY <1>0, <1>1, <1>2, <2>1, <2>2, FreeTail DEF OneCall
    <3>2. AtMostOne(posts', MinePosts) /\ AtMostOne(requests', MineRequests)
      BY <1>1, <1>2, <1>7, <1>9, <2>1, <3>1, FreeAppended, FreeTail DEF OneCall
    <3> QED BY <2>1, <3>1, <3>2 DEF OneCall
  <2>3. CASE r \notin MineRequests
    <3>1. /\ AtMostOne(posts, MinePosts) => AtMostOne(posts', MinePosts)
          /\ Free(posts, MinePosts) => Free(posts', MinePosts)
      BY <1>2, <1>7, <1>8, <1>9, <2>3, FreeAppended
    <3>2. /\ AtMostOne(requests, MineRequests) => AtMostOne(requests', MineRequests)
          /\ Free(requests, MineRequests) => Free(requests', MineRequests)
      BY <1>1, <1>2, FreeTail
    <3> QED BY <2>1, <3>1, <3>2 DEF OneCall
  <2> QED BY <2>2, <2>3
<1>12. PanelFits' /\ Accounted' /\ ListIsWhole'
  BY <1>1, PrunedKeeps DEF WholeInv, PanelFits, d
<1> QED BY <1>10, <1>11, <1>12 DEF WholeInv

LEMMA ReconnectWhole ==
  ASSUME TypeOK, WholeInv, Reconnect
  PROVE  WholeInv'
<1>1. /\ panel' = panel /\ posts = <<>> /\ posts' = <<>> /\ requests' = Bootstrap
      /\ inv' = NoInventory /\ basis' = NoBasis
  BY DEF Reconnect
<1>2. requests' \in Seq(GoodRequests') /\ Free(requests', MineRequests)
  BY <1>1, BootstrapIsGood, GoodButMine DEF WholeInv
<1>3. Good'
  BY <1>1, <1>2 DEF Good
<1>4. OneCall'
  BY <1>1, <1>2 DEF OneCall, AtMostOne, Free, MineRequests, MinePosts
<1>5. Accounted' /\ ListIsWhole' /\ PanelFits'
  BY <1>1 DEF WholeInv, Accounted, ListIsWhole, PanelFits, d, NoInventory, NoBasis
<1> QED BY <1>3, <1>4, <1>5 DEF WholeInv

\* A list that is complete is one the panel had, whatever the panel edits, refuses or
\* loses meanwhile, and however the blocks of several reads come between each other:
\* for any panel whose ids count from 1, and for one whose ids count from the start of
\* a block if that block has the size the library guesses.
THEOREM ListsAreWhole == ASSUME Fits PROVE Spec => []ListIsWhole
<1>1. Init => WholeInv
  <2> SUFFICES ASSUME Init PROVE WholeInv
    OBVIOUS
  <2>1. TypeOK
    BY TypeInit
  <2>2. PanelFits
    BY DEF Init, Fits, PanelFits, d
  <2>3. /\ requests = Bootstrap /\ posts = <<>> /\ inv = NoInventory /\ basis = NoBasis
    BY DEF Init
  <2>4. requests \in Seq(GoodRequests) /\ Free(requests, MineRequests)
    BY <2>1, <2>2, <2>3, BootstrapIsGood
  <2>5. Good
    BY <2>3, <2>4 DEF Good
  <2>6. OneCall
    BY <2>3, <2>4 DEF OneCall, AtMostOne, Free
  <2>7. Accounted /\ ListIsWhole
    BY <2>3 DEF Accounted, ListIsWhole, NoInventory, NoBasis
  <2> QED BY <2>2, <2>5, <2>6, <2>7 DEF WholeInv
<1>2. TypeOK /\ WholeInv /\ [Next]_vars => WholeInv'
  <2> SUFFICES ASSUME TypeOK, WholeInv, [Next]_vars PROVE WholeInv'
    OBVIOUS
  <2>1. CASE UNCHANGED vars
    <3>1. UNCHANGED <<panel, inv, requests, posts, call, basis>>
      BY <2>1 DEF vars, history
    <3>2. Good'
      BY <3>1, GoodStays, SeqWider DEF WholeInv, Good
    <3>3. PanelFits' /\ Accounted' /\ ListIsWhole'
      BY <3>1, PrunedKeeps DEF WholeInv, PanelFits, d
    <3>4. OneCall'
      BY <3>1 DEF WholeInv, OneCall, MineRequests, MinePosts
    <3> QED BY <3>2, <3>3, <3>4 DEF WholeInv
  <2>2. CASE Next
    BY <2>2, MessageWhole, ReadyWhole, ResumeWhole, AppCallsWhole, AnswersWhole, EditsWhole,
       ReconnectWhole DEF Next
  <2> QED BY <2>1, <2>2
<1>3. WholeInv => ListIsWhole
  BY DEF WholeInv
<1> QED BY <1>1, <1>2, <1>3, TypeCorrect, PTL DEF Spec
-----------------------------------------------------------------------------
(* Everyone on a complete list is asked for.                               *)

\* The requests under way: queued, answered, or in the hands of the call's task.
Going == Elems(requests) \cup {p.request : p \in {q \in Elems(posts) : q.kind # "ready"}}

\* The client is about to hear of the list, and will then ask for all of it.
Telling == posts # <<>> /\ Head(posts).kind = "ready"
WillAsk == Telling /\ ~(d \in Waited /\ ready)

\* An entity that need not be asked for any more, or is being asked for.
Asked(i) == \E r \in Going : r.kind = "attribs" /\ r.id = i
Settled(i) == i > Top \/ (ToldLate /\ i \in later) \/ i \in named \cup failed \/ Asked(i)

\* A list of the application's, and one whose blocks so far hold nobody unheard of.
MineList(r) == r.kind = "list" /\ r.mine
GotKnown(r) == \A i \in Joined(r.got) : Settled(i) \/ (i \in inv.list /\ (ToldLate \/ Telling))

\* The news of a list comes before every other callback, an answer after them: an answer
\* is handled when the list before it has been asked for.
Shape ==
    \A k \in 1 .. Len(posts) :
        (posts[k].kind = "ready" => k = 1) /\ (posts[k].kind = "message" => k = Len(posts))
Announced == inv.complete <=> Telling \/ ready
Listed == inv.complete /\ ~WillAsk => \A i \in inv.list : Settled(i)
Gathered == d \notin Waited => \A r \in Going : MineList(r) => GotKnown(r)
Bounded ==
    /\ \A r \in Elems(requests) : r.kind = "list" => r.block <= Blocks
    /\ \A p \in Elems(posts) :
         /\ p.kind = "message" /\ p.request.kind = "list" => p.request.block <= Blocks
         /\ p.kind = "resume" =>
              /\ MineList(p.request)
              /\ p.err # "none" => p.request.block <= Blocks
              /\ p.request.block > Blocks => inv.complete

NamingInv == Shape /\ Announced /\ Listed /\ Gathered /\ Bounded

LEMMA NamedAtRest == NamingInv => EveryoneIsNamed
<1> SUFFICES ASSUME NamingInv, requests = <<>>, posts = <<>>, inv.complete, NEW i \in inv.list
             PROVE  i > Top \/ (ToldLate /\ i \in later) \/ i \in named \cup failed
  BY DEF EveryoneIsNamed
<1>1. Going = {}
  BY ElemsEmpty DEF Going
<1>2. Settled(i)
  BY DEF NamingInv, Listed, WillAsk, Telling
<1> QED BY <1>1, <1>2 DEF Settled, Asked

\* The callbacks and the requests are what they are taken for.
LEMMA GoingTyped ==
  ASSUME TypeOK
  PROVE  /\ Elems(requests) \subseteq Requests /\ Elems(posts) \subseteq Posts
         /\ Going \subseteq Requests
<1>1. Elems(requests) \subseteq Requests /\ Elems(posts) \subseteq Posts
  BY ElemsTyped DEF TypeOK, QueuesTyped
<1>2. \A p \in Posts : p.kind # "ready" => p.request \in Requests
  BY DEF Posts
<1> QED BY <1>1, <1>2 DEF Going

\* What is settled stays so as long as nobody's request is forgotten.
LEMMA SettledStays ==
  ASSUME d' = d, named \subseteq named', failed \subseteq failed',
         \A r \in Going : r.kind = "attribs" =>
            r.id \in named' \cup failed' \/ \E s \in Going' : s.kind = "attribs" /\ s.id = r.id,
         \A i \in later : i \in later' \/ \E s \in Going' : s.kind = "attribs" /\ s.id = i,
         NEW i, Settled(i)
  PROVE  Settled(i)'
<1>1. CASE i > Top
  BY <1>1 DEF Settled
<1>2. CASE ToldLate /\ i \in later
  <2>1. ToldLate'
    BY <1>2 DEF ToldLate
  <2> QED BY <1>2, <2>1 DEF Settled, Asked
<1>3. CASE i \in named \cup failed
  BY <1>3 DEF Settled
<1>4. CASE Asked(i)
  BY <1>4 DEF Settled, Asked
<1> QED BY <1>1, <1>2, <1>3, <1>4 DEF Settled

\* An answer is the only callback posted when it is handled.
LEMMA OnlyMessage ==
  ASSUME TypeOK, Shape, posts # <<>>, Head(posts).kind = "message"
  PROVE  Tail(posts) = <<>> /\ Elems(posts) = {Head(posts)} /\ ~Telling
<1>1. posts \in Seq(Posts) /\ Len(posts) \in Nat \ {0} /\ Head(posts) = posts[1]
  BY HeadTailProperties, EmptySeq, LenProperties DEF TypeOK, QueuesTyped
<1>2. Len(posts) = 1
  <2>1. 1 \in 1 .. Len(posts) /\ posts[1].kind = "message"
    BY <1>1
  <2> QED BY <2>1 DEF Shape
<1>3. Tail(posts) \in Seq(Posts) /\ Len(Tail(posts)) = 0
  BY <1>1, <1>2, HeadTailProperties
<1>4. Tail(posts) = <<>>
  BY <1>3, EmptySeq
<1>5. Elems(posts) = {posts[1]}
  BY <1>2 DEF Elems
<1> QED BY <1>1, <1>4, <1>5 DEF Telling

\* Short sequences put together.
LEMMA FewJoined ==
  ASSUME NEW S, NEW a \in S, NEW b \in S
  PROVE  /\ <<>> \o (<<>> \o <<>>) = <<>> /\ <<>> \o (<<>> \o <<b>>) = <<b>>
         /\ <<>> \o (<<a>> \o <<>>) = <<a>> /\ <<>> \o (<<a>> \o <<b>>) = <<a, b>>
<1>1. <<>> \in Seq(S) /\ <<a>> \in Seq(S) /\ <<b>> \in Seq(S) /\ <<a, b>> \in Seq(S)
  OBVIOUS
<1>2. \A s \in Seq(S) : <<>> \o s = s /\ s \o <<>> = s
  BY EmptySeq, ConcatProperties
<1>3. <<a>> \o <<b>> = <<a, b>>
  <2>1. \A s, t \in Seq(S) : Len(s) = Len(t) /\ (\A k \in 1 .. Len(s) : s[k] = t[k]) => s = t
    OBVIOUS
  <2>2. /\ <<a>> \o <<b>> \in Seq(S) /\ Len(<<a>> \o <<b>>) = 2
        /\ (<<a>> \o <<b>>)[1] = a /\ (<<a>> \o <<b>>)[2] = b
    BY <1>1, ConcatProperties
  <2> DEFINE s == <<a>> \o <<b>>
             t == <<a, b>>
  <2>3. t \in Seq(S) /\ Len(t) = 2 /\ t[1] = a /\ t[2] = b
    BY <1>1
  <2>4. s \in Seq(S) /\ Len(s) = 2 /\ s[1] = a /\ s[2] = b
    BY <1>1, <2>2
  <2> HIDE DEF s, t
  <2>5. \A k \in 1 .. Len(s) : s[k] = t[k]
    BY <2>3, <2>4
  <2>6. s = t
    BY <2>1, <2>3, <2>4, <2>5
  <2> QED BY <2>6 DEF s, t
<1> QED BY <1>1, <1>2, <1>3

\* What a handler of an answer leaves posted.
LEMMA Emission ==
  ASSUME TypeOK, Shape, posts # <<>>, Head(posts).kind = "message",
         NEW tells \in BOOLEAN, NEW r, NEW err, NEW after \in {<<>>, <<Resume(r, err)>>},
         Emit((IF tells THEN <<Ready>> ELSE <<>>) \o after)
  PROVE  /\ Shape' /\ (Telling' <=> tells)
         /\ after = <<>> => Elems(posts)' \subseteq {Ready}
         /\ Elems(posts)' \subseteq {Ready, Resume(r, err)}
<1>1. posts' = <<>> \o ((IF tells THEN <<Ready>> ELSE <<>>) \o after)
  BY OnlyMessage DEF Emit
<1> DEFINE R == Resume(r, err)
<1>0. /\ <<>> \o (<<>> \o <<>>) = <<>> /\ <<>> \o (<<>> \o <<R>>) = <<R>>
      /\ <<>> \o (<<Ready>> \o <<>>) = <<Ready>> /\ <<>> \o (<<Ready>> \o <<R>>) = <<Ready, R>>
  <2>1. Ready \in {Ready, R} /\ R \in {Ready, R}
    OBVIOUS
  <2> HIDE DEF R
  <2> QED BY <2>1, FewJoined
<1>2. Ready.kind = "ready" /\ Resume(r, err).kind = "resume"
  BY DEF Ready, Resume
<1>3. CASE ~tells /\ after = <<>>
  <2>1. posts' = <<>>
    BY <1>0, <1>1, <1>3
  <2> QED BY <1>3, <2>1 DEF Shape, Telling, Elems
<1>4. CASE tells /\ after = <<>>
  <2>1. posts' = <<Ready>>
    BY <1>0, <1>1, <1>4
  <2>2. Len(posts') = 1 /\ posts'[1] = Ready /\ Head(posts') = Ready /\ posts' # <<>>
    BY <2>1
  <2> QED BY <1>2, <1>4, <2>2 DEF Shape, Telling, Elems
<1>5. CASE ~tells /\ after = <<Resume(r, err)>>
  <2>1. posts' = <<Resume(r, err)>>
    BY <1>0, <1>1, <1>5
  <2>2. Len(posts') = 1 /\ posts'[1] = Resume(r, err) /\ Head(posts') = Resume(r, err)
    BY <2>1
  <2> QED BY <1>2, <1>5, <2>2 DEF Shape, Telling, Elems
<1>6. CASE tells /\ after = <<Resume(r, err)>>
  <2>1. posts' = <<Ready, Resume(r, err)>>
    BY <1>0, <1>1, <1>6
  <2>2. /\ Len(posts') = 2 /\ posts'[1] = Ready /\ posts'[2] = Resume(r, err)
        /\ Head(posts') = Ready /\ posts' # <<>>
    BY <2>1
  <2> QED BY <1>2, <1>6, <2>2 DEF Shape, Telling, Elems
<1> QED BY <1>3, <1>4, <1>5, <1>6

LEMMA JoinedAppend ==
  ASSUME NEW got \in Seq(IdSets), NEW ids \in IdSets
  PROVE  Joined(Append(got, ids)) = Joined(got) \cup ids
<1>1. \A s \in Seq(IdSets) : DOMAIN s = 1 .. Len(s)
  BY LenProperties
<1>2. Append(got, ids) \in Seq(IdSets)
  BY AppendProperties
<1>3. \A s \in Seq(IdSets) : Joined(s) = UNION Elems(s)
  BY <1>1 DEF Joined, Range, Elems
<1>4. Elems(Append(got, ids)) = Elems(got) \cup {ids}
  BY ElemsAppend
<1>5. Joined(Append(got, ids)) = UNION (Elems(got) \cup {ids}) /\ Joined(got) = UNION Elems(got)
  BY <1>2, <1>3, <1>4, Zenon
<1> QED BY <1>5

\* A handler of a list: those it adds are about to be asked for, or the client has
\* heard of the list already and they came later.
LEMMA HandleNames ==
  ASSUME TypeOK, NamingInv, posts # <<>>, Head(posts).kind = "message",
         NEW r, r = Head(posts).request, r.kind = "list",
         NEW ids \in IdSets, NEW after, Handle(r, ids, after),
         after = <<>> \/ (r.mine /\ after = <<Resume(NextBlock(r, ids), "none")>>),
         Later, UNCHANGED <<panel, ready, named, failed>>
  PROVE  NamingInv'
<1> DEFINE last == r.block = Blocks
           h == GetConfigured(ids, last)
           tells == h.tells
           next == NextBlock(r, ids)
<1>0. inv \in InvSet /\ d \in Domain /\ ready \in BOOLEAN /\ later \subseteq Nat
  BY DEF TypeOK, PanelTyped, ClientTyped, ReadTyped, d
<1>1. d' = d /\ (ToldLate' <=> ToldLate) /\ ready' = ready /\ requests' = requests
  BY DEF d, ToldLate, Handle
<1>2. ~Telling /\ Elems(posts) = {Head(posts)}
  BY OnlyMessage DEF NamingInv
<1>3. r \in Requests /\ r \in Going /\ r.block <= Blocks
  <2>1. Head(posts) \in Elems(posts) /\ r \in Requests
    BY <1>2, HeadPost
  <2> QED BY <2>1 DEF Going, NamingInv, Bounded
<1>4. tells \in BOOLEAN /\ last \in BOOLEAN
  BY GetConfiguredCases
<1>5. inv' = h.inv /\ Emit((IF tells THEN <<Ready>> ELSE <<>>) \o after)
  BY DEF Handle
<1>6. /\ d \in Assembled =>
            /\ inv' = [inv EXCEPT !.list = InTable(ids), !.complete = TRUE]
            /\ tells \/ (d \in ToldOnce /\ inv.complete)
      /\ d \notin Assembled =>
            /\ inv' = [inv EXCEPT !.list = @ \cup ids, !.complete = @ \/ last]
            /\ tells = last
  <2>1. LET g == GetConfigured(ids, last)
        IN /\ d \in Assembled =>
                  /\ g.inv = [inv EXCEPT !.list = InTable(ids), !.complete = TRUE]
                  /\ g.tells \/ (d \in ToldOnce /\ inv.complete)
           /\ d \notin Assembled =>
                  /\ g.inv = [inv EXCEPT !.list = @ \cup ids, !.complete = @ \/ last]
                  /\ g.tells = last
    BY <1>4, GetConfiguredCases
  <2> QED BY <1>5, <2>1
<1> HIDE DEF tells, last, h
<1>7. /\ d \in Assembled =>
            /\ inv'.list = InTable(ids) /\ inv'.complete /\ (tells \/ (d \in ToldOnce /\ inv.complete))
      /\ d \notin Assembled =>
            /\ inv'.list = inv.list \cup ids /\ inv'.complete = (inv.complete \/ last) /\ tells = last
  BY <1>0, <1>6 DEF InvSet
<1>8. /\ Shape' /\ (Telling' <=> tells)
      /\ after = <<>> => Elems(posts)' \subseteq {Ready}
      /\ Elems(posts)' \subseteq {Ready, Resume(next, "none")}
  <2>1. after \in {<<>>, <<Resume(next, "none")>>}
    OBVIOUS
  <2> HIDE DEF next
  <2> QED BY <1>4, <1>5, <2>1, Emission DEF NamingInv
<1>9. inv.complete <=> ready
  BY <1>2 DEF NamingInv, Announced
<1>10. Announced'
  BY <1>0, <1>1, <1>4, <1>7, <1>8, <1>9 DEF Announced, InvSet
<1>11. ASSUME NEW i, Settled(i) PROVE Settled(i)'
  <2>1. named \subseteq named' /\ failed \subseteq failed' /\ later \subseteq later'
    BY DEF Later
  <2>2. Elems(requests)' = Elems(requests)
    BY <1>1
  <2>3. \A s \in Going : s.kind = "attribs" => s \in Going'
    BY <1>2, <2>2 DEF Going
  <2> QED BY <1>1, <1>11, <2>1, <2>3, SettledStays
<1>12. Listed'
  <2> SUFFICES ASSUME inv'.complete, ~WillAsk', NEW i \in inv'.list PROVE Settled(i)'
    BY DEF Listed
  <2>1. ready
    BY <1>1, <1>8, <1>10 DEF WillAsk, Announced
  <2>2. ToldLate
    <3>1. tells => d \in Waited
      BY <1>1, <1>8 DEF WillAsk
    <3>2. ~tells /\ d \in Assembled => d \in ToldOnce
      BY <1>7
    <3> QED BY <1>0, <3>1, <3>2 DEF ToldLate, ToldOnce, Waited, Assembled
  <2>3. CASE i \in inv.list
    <3>1. Settled(i)
      BY <1>2, <1>9, <2>1, <2>3 DEF NamingInv, Listed, WillAsk
    <3> QED BY <1>11, <3>1
  <2>4. CASE i \notin inv.list
    <3>1. i \in later'
      BY <2>1, <2>4 DEF Later
    <3> QED BY <1>1, <2>2, <3>1 DEF Settled
  <2> QED BY <2>3, <2>4
<1>13. ASSUME d \notin Waited, NEW x \in Going, MineList(x), NEW i \in Joined(x.got)
       PROVE  Settled(i)' \/ (i \in inv'.list /\ (ToldLate' \/ Telling'))
  <2>1. Settled(i) \/ (i \in inv.list /\ ToldLate)
    BY <1>2, <1>13 DEF NamingInv, Gathered, GotKnown
  <2>2. CASE i \in inv.list /\ ToldLate
    <3>1. d \notin Assembled
      BY <1>13, <2>2 DEF ToldLate
    <3> QED BY <1>1, <1>7, <2>2, <3>1
  <2> QED BY <1>11, <2>1, <2>2
<1>14. Gathered'
  <2> SUFFICES ASSUME d' \notin Waited, NEW x \in Going', MineList(x), NEW i \in Joined(x.got)
               PROVE  Settled(i)' \/ (i \in inv'.list /\ (ToldLate' \/ Telling'))
    BY DEF Gathered, GotKnown, MineList
  <2>1. x \in Elems(requests) \/ (after # <<>> /\ x = next)
    <3>1. Elems(requests)' = Elems(requests)
      BY <1>1
    <3>2. Ready.kind = "ready" /\ Resume(next, "none").request = next
      BY DEF Ready, Resume
    <3> HIDE DEF next
    <3> QED BY <1>8, <3>1, <3>2 DEF Going
  <2>2. CASE x \in Elems(requests)
    BY <1>1, <1>13, <2>2 DEF Going
  <2>3. CASE r.mine /\ x = next
    <3>1. x.got = Append(r.got, ids) /\ r.got \in Seq(IdSets)
      BY <1>3, <2>3 DEF NextBlock, Requests
    <3>2. i \in Joined(r.got) \/ i \in ids
      BY <3>1, JoinedAppend
    <3>3. CASE i \in Joined(r.got)
      BY <1>1, <1>3, <1>13, <2>3, <3>3 DEF MineList
    <3>4. CASE i \in ids /\ d \in Assembled
      <4>1. tells /\ Telling'
        BY <1>1, <1>7, <1>8, <3>4 DEF ToldOnce, Waited
      <4>2. CASE i \in InTable(ids)
        BY <1>7, <3>4, <4>1, <4>2
      <4>3. CASE i \notin InTable(ids)
        <5>1. i > Top
          BY <1>0, <3>4, <4>3, InventoryBounds DEF InTable, InvSet, IdSets
        <5> QED BY <5>1 DEF Settled
      <4> QED BY <4>2, <4>3
    <3>5. CASE i \in ids /\ d \notin Assembled
      BY <1>1, <1>7, <3>5 DEF ToldLate
    <3> QED BY <3>2, <3>3, <3>4, <3>5
  <2> QED BY <2>1, <2>2, <2>3
<1>15. Bounded'
  <2>1. Elems(requests)' = Elems(requests)
    BY <1>1
  <2>2. ASSUME NEW p \in Elems(posts)', p.kind = "resume"
        PROVE  /\ MineList(p.request) /\ p.err = "none"
               /\ p.request.block > Blocks => inv'.complete
    <3>1. p = Resume(next, "none") /\ r.mine
      BY <1>8, <2>2 DEF Ready
    <3>2. p.request = next /\ p.err = "none"
      BY <3>1 DEF Resume
    <3>3. next.kind = "list" /\ next.mine /\ next.block = r.block + 1
      BY <1>3, <3>1 DEF NextBlock, Requests
    <3>4. next.block > Blocks => last
      BY <1>3, <3>3, BlocksOfTable DEF last, Requests
    <3>5. last => inv'.complete
      BY <1>0, <1>7 DEF InvSet
    <3> QED BY <3>2, <3>3, <3>4, <3>5 DEF MineList
  <2>3. \A p \in Elems(posts)' : p.kind # "message"
    BY <1>8 DEF Ready, Resume
  <2> QED BY <2>1, <2>2, <2>3 DEF NamingInv, Bounded
<1> QED BY <1>8, <1>10, <1>12, <1>14, <1>15 DEF NamingInv

\* Every other answer: the list only shrinks, and the one asked for is read or refused.
LEMMA OtherNames ==
  ASSUME TypeOK, NamingInv, posts # <<>>, Head(posts).kind = "message",
         NEW r, r = Head(posts).request,
         NEW err, NEW after, Emit(after),
         after = <<>> \/ (MineList(r) /\ err # "none" /\ after = <<Resume(r, err)>>),
         NEW x \in Requests, x.kind = "list" => ~x.mine /\ x.block <= Blocks,
         requests' \in {requests, Append(requests, x)},
         inv'.complete = inv.complete, inv'.list \subseteq inv.list,
         d \notin Waited => inv'.list = inv.list,
         UNCHANGED <<panel, ready>>,
         named \subseteq named', failed \subseteq failed', later \subseteq later',
         r.kind = "attribs" => r.id \in named' \cup failed'
  PROVE  NamingInv'
<1>1. d' = d /\ (ToldLate' <=> ToldLate)
  BY DEF d, ToldLate
<1>2. ~Telling /\ Elems(posts) = {Head(posts)}
  BY OnlyMessage DEF NamingInv
<1>3. r \in Requests /\ r \in Going /\ (r.kind = "list" => r.block <= Blocks)
  <2>1. Head(posts) \in Elems(posts) /\ r \in Requests
    BY <1>2, HeadPost
  <2> QED BY <2>1 DEF Going, NamingInv, Bounded
<1>4. /\ Shape' /\ ~Telling'
      /\ after = <<>> => Elems(posts)' \subseteq {Ready}
      /\ Elems(posts)' \subseteq {Ready, Resume(r, err)}
  <2>1. after \in {<<>>, <<Resume(r, err)>>}
    OBVIOUS
  <2>2. <<>> \o after = after
    BY <2>1
  <2>3. Emit((IF FALSE THEN <<Ready>> ELSE <<>>) \o after)
    BY <2>2
  <2> QED BY <2>1, <2>3, Emission DEF NamingInv
<1>5. Elems(requests) \subseteq Elems(requests') /\ Elems(requests') \subseteq Elems(requests) \cup {x}
  <2>1. requests \in Seq(Requests)
    BY DEF TypeOK, QueuesTyped
  <2>2. Elems(Append(requests, x)) = Elems(requests) \cup {x}
    BY <2>1, ElemsAppend
  <2> QED BY <2>2
<1>6. Announced'
  BY <1>2, <1>4 DEF NamingInv, Announced
<1>7. ASSUME NEW i, Settled(i) PROVE Settled(i)'
  <2>1. \A s \in Going : s.kind = "attribs" => s.id \in named' \cup failed' \/ s \in Going'
    BY <1>2, <1>5 DEF Going
  <2> QED BY <1>1, <1>7, <2>1, SettledStays
<1>8. Listed'
  <2>1. inv.complete => \A i \in inv.list : Settled(i)
    BY <1>2 DEF NamingInv, Listed, WillAsk
  <2> QED BY <1>7, <2>1 DEF Listed
<1>9. Gathered'
  <2> SUFFICES ASSUME d' \notin Waited, NEW y \in Going', MineList(y), NEW i \in Joined(y.got)
               PROVE  Settled(i)' \/ (i \in inv'.list /\ (ToldLate' \/ Telling'))
    BY DEF Gathered, GotKnown, MineList
  <2>1. y \in Going
    <3>1. Ready.kind = "ready" /\ Resume(r, err).request = r
      BY DEF Ready, Resume
    <3>2. x # y
      BY DEF MineList
    <3> QED BY <1>3, <1>4, <1>5, <3>1, <3>2 DEF Going
  <2>2. Settled(i) \/ (i \in inv.list /\ ToldLate)
    BY <1>1, <1>2, <2>1 DEF NamingInv, Gathered, GotKnown
  <2> QED BY <1>1, <1>7, <2>2
<1>10. Bounded'
  <2>1. \A y \in Elems(requests') : y.kind = "list" => y.block <= Blocks
    BY <1>5 DEF NamingInv, Bounded
  <2>2. ASSUME NEW p \in Elems(posts)'
        PROVE  p = Ready \/ (p = Resume(r, err) /\ MineList(r) /\ r.block <= Blocks)
    BY <1>3, <1>4, <2>2 DEF MineList
  <2>3. ~(r.block <= Blocks /\ r.block > Blocks)
    BY <1>3, BlocksOfTable DEF Requests
  <2> QED BY <2>1, <2>2, <2>3 DEF Bounded, Ready, Resume
<1> QED BY <1>4, <1>6, <1>8, <1>9, <1>10 DEF NamingInv

LEMMA MessageNames ==
  ASSUME TypeOK, NamingInv, OnMessage
  PROVE  NamingInv'
<1> DEFINE m == Head(posts)
           r == m.request
<1>1. posts # <<>> /\ m.kind = "message" /\ UNCHANGED <<panel, ready>>
  BY DEF OnMessage
<1>2. r \in Requests /\ m.ids \in IdSets /\ m.err \in Errors
  BY <1>1, HeadPost
<1>3. inv \in InvSet /\ d \in Domain
  BY DEF TypeOK, PanelTyped, d
<1>4. Table \in Requests /\ Table.kind = "table"
  BY RequestTyped DEF Table, Request
<1>5. CASE r.kind = "list" /\ OnList
  <2>1. OnBlock(m) /\ Later /\ UNCHANGED <<named, failed>>
    BY <1>5 DEF OnList
  <2>2. later \subseteq later'
    BY <2>1 DEF Later
  <2> DEFINE partial == ~r.mine /\ d \in Assembled
  <2>3. CASE m.err # "none"
    <3> DEFINE after == IF r.mine THEN <<Resume(r, m.err)>> ELSE <<>>
    <3>1. Emit(after) /\ UNCHANGED <<inv, requests>>
      BY <2>1, <2>3 DEF OnBlock
    <3>2. after = <<>> \/ (MineList(r) /\ m.err # "none" /\ after = <<Resume(r, m.err)>>)
      BY <1>5, <2>3 DEF MineList
    <3> HIDE DEF after
    <3> QED BY <1>1, <1>4, <1>5, <2>1, <2>2, <3>1, <3>2, OtherNames
  <2>4. CASE m.err = "none" /\ partial /\ r.block < Blocks
    <3> DEFINE x == NextBlock(r, m.ids)
    <3>1. requests' = Append(requests, x) /\ Emit(<<>>) /\ UNCHANGED inv
      BY <2>1, <2>4 DEF OnBlock
    <3>2. x \in Requests /\ x.mine = r.mine /\ x.block = r.block + 1
      BY <1>2, NextBlockTyped DEF NextBlock, Requests
    <3>3. ~x.mine /\ x.block <= Blocks
      BY <1>2, <2>4, <3>2, BlocksOfTable DEF Requests
    <3> HIDE DEF x
    <3> QED BY <1>1, <1>5, <2>1, <2>2, <3>1, <3>2, <3>3, OtherNames
  <2>5. CASE m.err = "none" /\ partial /\ ~(r.block < Blocks)
    <3>1. Handle(r, Merge(Append(r.got, m.ids)), <<>>)
      BY <2>1, <2>5 DEF OnBlock
    <3>2. Append(r.got, m.ids) \in Seq(IdSets)
      BY <1>2 DEF Requests
    <3>3. Merge(Append(r.got, m.ids)) \in IdSets
      BY <3>2, MergeTyped
    <3> QED BY <1>1, <1>5, <2>1, <3>1, <3>3, HandleNames
  <2>6. CASE m.err = "none" /\ ~partial
    <3> DEFINE after == IF r.mine THEN <<Resume(NextBlock(r, m.ids), "none")>> ELSE <<>>
    <3>1. Handle(r, m.ids, after)
      BY <2>1, <2>6 DEF OnBlock
    <3>2. after = <<>> \/ (r.mine /\ after = <<Resume(NextBlock(r, m.ids), "none")>>)
      OBVIOUS
    <3> HIDE DEF after
    <3> QED BY <1>1, <1>2, <1>5, <2>1, <3>1, <3>2, HandleNames
  <2> QED BY <2>3, <2>4, <2>5, <2>6
<1>6. CASE r.kind = "table" /\ OnTable
  <2>1. /\ inv' = inv \/ inv' = TableInfo
        /\ Emit(<<>>) /\ UNCHANGED <<requests, named, failed, later>>
    BY <1>6 DEF OnTable, history
  <2>2. /\ inv'.complete = inv.complete /\ inv'.list \subseteq inv.list
        /\ d \notin Waited => inv'.list = inv.list
    BY <1>3, <2>1, TableInfoCases DEF Pruned, Sized, InvSet, Waited, ToldOnce
  <2> QED BY <1>1, <1>4, <1>6, <2>1, <2>2, OtherNames
<1>7. CASE r.kind = "attribs" /\ OnAttribs
  <2> DEFINE i == r.id
  <2>1. /\ Emit(<<>>) /\ UNCHANGED <<requests, later>>
        /\ \/ Store(i)
           \/ Refuse(i)
           \/ RefuseInvalid(i) /\ d \in Waited
    BY <1>7 DEF OnAttribs, AreaGetAttribs, ZoneGetAttribs, OutputGetAttribs, LightGetAttribs,
       LockGetAttribs, BarrierGetAttribs, TstatGetAttribs, UserGetAttribs, KeypadGetAttribs, Waited
  <2>2. i \in Nat
    BY <1>2 DEF Requests
  <2>3. RecordInvalid(i).complete = inv.complete /\ RecordInvalid(i).list \subseteq inv.list
    BY <1>3, <2>2 DEF RecordInvalid, InvSet
  <2>4. /\ inv'.complete = inv.complete /\ inv'.list \subseteq inv.list
        /\ d \notin Waited => inv'.list = inv.list
        /\ named \subseteq named' /\ failed \subseteq failed' /\ i \in named' \cup failed'
    BY <2>1, <2>3 DEF Store, Refuse, RefuseInvalid
  <2> QED BY <1>1, <1>4, <1>7, <2>1, <2>4, OtherNames
<1> QED BY <1>5, <1>6, <1>7 DEF OnMessage

\* A list asked for in order leaves nobody out.
LEMMA SortedCovers ==
  ASSUME NEW ids \in IdSets, NEW s \in Sorted(ids)
  PROVE  Len(s) \in Nat /\ \A i \in ids : \E k \in 1 .. Len(s) : s[k] = i
<1> DEFINE n == Cardinality(ids)
<1>1. n \in Nat /\ IsFiniteSet(ids) /\ ids \subseteq Nat
  BY FS_CardinalityType DEF IdSets
<1>2. s \in [1 .. n -> ids] /\ \A j, k \in 1 .. n : j < k => s[j] < s[k]
  BY <1>1 DEF Sorted
<1>3. Len(s) = n
  BY <1>1, <1>2, FunctionIsSeq
<1>4. s \in Injection(1 .. n, ids)
  <2>1. ASSUME NEW j \in 1 .. n, NEW k \in 1 .. n, s[j] = s[k] PROVE j = k
    <3>1. s[j] \in Nat /\ s[k] \in Nat
      BY <1>1, <1>2
    <3>2. ~(j < k) /\ ~(k < j)
      BY <1>2, <2>1, <3>1
    <3> QED BY <1>1, <3>2
  <2> QED BY <1>2, <2>1 DEF Injection, IsInjective
<1>5. Cardinality(1 .. n) = n
  BY <1>1, FS_Interval
<1>6. s \in Surjection(1 .. n, ids)
  BY <1>1, <1>4, <1>5, FS_Injection
<1> QED BY <1>1, <1>3, <1>6 DEF Surjection

\* A callback other than an answer is taken off the queue: no news is left.
LEMMA NextPost ==
  ASSUME TypeOK, Shape, posts # <<>>, Head(posts).kind # "message", Emit(<<>>)
  PROVE  /\ Shape' /\ ~Telling'
         /\ Elems(posts) = Elems(posts)' \cup {Head(posts)}
<1>1. /\ posts \in Seq(Posts) /\ Len(posts) \in Nat \ {0}
  BY EmptySeq, LenProperties DEF TypeOK, QueuesTyped
<1>2. posts' = Tail(posts)
  <2>1. Tail(posts) \in Seq(Posts)
    BY <1>1, HeadTailProperties
  <2> QED BY <2>1, ConcatEmptySeq DEF Emit
<1>3. /\ posts' \in Seq(Posts) /\ Len(posts') = Len(posts) - 1
      /\ \A k \in 1 .. Len(posts') : posts'[k] = posts[k + 1] /\ k + 1 \in 1 .. Len(posts)
  BY <1>1, <1>2, HeadTailProperties
<1>4. ASSUME NEW k \in 1 .. Len(posts')
      PROVE  posts'[k].kind # "ready" /\ (posts'[k].kind = "message" => k = Len(posts'))
  <2>1. k + 1 # 1 /\ (k + 1 = Len(posts) => k = Len(posts'))
    BY <1>1, <1>3
  <2>2. /\ posts[k + 1].kind = "ready" => k + 1 = 1
        /\ posts[k + 1].kind = "message" => k + 1 = Len(posts)
    BY <1>3 DEF Shape
  <2> QED BY <1>3, <2>1, <2>2
<1>5. Shape'
  BY <1>4 DEF Shape
<1>6. ~Telling'
  <2> SUFFICES ASSUME posts' # <<>> PROVE Head(posts').kind # "ready"
    BY DEF Telling
  <2>1. Len(posts') \in Nat \ {0} /\ Head(posts') = posts'[1]
    BY <1>3, EmptySeq, LenProperties, HeadTailProperties
  <2>2. 1 \in 1 .. Len(posts')
    BY <2>1
  <2> QED BY <1>4, <2>1, <2>2
<1>7. Elems(posts) = Elems(Tail(posts)) \cup {Head(posts)}
  BY <1>1, ElemsHeadTail
<1> QED BY <1>2, <1>5, <1>6, <1>7

LEMMA AttribsAreGoing ==
  ASSUME TypeOK, NEW ids \in IdSets, NEW s \in Sorted(ids)
  PROVE  /\ \A r \in Elems(AttribsOf(s)) : r.kind = "attribs"
         /\ \A i \in ids : \E r \in Elems(AttribsOf(s)) : r.kind = "attribs" /\ r.id = i
<1>1. Len(s) \in Nat /\ \A i \in ids : \E k \in 1 .. Len(s) : s[k] = i
  BY SortedCovers
<1>2. Len(AttribsOf(s)) = Len(s) /\ \A k \in 1 .. Len(s) : AttribsOf(s)[k] = Attribs(s[k])
  BY <1>1 DEF AttribsOf
<1>3. \A i : Attribs(i).kind = "attribs" /\ Attribs(i).id = i
  BY DEF Attribs, Request
<1>4. \A k \in 1 .. Len(s) : AttribsOf(s)[k] \in Elems(AttribsOf(s))
  BY <1>2 DEF Elems
<1>5. \A r \in Elems(AttribsOf(s)) : \E k \in 1 .. Len(s) : r = Attribs(s[k])
  BY <1>2 DEF Elems
<1> QED BY <1>1, <1>2, <1>3, <1>4, <1>5

\* The client hears of the list: it asks for all of it, or has heard of it before.
LEMMA ReadyNames ==
  ASSUME TypeOK, NamingInv, OnReady
  PROVE  NamingInv'
<1>1. /\ posts # <<>> /\ Head(posts).kind = "ready" /\ Emit(<<>>) /\ ready'
      /\ UNCHANGED <<panel, inv, named, failed>>
  BY OnReadyCases
<1>2. d' = d /\ (ToldLate' <=> ToldLate)
  BY <1>1 DEF d, ToldLate
<1>3. Telling /\ inv.complete /\ inv.list \in IdSets
  BY <1>1 DEF Telling, NamingInv, Announced, TypeOK, InvSet
<1>4. Shape' /\ ~Telling' /\ Elems(posts) = Elems(posts)' \cup {Head(posts)}
  BY <1>1, NextPost DEF NamingInv
<1>5. requests \in Seq(Requests) /\ Elems(requests) \subseteq Requests /\ Elems(posts) \subseteq Posts
  BY GoingTyped DEF TypeOK, QueuesTyped
<1>6. Elems(requests) \subseteq Elems(requests') /\ \A r \in Elems(requests') :
         r \in Elems(requests) \/ r.kind = "attribs"
  <2>1. ASSUME NEW s \in Sorted(inv.list)
        PROVE  /\ Elems(requests \o AttribsOf(s)) = Elems(requests) \cup Elems(AttribsOf(s))
               /\ \A r \in Elems(AttribsOf(s)) : r.kind = "attribs"
    <3>1. AttribsOf(s) \in Seq(Requests)
      BY <1>3, AttribsOfTyped
    <3> QED BY <1>3, <1>5, <3>1, ElemsConcat, AttribsAreGoing
  <2>2. requests' = requests \/ \E s \in Sorted(inv.list) : requests' = requests \o AttribsOf(s)
    BY OnReadyCases
  <2> QED BY <2>1, <2>2
<1>7. ~(d \in Waited /\ ready) => /\ later' = later \ inv.list
                                  /\ \A i \in inv.list : \E r \in Going' : r.kind = "attribs" /\ r.id = i
  <2> SUFFICES ASSUME ~(d \in Waited /\ ready)
               PROVE  /\ later' = later \ inv.list
                      /\ \A i \in inv.list : \E r \in Elems(requests') : r.kind = "attribs" /\ r.id = i
    BY DEF Going
  <2>1. PICK s \in Sorted(inv.list) : requests' = requests \o AttribsOf(s)
    BY OnReadyCases
  <2>2. AttribsOf(s) \in Seq(Requests)
    BY <1>3, AttribsOfTyped
  <2>3. Elems(requests') = Elems(requests) \cup Elems(AttribsOf(s))
    BY <1>5, <2>1, <2>2, ElemsConcat
  <2>4. \A i \in inv.list : \E r \in Elems(AttribsOf(s)) : r.kind = "attribs" /\ r.id = i
    BY <1>3, AttribsAreGoing
  <2>5. later' = later \ inv.list
    BY OnReadyCases
  <2> QED BY <2>3, <2>4, <2>5
<1>8. Going \subseteq Going' /\ \A r \in Going' : r \in Going \/ r.kind = "attribs"
  BY <1>1, <1>4, <1>6 DEF Going
<1>9. ASSUME NEW i, Settled(i) PROVE Settled(i)'
  <2>1. \A k \in later : k \in later' \/ \E s \in Going' : s.kind = "attribs" /\ s.id = k
    BY <1>7, OnReadyCases
  <2> QED BY <1>1, <1>2, <1>8, <1>9, <2>1, SettledStays
<1>10. \A i \in inv.list : Settled(i)'
  <2>1. CASE d \in Waited /\ ready
    BY <1>3, <1>9, <2>1 DEF NamingInv, Listed, WillAsk
  <2>2. CASE ~(d \in Waited /\ ready)
    BY <1>7, <2>2 DEF Settled, Asked
  <2> QED BY <2>1, <2>2
<1>11. Announced' /\ Listed'
  BY <1>1, <1>3, <1>10 DEF Announced, Listed
<1>12. Gathered'
  <2> SUFFICES ASSUME d' \notin Waited, NEW x \in Going', MineList(x), NEW i \in Joined(x.got)
               PROVE  Settled(i)'
    BY DEF Gathered, GotKnown, MineList
  <2>1. x \in Going
    BY <1>8 DEF MineList
  <2>2. Settled(i) \/ i \in inv.list
    BY <1>2, <2>1 DEF NamingInv, Gathered, GotKnown
  <2> QED BY <1>9, <1>10, <2>2
<1>13. Bounded'
  <2>1. \A y \in Elems(requests)' : y.kind = "list" => y.block <= Blocks
    BY <1>6 DEF NamingInv, Bounded
  <2>2. Elems(posts)' \subseteq Elems(posts)
    BY <1>4
  <2> QED BY <1>1, <2>1, <2>2 DEF NamingInv, Bounded
<1> QED BY <1>4, <1>11, <1>12, <1>13 DEF NamingInv

\* The call's task goes on: what it puts on the list is heard of, or comes later.
LEMMA ResumeNames ==
  ASSUME TypeOK, NamingInv, OnResume
  PROVE  NamingInv'
<1> DEFINE p == Head(posts)
           r == p.request
           x == Attribs(call.attribs)
<1>1. /\ posts # <<>> /\ p.kind = "resume" /\ Emit(<<>>) /\ Later
      /\ UNCHANGED <<panel, ready, named, failed>>
  BY DEF OnResume
<1>2. d' = d /\ (ToldLate' <=> ToldLate)
  BY <1>1 DEF d, ToldLate
<1>3. /\ Shape' /\ ~Telling' /\ Elems(posts) = Elems(posts)' \cup {p}
  BY <1>1, NextPost DEF NamingInv
<1>4. ~Telling /\ (inv.complete <=> ready)
  BY <1>1 DEF NamingInv, Announced, Telling
<1>5. requests \in Seq(Requests) /\ r \in Requests /\ inv \in InvSet /\ d \in Domain
  BY <1>1, HeadPost DEF TypeOK, QueuesTyped, PanelTyped, d
<1>6. /\ MineList(r) /\ r \in Going
      /\ p.err # "none" => r.block <= Blocks
      /\ r.block > Blocks => inv.complete
  BY <1>1, <1>3 DEF NamingInv, Bounded, Going
<1>7. \A k \in 1 .. Top : Attribs(k) \in Requests
  BY RequestTyped, InventoryBounds
<1>8. /\ \/ requests' = requests
         \/ requests' = Append(requests, r) /\ r.block <= Blocks
         \/ requests' = Append(requests, x) /\ x \in Requests /\ x.kind = "attribs"
      /\ \/ inv' = inv
         \/ /\ inv.complete
            /\ d \notin ToldOnce
            /\ inv' = [inv EXCEPT !.list = ClientMerge(r.got), !.complete = TRUE]
  <2>1. CASE p.err = "busy" \/ (p.err = "none" /\ r.block <= Blocks)
    <3>1. r.block <= Blocks /\ ~(r.block > Blocks)
      BY <1>5, <1>6, <2>1, BlocksOfTable DEF Requests
    <3>2. p.err # "error"
      BY <2>1
    <3> QED BY <3>1, <3>2 DEF OnResume
  <2>2. CASE p.err = "error"
    BY <2>2 DEF OnResume
  <2>3. CASE p.err = "none" /\ r.block > Blocks
    <3>1. /\ requests' = IF call.attribs = 0 THEN requests ELSE Append(requests, x)
          /\ Prefetched(r)
      <4>1. ~(r.block <= Blocks)
        BY <1>5, <2>3, BlocksOfTable DEF Requests
      <4> QED BY <2>3, <4>1 DEF OnResume
    <3>2. call.attribs # 0 => x \in Requests
      BY <1>7, InventoryBounds DEF TypeOK, ClientTyped
    <3>3. x.kind = "attribs"
      BY DEF Attribs, Request
    <3>4. inv' = inv \/ (d \notin ToldOnce /\ inv' = [inv EXCEPT !.list = ClientMerge(r.got), !.complete = TRUE])
      BY <3>1 DEF Prefetched
    <3> HIDE DEF x
    <3> QED BY <1>6, <2>3, <3>1, <3>2, <3>3, <3>4
  <2> QED BY <2>1, <2>2, <2>3 DEF OnResume
<1> HIDE DEF x
<1>9. /\ Elems(requests) \subseteq Elems(requests')
      /\ \A y \in Elems(requests') :
            y \in Elems(requests) \/ (y = r /\ r.block <= Blocks) \/ y.kind = "attribs"
  <2>1. \A y \in Requests : Elems(Append(requests, y)) = Elems(requests) \cup {y}
    BY <1>5, ElemsAppend
  <2> QED BY <1>5, <1>8, <2>1
<1>10. /\ \A y \in Going : y.kind = "attribs" => y \in Going'
       /\ \A y \in Going' : y \in Going \/ y.kind = "attribs"
  BY <1>3, <1>6, <1>9 DEF Going, MineList
<1>11. ASSUME NEW i, Settled(i) PROVE Settled(i)'
  <2>1. later \subseteq later'
    BY <1>1 DEF Later
  <2> QED BY <1>1, <1>2, <1>10, <1>11, <2>1, SettledStays
<1>12. \A i \in inv.list : inv.complete => Settled(i)
  BY <1>4 DEF NamingInv, Listed, WillAsk
<1>13. /\ inv'.complete = inv.complete
       /\ inv'.list = inv.list \/ (inv.complete /\ d \notin ToldOnce /\ inv'.list = Joined(r.got))
  BY <1>5, <1>8 DEF InvSet, ClientMerge, ToldOnce
<1>14. Listed'
  <2> SUFFICES ASSUME inv.complete, NEW i \in inv'.list PROVE Settled(i)'
    BY <1>13 DEF Listed
  <2>1. CASE i \in inv.list
    BY <1>11, <1>12, <2>1
  <2>2. CASE i \notin inv.list /\ d \in Waited
    <3>1. i \in later'
      BY <1>1, <1>4, <2>2 DEF Later
    <3> QED BY <1>2, <2>2, <3>1 DEF Settled, ToldLate
  <2>3. CASE i \notin inv.list /\ d \notin Waited
    <3>1. i \in Joined(r.got)
      BY <1>13, <2>3
    <3>2. Settled(i)
      BY <1>6, <2>3, <3>1 DEF NamingInv, Gathered, GotKnown
    <3> QED BY <1>11, <3>2
  <2> QED BY <2>1, <2>2, <2>3
<1>15. Gathered'
  <2> SUFFICES ASSUME d' \notin Waited, NEW y \in Going', MineList(y), NEW i \in Joined(y.got)
               PROVE  Settled(i)' \/ (i \in inv'.list /\ (ToldLate' \/ Telling'))
    BY DEF Gathered, GotKnown, MineList
  <2>1. Settled(i) \/ (i \in inv.list /\ ToldLate)
    <3>1. y \in Going
      BY <1>10 DEF MineList
    <3> QED BY <1>2, <1>4, <3>1 DEF NamingInv, Gathered, GotKnown
  <2> QED BY <1>2, <1>11, <1>12, <1>13, <2>1
<1>16. Announced'
  BY <1>1, <1>3, <1>4, <1>13 DEF Announced
<1>17. Bounded'
  <2>1. \A y \in Elems(requests)' : y.kind = "list" => y.block <= Blocks
    BY <1>9 DEF NamingInv, Bounded
  <2>2. Elems(posts)' \subseteq Elems(posts)
    BY <1>3
  <2> QED BY <1>13, <2>1, <2>2 DEF NamingInv, Bounded
<1> QED BY <1>3, <1>14, <1>15, <1>16, <1>17 DEF NamingInv

LEMMA PairElems ==
  ASSUME NEW S, NEW a \in S, NEW b \in S
  PROVE  <<a, b>> \in Seq(S) /\ Elems(<<a, b>>) = {a, b}
<1> DEFINE q == <<a, b>>
<1>1. q \in Seq(S) /\ Len(q) = 2 /\ q[1] = a /\ q[2] = b
  OBVIOUS
<1>2. \A k \in 1 .. 2 : k = 1 \/ k = 2
  OBVIOUS
<1> HIDE DEF q
<1>3. Elems(q) = {a, b}
  BY <1>1, <1>2 DEF Elems
<1> QED BY <1>1, <1>3 DEF q

\* More requests are queued.
LEMMA AppCallsNames ==
  ASSUME TypeOK, NamingInv, AppCalls
  PROVE  NamingInv'
<1>1. UNCHANGED <<panel, inv, ready, posts, named, failed, later>>
  BY DEF AppCalls, history
<1>2. d' = d /\ (ToldLate' <=> ToldLate) /\ (Telling' <=> Telling) /\ (WillAsk' <=> WillAsk)
  BY <1>1 DEF d, ToldLate, Telling, WillAsk
<1>3. requests \in Seq(Requests) /\ inv.list \in IdSets /\ 1 <= Blocks
  BY BlocksOfTable DEF TypeOK, QueuesTyped, InvSet
<1> DEFINE Fresh(y) == y.kind = "list" => y.got = <<>> /\ y.block <= Blocks
<1>4. /\ \A i \in 1 .. Top : Attribs(i) \in Requests
      /\ Table \in Requests /\ List(TRUE) \in Requests /\ List(FALSE) \in Requests
  <2>1. \A i \in 1 .. Top : i \in Nat \ {0}
    BY InventoryBounds
  <2> QED BY <2>1, RequestTyped
<1>5. /\ \A i : Fresh(Attribs(i))
      /\ Fresh(Table) /\ Fresh(List(TRUE)) /\ Fresh(List(FALSE))
  BY <1>3 DEF Table, List, Attribs, Request
<1>6. \A y \in Requests : Elems(Append(requests, y)) = Elems(requests) \cup {y}
  BY <1>3, ElemsAppend
<1>7. Elems(requests) \subseteq Elems(requests') /\ \A y \in Elems(requests') : y \in Elems(requests) \/ Fresh(y)
  <2>1. ASSUME NEW s \in Sorted(IF d = "zone" THEN inv.list ELSE {}),
               requests' = requests \o (<<Table, List(FALSE)>> \o AttribsOf(s))
        PROVE  Elems(requests) \subseteq Elems(requests') /\ \A y \in Elems(requests') : y \in Elems(requests) \/ Fresh(y)
    <3>1. (IF d = "zone" THEN inv.list ELSE {}) \in IdSets
      BY <1>3, IdSetsClosed
    <3>2. AttribsOf(s) \in Seq(Requests) /\ \A y \in Elems(AttribsOf(s)) : y.kind = "attribs"
      BY <3>1, AttribsOfTyped, AttribsAreGoing
    <3> DEFINE a == <<Table, List(FALSE)>>
    <3>3. a \in Seq(Requests) /\ Elems(a) = {Table, List(FALSE)}
      BY <1>4, PairElems
    <3> HIDE DEF a
    <3>4. a \o AttribsOf(s) \in Seq(Requests) /\ Elems(a \o AttribsOf(s)) = Elems(a) \cup Elems(AttribsOf(s))
      BY <3>2, <3>3, ElemsConcat
    <3>5. \A q, more \in Seq(Requests) : Elems(q \o more) = Elems(q) \cup Elems(more)
      BY ElemsConcat
    <3>6. requests' = requests \o (a \o AttribsOf(s))
      BY <2>1 DEF a
    <3>7. \A y \in Elems(a \o AttribsOf(s)) : Fresh(y)
      <4>1. \A y \in Elems(AttribsOf(s)) : Fresh(y)
        BY <3>2
      <4> HIDE DEF Fresh
      <4> QED BY <1>5, <3>3, <3>4, <4>1
    <3>8. Elems(requests') = Elems(requests) \cup Elems(a \o AttribsOf(s))
      BY <1>3, <3>4, <3>5, <3>6
    <3> HIDE DEF Fresh
    <3> QED BY <3>7, <3>8
  <2>2. \/ \E s \in Sorted(IF d = "zone" THEN inv.list ELSE {}) :
              requests' = requests \o (<<Table, List(FALSE)>> \o AttribsOf(s))
        \/ \E y \in Requests : Fresh(y) /\ requests' = Append(requests, y)
    <3>1. ASSUME \E more \in RefreshConfig : requests' = requests \o more
          PROVE  \E s \in Sorted(IF d = "zone" THEN inv.list ELSE {}) :
                    requests' = requests \o (<<Table, List(FALSE)>> \o AttribsOf(s))
      BY <3>1 DEF RefreshConfig
    <3>2. ASSUME NEW i \in 1 .. Top, requests' \in {Append(requests, List(TRUE)), Append(requests, Attribs(i))}
          PROVE  \E y \in Requests : Fresh(y) /\ requests' = Append(requests, y)
      <4> HIDE DEF Fresh
      <4> QED BY <1>4, <1>5, <3>2
    <3>3. requests' \in {Append(requests, Table), Append(requests, List(TRUE))} =>
             \E y \in Requests : Fresh(y) /\ requests' = Append(requests, y)
      <4> HIDE DEF Fresh
      <4> QED BY <1>4, <1>5
    <3> HIDE DEF Fresh
    <3> QED BY <3>1, <3>2, <3>3 DEF AppCalls
  <2> HIDE DEF Fresh
  <2> QED BY <1>6, <2>1, <2>2
<1>8. Going \subseteq Going' /\ \A y \in Going' : y \in Going \/ Fresh(y)
  <2> HIDE DEF Fresh
  <2> QED BY <1>1, <1>7 DEF Going
<1>9. ASSUME NEW i, Settled(i) PROVE Settled(i)'
  BY <1>1, <1>2, <1>8, <1>9, SettledStays
<1>10. Shape' /\ Announced' /\ Listed'
  BY <1>1, <1>2, <1>9 DEF NamingInv, Shape, Announced, Listed
<1>11. Gathered'
  <2> SUFFICES ASSUME d' \notin Waited, NEW y \in Going', MineList(y), NEW i \in Joined(y.got)
               PROVE  Settled(i)' \/ (i \in inv'.list /\ (ToldLate' \/ Telling'))
    BY DEF Gathered, GotKnown, MineList
  <2>1. y \in Going
    <3>1. y.got # <<>>
      BY DEF Joined, Range
    <3> QED BY <1>8, <3>1 DEF MineList
  <2> QED BY <1>1, <1>2, <1>9, <2>1 DEF NamingInv, Gathered, GotKnown
<1>12. Bounded'
  BY <1>1, <1>7 DEF NamingInv, Bounded
<1> QED BY <1>10, <1>11, <1>12 DEF NamingInv

\* The panel's answer takes the request's place.
LEMMA AnswersNames ==
  ASSUME TypeOK, NamingInv, PanelAnswers
  PROVE  NamingInv'
<1> DEFINE r == Head(requests)
<1>1. /\ requests # <<>> /\ requests' = Tail(requests)
      /\ UNCHANGED <<panel, inv, ready, named, failed, later>>
      /\ \A p \in Range(posts) : p.kind # "message"
      /\ \E err, ids : posts' = Append(posts, Message(r, err, ids))
  BY DEF PanelAnswers, history
<1>2. PICK err, ids : posts' = Append(posts, Message(r, err, ids))
  BY <1>1
<1> DEFINE m == Message(r, err, ids)
<1>3. m.kind = "message" /\ m.request = r
  BY DEF Message
<1> HIDE DEF m
<1>4. posts' = Append(posts, m)
  BY <1>2 DEF m
<1>5. requests \in Seq(Requests) /\ posts \in Seq(Posts) /\ Len(posts) \in Nat
  BY LenProperties DEF TypeOK, QueuesTyped
<1>6. Elems(requests) = Elems(requests)' \cup {r}
  <2>1. Elems(requests) = Elems(Tail(requests)) \cup {r}
    BY <1>1, <1>5, ElemsHeadTail
  <2> QED BY <1>1, <2>1
<1>7. /\ Len(posts') = Len(posts) + 1 /\ posts'[Len(posts) + 1] = m
      /\ \A k \in 1 .. Len(posts) : posts'[k] = posts[k]
  BY <1>4, <1>5, AppendProperties
<1>8. Elems(posts)' = Elems(posts) \cup {m}
  <2>1. posts \in Seq(Posts \cup {m}) /\ m \in Posts \cup {m}
    BY <1>5
  <2>2. \A S : \A q \in Seq(S) : \A y \in S : Elems(Append(q, y)) = Elems(q) \cup {y}
    BY ElemsAppend
  <2> QED BY <1>4, <2>1, <2>2
<1>9. Shape'
  <2>1. \A k \in 1 .. Len(posts) : posts[k].kind # "message" /\ (posts[k].kind = "ready" => k = 1)
    BY <1>1, <1>5 DEF Range, NamingInv, Shape
  <2>2. \A k \in 1 .. Len(posts') : k \in 1 .. Len(posts) \/ k = Len(posts')
    BY <1>5, <1>7
  <2> QED BY <1>3, <1>7, <2>1, <2>2 DEF Shape
<1>10. Telling' <=> Telling
  <2>1. posts' # <<>> /\ Head(posts') = IF posts = <<>> THEN m ELSE Head(posts)
    <3>1. CASE posts = <<>>
      <4>1. posts' = <<m>>
        BY <1>4, <3>1
      <4> QED BY <3>1, <4>1
    <3>2. CASE posts # <<>>
      BY <1>4, <1>5, <3>2, HeadTailProperties, AppendProperties, EmptySeq
    <3> QED BY <3>1, <3>2
  <2> QED BY <1>3, <2>1 DEF Telling
<1>11. d' = d /\ (ToldLate' <=> ToldLate) /\ (WillAsk' <=> WillAsk)
  BY <1>1, <1>10 DEF d, ToldLate, WillAsk
<1>12. Going' = Going
  BY <1>3, <1>6, <1>8 DEF Going
<1>13. \A i : Settled(i)' <=> Settled(i)
  BY <1>1, <1>11, <1>12 DEF Settled, Asked
<1>14. Announced' /\ Listed' /\ Gathered'
  BY <1>1, <1>10, <1>11, <1>12, <1>13 DEF NamingInv, Announced, Listed, Gathered, GotKnown, MineList
<1>15. Bounded'
  <2>1. Elems(requests)' \subseteq Elems(requests) /\ r \in Elems(requests)
    BY <1>6
  <2> QED BY <1>1, <1>3, <1>8, <2>1 DEF NamingInv, Bounded
<1> QED BY <1>9, <1>14, <1>15 DEF NamingInv

\* An edit of the panel only changes what the requests have seen.
LEMMA EditsNames ==
  ASSUME TypeOK, NamingInv, PanelEdits
  PROVE  NamingInv'
<1>1. PICK ids \in SUBSET Ids :
         /\ panel' = [panel EXCEPT !.ids = ids]
         /\ Len(requests') = Len(requests)
         /\ \A k \in 1 .. Len(requests) : requests'[k] = See(requests[k], ids)
         /\ Len(posts') = Len(posts) /\ posts' \in Seq(Posts)
         /\ \A k \in 1 .. Len(posts) :
              IF posts[k].kind = "ready" THEN posts'[k] = posts[k]
              ELSE posts'[k] = [posts[k] EXCEPT !.request = See(@, ids)]
  BY EditCases
<1>2. UNCHANGED <<inv, ready, named, failed, later>>
  BY DEF PanelEdits
<1>3. posts \in Seq(Posts) /\ requests \in Seq(Requests) /\ Len(posts) \in Nat
  BY LenProperties DEF TypeOK, QueuesTyped
<1>4. \A y \in Requests : /\ See(y, ids).kind = y.kind /\ See(y, ids).id = y.id
                          /\ See(y, ids).mine = y.mine /\ See(y, ids).block = y.block
                          /\ See(y, ids).got = y.got
  BY DEF See, Requests
<1>5. \A k \in 1 .. Len(posts) : /\ posts'[k].kind = posts[k].kind
                                 /\ posts[k].kind # "ready" =>
                                      /\ posts'[k].request = See(posts[k].request, ids)
                                      /\ posts'[k].err = posts[k].err
                                      /\ posts[k].request \in Requests
  <2> SUFFICES ASSUME NEW k \in 1 .. Len(posts)
               PROVE  /\ posts'[k].kind = posts[k].kind
                      /\ posts[k].kind # "ready" =>
                                      /\ posts'[k].request = See(posts[k].request, ids)
                                      /\ posts'[k].err = posts[k].err
                                      /\ posts[k].request \in Requests
    OBVIOUS
  <2>1. posts[k] \in Posts
    BY <1>3, ElementOfSeq
  <2> DEFINE p == posts[k]
  <2>2. IF p.kind = "ready" THEN posts'[k] = p ELSE posts'[k] = [p EXCEPT !.request = See(@, ids)]
    BY <1>1
  <2>3. p \in Posts
    BY <2>1
  <2> HIDE DEF p
  <2>4. p.kind # "ready" => /\ [p EXCEPT !.request = See(@, ids)].kind = p.kind
                            /\ [p EXCEPT !.request = See(@, ids)].request = See(p.request, ids)
                            /\ [p EXCEPT !.request = See(@, ids)].err = p.err
                            /\ p.request \in Requests
    BY <2>3 DEF Posts
  <2>5. /\ posts'[k].kind = p.kind
        /\ p.kind # "ready" => /\ posts'[k].request = See(p.request, ids)
                               /\ posts'[k].err = p.err /\ p.request \in Requests
    BY <2>2, <2>4
  <2> QED BY <2>5 DEF p
<1>6. Shape'
  BY <1>1, <1>5 DEF NamingInv, Shape
<1>7. Telling' <=> Telling
  <2>1. posts' # <<>> <=> posts # <<>>
    BY <1>1, <1>3, EmptySeq
  <2>2. posts # <<>> => /\ Head(posts) = posts[1] /\ Head(posts') = posts'[1]
                        /\ 1 \in 1 .. Len(posts)
    BY <1>1, <1>3, <2>1, HeadTailProperties, EmptySeq
  <2> QED BY <1>5, <2>1, <2>2 DEF Telling
<1>8. d' = d /\ (ToldLate' <=> ToldLate) /\ (WillAsk' <=> WillAsk)
  <2>1. d' = d
    BY <1>1 DEF d, TypeOK, PanelTyped
  <2> QED BY <1>2, <1>7, <2>1 DEF ToldLate, WillAsk
<1>9. /\ \A k \in 1 .. Len(requests) : requests[k] \in Requests /\ requests'[k] = See(requests[k], ids)
      /\ Elems(requests)' = {See(y, ids) : y \in Elems(requests)}
  <2>1. \A k \in 1 .. Len(requests) : requests[k] \in Requests
    BY <1>3, ElementOfSeq
  <2> QED BY <1>1, <2>1 DEF Elems
<1>10. Going \subseteq Requests
  BY GoingTyped
<1>11. /\ \A y \in Going' : \E z \in Going : y = See(z, ids)
       /\ \A z \in Going : See(z, ids) \in Going'
  <2>1. \A p \in Elems(posts)' : p.kind # "ready" =>
            \E q \in Elems(posts) : q.kind # "ready" /\ p.request = See(q.request, ids)
    BY <1>1, <1>5 DEF Elems
  <2>2. \A q \in Elems(posts) : q.kind # "ready" =>
            \E p \in Elems(posts)' : p.kind # "ready" /\ p.request = See(q.request, ids)
    BY <1>1, <1>5 DEF Elems
  <2> QED BY <1>9, <2>1, <2>2 DEF Going
<1>12. ASSUME NEW i, Settled(i) PROVE Settled(i)'
  <2>1. \A y \in Going : y.kind = "attribs" =>
           \E s \in Going' : s.kind = "attribs" /\ s.id = y.id
    BY <1>4, <1>10, <1>11
  <2> QED BY <1>2, <1>8, <1>12, <2>1, SettledStays
<1>13. Announced' /\ Listed'
  BY <1>2, <1>7, <1>8, <1>12 DEF NamingInv, Announced, Listed
<1>14. Gathered'
  <2> SUFFICES ASSUME d' \notin Waited, NEW y \in Going', MineList(y), NEW i \in Joined(y.got)
               PROVE  Settled(i)' \/ (i \in inv'.list /\ (ToldLate' \/ Telling'))
    BY DEF Gathered, GotKnown, MineList
  <2>1. PICK z \in Going : y = See(z, ids)
    BY <1>11
  <2>2. MineList(z) /\ i \in Joined(z.got)
    BY <1>4, <1>10, <2>1 DEF MineList
  <2>3. Settled(i) \/ (i \in inv.list /\ (ToldLate \/ Telling))
    BY <1>8, <2>2 DEF NamingInv, Gathered, GotKnown
  <2> QED BY <1>2, <1>7, <1>8, <1>12, <2>3
<1>15. Bounded'
  <2>1. \A y \in Elems(requests)' : y.kind = "list" => y.block <= Blocks
    <3>1. Elems(requests) \subseteq Requests
      BY GoingTyped
    <3> QED BY <1>4, <1>9, <3>1 DEF NamingInv, Bounded
  <2>2. \A p \in Elems(posts)' : p.kind # "ready" =>
           \E q \in Elems(posts) : /\ p.kind = q.kind /\ p.err = q.err
                                   /\ q.request \in Requests /\ p.request = See(q.request, ids)
    BY <1>1, <1>5 DEF Elems
  <2>3. ASSUME NEW p \in Elems(posts)'
        PROVE  /\ p.kind = "message" /\ p.request.kind = "list" => p.request.block <= Blocks
               /\ p.kind = "resume" => /\ MineList(p.request)
                                       /\ p.err # "none" => p.request.block <= Blocks
                                       /\ p.request.block > Blocks => inv.complete
    BY <1>4, <2>2, <2>3 DEF NamingInv, Bounded, MineList
  <2> QED BY <1>2, <2>1, <2>3 DEF Bounded
<1> QED BY <1>6, <1>13, <1>14, <1>15 DEF NamingInv

\* A session starts with nothing listed, and asks for its lists.
LEMMA AtStartNames ==
  ASSUME NEW i, i = NoInventory, NEW rs, rs = Bootstrap
  PROVE  /\ ~i.complete
         /\ \A y \in Elems(rs) : ~MineList(y) /\ (y.kind = "list" => y.block <= Blocks)
<1>1. Table.kind = "table" /\ ~List(FALSE).mine /\ List(FALSE).block = 1
  BY DEF Table, List, Request
<1>2. \A q : Elems(<<>>) = {} /\ Elems(<<q>>) = {q}
  BY DEF Elems
<1>3. /\ <<>> \o <<>> = <<>>
      /\ \A q : <<>> \o <<q>> = <<q>> /\ <<q>> \o <<>> = <<q>>
      /\ <<Table>> \o <<List(FALSE)>> = <<Table, List(FALSE)>>
      /\ Elems(<<Table, List(FALSE)>>) = {Table, List(FALSE)}
  <2> DEFINE a == Table
             b == List(FALSE)
  <2>1. a \in {a, b} /\ b \in {a, b}
    OBVIOUS
  <2>2. \A q : <<q>> \in Seq({q}) /\ <<>> \in Seq({q})
    OBVIOUS
  <2>3. \A S : \A q \in Seq(S) : <<>> \o q = q /\ q \o <<>> = q
    BY ConcatEmptySeq
  <2>4. \A q : <<>> \o <<q>> = <<q>> /\ <<q>> \o <<>> = <<q>>
    BY <2>2, <2>3
  <2>5. <<>> \o <<>> = <<>>
    BY <2>2, <2>3
  <2> HIDE DEF a, b
  <2>6. <<a, b>> \in Seq({a, b}) /\ <<a>> \in Seq({a, b}) /\ <<b>> \in Seq({a, b})
    BY <2>1
  <2>7. <<>> \o (<<a>> \o <<b>>) = <<a, b>> /\ Elems(<<a, b>>) = {a, b}
    BY <2>1, FewJoined, PairElems
  <2>8. <<a>> \o <<b>> \in Seq({a, b})
    BY <2>6, ConcatProperties
  <2>9. <<a>> \o <<b>> = <<a, b>>
    BY <2>3, <2>7, <2>8
  <2> QED BY <2>4, <2>5, <2>7, <2>9 DEF a, b
<1>4. Elems(Bootstrap) \subseteq {Table, List(FALSE)}
  <2> DEFINE a == Table
             b == List(FALSE)
  <2>1. Bootstrap \in {<<>> \o <<>>, <<a>> \o <<>>, <<>> \o <<b>>, <<a>> \o <<b>>}
    BY DEF Bootstrap
  <2>2. Bootstrap \in {<<>>, <<a>>, <<b>>, <<a, b>>} /\ Elems(<<a, b>>) = {a, b}
    BY <1>3, <2>1
  <2> HIDE DEF a, b
  <2>3. Elems(Bootstrap) \subseteq {a, b}
    BY <1>2, <2>2
  <2> QED BY <2>3 DEF a, b
<1>5. 1 <= Blocks
  BY BlocksOfTable
<1> QED BY <1>1, <1>4, <1>5 DEF MineList, NoInventory

LEMMA NamingInit == Init => NamingInv
<1> SUFFICES ASSUME Init PROVE NamingInv
  OBVIOUS
<1>1. posts = <<>> /\ inv = NoInventory /\ ~ready /\ requests = Bootstrap
  BY DEF Init
<1>2. /\ ~inv.complete
      /\ \A y \in Elems(requests) : ~MineList(y) /\ (y.kind = "list" => y.block <= Blocks)
  BY <1>1, AtStartNames
<1>3. Elems(posts) = {} /\ Len(posts) = 0
  BY <1>1, ElemsEmpty
<1> QED BY <1>1, <1>2, <1>3
        DEF NamingInv, Shape, Announced, Listed, Gathered, Bounded, Telling, Going

LEMMA ReconnectNames ==
  ASSUME TypeOK, Reconnect
  PROVE  NamingInv'
<1>1. posts' = <<>> /\ inv' = NoInventory /\ ~ready' /\ requests' = Bootstrap /\ panel' = panel
  BY DEF Reconnect
<1>2. /\ ~inv'.complete
      /\ \A y \in Elems(requests') : ~MineList(y) /\ (y.kind = "list" => y.block <= Blocks)
  BY <1>1, AtStartNames
<1>3. Elems(posts)' = {} /\ Len(posts') = 0
  BY <1>1, ElemsEmpty
<1> QED BY <1>1, <1>2, <1>3
        DEF NamingInv, Shape, Announced, Listed, Gathered, Bounded, Telling, Going, MineList

\* Nobody on a complete list goes unread once all is quiet: an answer is only handled
\* when the client has heard of every list before it, so whoever a list brings is asked
\* for when the client hears of it, or is one the client is told of too late.
THEOREM EveryoneAsked == Spec => []EveryoneIsNamed
<1>1. TypeOK /\ NamingInv /\ [Next]_vars => NamingInv'
  <2> SUFFICES ASSUME TypeOK, NamingInv, [Next]_vars PROVE NamingInv'
    OBVIOUS
  <2>1. CASE UNCHANGED vars
    BY <2>1 DEF vars, history, NamingInv, Shape, Announced, Listed, Gathered, Bounded, Telling,
       WillAsk, GotKnown, Settled, Asked, ToldLate, Going, MineList, d
  <2> QED BY <2>1, MessageNames, ReadyNames, ResumeNames, AppCallsNames, AnswersNames,
             EditsNames, ReconnectNames DEF Next
<1> QED BY <1>1, NamingInit, NamedAtRest, TypeCorrect, PTL DEF Spec
=============================================================================
