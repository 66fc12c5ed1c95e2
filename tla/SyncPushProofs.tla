--------------------------- MODULE SyncPushProofs ---------------------------
(***************************************************************************)
(* The field-level merge of syncPush.ts, for every document and every      *)
(* number of concurrent requests.  First what the merge computes, then     *)
(* what the endpoint keeps: nothing is assumed of the clocks, so that the  *)
(* merge is skipped on equal stamps bounds what is kept.                   *)
(***************************************************************************)
EXTENDS SyncPush, TLAPS

(* A push, merged and stored.                                              *)
Push(base, client, s) == Stored(s, ThreeWayMerge(base, client, s))

(* The merge of two clients is disjoint: no field is changed by both.      *)
Disjoint(base, c, d) == \A k \in Fields : ~(Changed(base, c, k) /\ Changed(base, d, k))

LEMMA MergeValue ==
  ASSUME NEW base \in Docs, NEW client \in Docs, NEW s \in Docs, NEW k \in Fields
  PROVE  ThreeWayMerge(base, client, s)[k] =
           IF Changed(base, client, k) /\ ~(Changed(base, s, k) /\ Same(client[k], s[k]))
             THEN client[k] ELSE s[k]
  BY DEF ThreeWayMerge, MergedFields, ConflictFields, Same

LEMMA MergeType ==
  ASSUME NEW base \in Docs, NEW client \in Docs, NEW s \in Docs
  PROVE  ThreeWayMerge(base, client, s) \in Docs
  BY DEF ThreeWayMerge, Docs

LEMMA StoredType ==
  ASSUME NEW s \in Docs, NEW data \in Docs
  PROVE  Stored(s, data) \in Docs
  BY DEF Stored, Docs

LEMMA PushType ==
  ASSUME NEW base \in Docs, NEW client \in Docs, NEW s \in Docs
  PROVE  Push(base, client, s) \in Docs
  BY MergeType, StoredType DEF Push

LEMMA PushValue ==
  ASSUME NEW base \in Docs, NEW client \in Docs, NEW s \in Docs, NEW k \in Fields
  PROVE  Push(base, client, s)[k] =
           IF /\ Changed(base, client, k) /\ client[k] # Absent
              /\ ~(Changed(base, s, k) /\ Same(client[k], s[k]))
             THEN client[k] ELSE s[k]
  <1> DEFINE m == ThreeWayMerge(base, client, s)
  <1>1. Push(base, client, s)[k] = IF m[k] = Absent THEN s[k] ELSE m[k]
    BY DEF Push, Stored
  <1> QED BY <1>1, MergeValue

-----------------------------------------------------------------------------
(* What a merge returns: every change of the client that has a value, and  *)
(* everything of the server's that the client did not change.              *)
THEOREM MergeKeepsBothSides ==
  ASSUME NEW base \in Docs, NEW client \in Docs, NEW s \in Docs, NEW k \in Fields
  PROVE  /\ Changed(base, client, k) /\ client[k] # Absent
              => Same(Push(base, client, s)[k], client[k])
         /\ ~Changed(base, client, k) => Push(base, client, s)[k] = s[k]
  BY PushValue DEF Same

(* A push that is repeated because its answer was lost changes nothing     *)
(* more, whatever the server held before the first.                        *)
THEOREM RepeatedPushIsIdempotent ==
  ASSUME NEW base \in Docs, NEW client \in Docs, NEW s \in Docs, NEW k \in Fields
  PROVE  Same(Push(base, client, Push(base, client, s))[k], Push(base, client, s)[k])
  <1> DEFINE t == Push(base, client, s)
  <1>1. t \in Docs
    BY PushType
  <1>2. t[k] = IF /\ Changed(base, client, k) /\ client[k] # Absent
                  /\ ~(Changed(base, s, k) /\ Same(client[k], s[k]))
                 THEN client[k] ELSE s[k]
    BY PushValue
  <1> HIDE DEF t
  <1>3. Push(base, client, t)[k] =
          IF /\ Changed(base, client, k) /\ client[k] # Absent
             /\ ~(Changed(base, t, k) /\ Same(client[k], t[k]))
            THEN client[k] ELSE t[k]
    BY <1>1, PushValue
  <1>4. Same(Push(base, client, t)[k], t[k])
    BY <1>2, <1>3 DEF Same
  <1> QED BY <1>4 DEF t

(* Two clients that started from the same state and changed different      *)
(* fields may push in either order: the document ends up the same.         *)
THEOREM DisjointPushesCommute ==
  ASSUME NEW base \in Docs, NEW c \in Docs, NEW d \in Docs, NEW s \in Docs,
         Disjoint(base, c, d), NEW k \in Fields
  PROVE  Push(base, d, Push(base, c, s))[k] = Push(base, c, Push(base, d, s))[k]
  <1> DEFINE sc == Push(base, c, s)
             sd == Push(base, d, s)
  <1>1. sc \in Docs /\ sd \in Docs
    BY PushType
  <1>2. sc[k] = IF /\ Changed(base, c, k) /\ c[k] # Absent
                   /\ ~(Changed(base, s, k) /\ Same(c[k], s[k]))
                  THEN c[k] ELSE s[k]
    BY PushValue
  <1>3. sd[k] = IF /\ Changed(base, d, k) /\ d[k] # Absent
                   /\ ~(Changed(base, s, k) /\ Same(d[k], s[k]))
                  THEN d[k] ELSE s[k]
    BY PushValue
  <1> HIDE DEF sc, sd
  <1>4. Push(base, d, sc)[k] =
          IF /\ Changed(base, d, k) /\ d[k] # Absent
             /\ ~(Changed(base, sc, k) /\ Same(d[k], sc[k]))
            THEN d[k] ELSE sc[k]
    BY <1>1, PushValue
  <1>5. Push(base, c, sd)[k] =
          IF /\ Changed(base, c, k) /\ c[k] # Absent
             /\ ~(Changed(base, sd, k) /\ Same(c[k], sd[k]))
            THEN c[k] ELSE sd[k]
    BY <1>1, PushValue
  <1>6. ~Changed(base, c, k) \/ ~Changed(base, d, k)
    BY DEF Disjoint
  <1>7. ASSUME ~Changed(base, d, k) PROVE Push(base, d, sc)[k] = Push(base, c, sd)[k]
    <2>1. sd[k] = s[k] /\ (Changed(base, sd, k) <=> Changed(base, s, k))
      BY <1>3, <1>7 DEF Changed
    <2> QED BY <1>2, <1>4, <1>5, <1>7, <2>1
  <1>8. ASSUME ~Changed(base, c, k) PROVE Push(base, d, sc)[k] = Push(base, c, sd)[k]
    <2>1. sc[k] = s[k] /\ (Changed(base, sc, k) <=> Changed(base, s, k))
      BY <1>2, <1>8 DEF Changed
    <2> QED BY <1>3, <1>4, <1>5, <1>8, <2>1
  <1>9. Push(base, d, sc)[k] = Push(base, c, sd)[k]
    BY <1>6, <1>7, <1>8
  <1> QED BY <1>9 DEF sc, sd

-----------------------------------------------------------------------------
(* The endpoint.                                                           *)

(* Where the parts of an entry come from.                                  *)
EntryFromHistory(e) ==
  /\ e.base \in past \union written \union {None}
  /\ e.stage \in {"find", "update", "create"} => e.client \in written
  /\ e.stage = "update" => e.read \in past

FromHistory ==
  /\ server.alive => Current \in past
  /\ \A r \in Requests : EntryFromHistory(req[r])

IInv == TypeOK /\ FromHistory

LEMMA DataType ==
  ASSUME IInv, NEW r \in Requests, req[r].stage = "update"
  PROVE  Data(r) \in Docs
  <1>1. /\ req[r].client \in States /\ req[r].read \in States
        /\ req[r].base # None => req[r].base \in States
    BY DEF IInv, TypeOK, FromHistory, EntryFromHistory
  <1>2. /\ req[r].client.doc \in Docs /\ req[r].read.doc \in Docs
        /\ req[r].base # None => req[r].base.doc \in Docs
    BY <1>1 DEF States
  <1> QED BY <1>2, MergeType DEF Data

LEMMA InitIInv == Init => IInv
  <1> SUFFICES ASSUME Init PROVE IInv
    OBVIOUS
  <1>1. PICK x \in States : server = [alive |-> TRUE, doc |-> x.doc, upd |-> x.upd]
    BY DEF Init
  <1>2. Current = [doc |-> x.doc, upd |-> x.upd] /\ Current \in States
    BY <1>1 DEF Current, States
  <1>3. /\ past = {Current} /\ written = {}
        /\ \A r \in Requests : req[r] = Waiting
        /\ req = [r \in Requests |-> Waiting]
    BY DEF Init
  <1>4. Waiting \in Entries /\ Waiting.base = None /\ Waiting.stage = "waiting"
    BY DEF Waiting, Entries, Stages
  <1>5. TypeOK
    BY <1>1, <1>2, <1>3, <1>4 DEF TypeOK, States
  <1>7. FromHistory
    BY <1>3, <1>4 DEF FromHistory, EntryFromHistory
  <1> QED BY <1>5, <1>7 DEF IInv

(* A request moves on, the others stay.                                    *)
LEMMA RequestStep ==
  ASSUME IInv, past \subseteq past', written \subseteq written',
         NEW r \in Requests, NEW e \in Entries, Goto(r, e), EntryFromHistory(e)',
         server'.alive => Current' \in past'
  PROVE  req' \in [Requests -> Entries] /\ FromHistory'
  <1>1. req' = [req EXCEPT ![r] = e] /\ req \in [Requests -> Entries]
    BY DEF Goto, IInv, TypeOK
  <1>2. req'[r] = e /\ \A q \in Requests \ {r} : req'[q] = req[q]
    BY <1>1
  <1>3. ASSUME NEW q \in Requests PROVE EntryFromHistory(req[q])'
    <2>1. CASE q = r
      BY <1>2, <2>1 DEF EntryFromHistory
    <2>2. CASE q # r
      BY <1>2, <2>2 DEF EntryFromHistory, IInv, FromHistory
    <2> QED BY <2>1, <2>2
  <1> QED BY <1>1, <1>3 DEF FromHistory

LEMMA WaitingEntry == Waiting \in Entries /\ EntryFromHistory(Waiting) /\ EntryFromHistory(Waiting)'
  BY DEF Waiting, Entries, Stages, EntryFromHistory

LEMMA ReceiveIInv ==
  ASSUME IInv, NEW r \in Requests, Receive(r)
  PROVE  IInv'
  <1>1. PICK client \in States, base \in past \union written \union {None} :
          /\ written' = written \union {client}
          /\ Goto(r, Asked(client, base))
    BY DEF Receive
  <1>2. past' = past /\ server' = server /\ Current' = Current
    BY DEF Receive, Stay, Current
  <1> DEFINE e == Asked(client, base)
  <1>3. e = [stage |-> "find", client |-> client, base |-> base, read |-> None]
    BY DEF Asked
  <1>4. e \in Entries
    <2>1. client \in States /\ base \in States \union {None}
      BY <1>1 DEF IInv, TypeOK
    <2> HIDE DEF e
    <2> QED BY <1>3, <2>1 DEF Entries, Stages
  <1>5. EntryFromHistory(e)'
    BY <1>1, <1>2, <1>3 DEF EntryFromHistory
  <1>6. server'.alive => Current' \in past'
    BY <1>2 DEF IInv, FromHistory
  <1>7. req' \in [Requests -> Entries] /\ FromHistory'
    BY <1>1, <1>2, <1>4, <1>5, <1>6, RequestStep
  <1>8. TypeOK'
    BY <1>1, <1>2, <1>7 DEF IInv, TypeOK
  <1> QED BY <1>7, <1>8 DEF IInv

(* Steps of a request that change nothing but its entry.                   *)
LEMMA EntryIInv ==
  ASSUME IInv, NEW r \in Requests, NEW e \in Entries, Goto(r, e), EntryFromHistory(e),
         server'.alive => server.alive, server' \in [alive : BOOLEAN, doc : Docs, upd : Stamps],
         server'.doc = server.doc, server'.upd = server.upd,
         UNCHANGED <<past, written>>
  PROVE  IInv'
  <1>1. Current' = Current /\ EntryFromHistory(e)'
    BY DEF Current, EntryFromHistory
  <1>2. server'.alive => Current' \in past'
    BY <1>1 DEF IInv, FromHistory
  <1>3. req' \in [Requests -> Entries] /\ FromHistory'
    BY <1>1, <1>2, RequestStep
  <1>4. TypeOK'
    BY <1>3 DEF IInv, TypeOK
  <1> QED BY <1>3, <1>4 DEF IInv

LEMMA FindIInv ==
  ASSUME IInv, NEW r \in Requests, Find(r)
  PROVE  IInv'
  <1>1. /\ req[r] \in Entries /\ req[r].stage = "find" /\ EntryFromHistory(req[r])
        /\ server \in [alive : BOOLEAN, doc : Docs, upd : Stamps]
        /\ UNCHANGED <<server, past, written>>
    BY DEF Find, Stay, IInv, TypeOK, FromHistory
  <1>2. CASE server.alive /\ Goto(r, [req[r] EXCEPT !.stage = "update", !.read = Current])
    <2> DEFINE e == [req[r] EXCEPT !.stage = "update", !.read = Current]
    <2>1. Current \in past /\ Current \in States
      BY <1>1, <1>2 DEF IInv, FromHistory, Current, States
    <2>2. /\ e.stage = "update" /\ e.client = req[r].client /\ e.base = req[r].base
          /\ e.read = Current /\ e \in Entries
      BY <1>1, <2>1 DEF Entries, Stages
    <2>3. EntryFromHistory(e)
      BY <1>1, <2>1, <2>2 DEF EntryFromHistory
    <2> HIDE DEF e
    <2>4. Goto(r, e)
      BY <1>2 DEF e
    <2> QED BY <1>1, <2>2, <2>3, <2>4, EntryIInv
  <1>3. CASE Goto(r, [req[r] EXCEPT !.stage = "create"])
    <2> DEFINE e == [req[r] EXCEPT !.stage = "create"]
    <2>1. /\ e.stage = "create" /\ e.client = req[r].client /\ e.base = req[r].base
          /\ e \in Entries
      BY <1>1 DEF Entries, Stages
    <2>2. EntryFromHistory(e)
      BY <1>1, <2>1 DEF EntryFromHistory
    <2> HIDE DEF e
    <2>3. Goto(r, e)
      BY <1>3 DEF e
    <2> QED BY <1>1, <2>1, <2>2, <2>3, EntryIInv
  <1> QED BY <1>2, <1>3 DEF Find

(* A state that becomes the server's.                                      *)
LEMMA BecomeIInv ==
  ASSUME IInv, NEW x \in States, Become(x), written' = written,
         req' \in [Requests -> Entries],
         \A r \in Requests : req'[r] = req[r] \/ req'[r] = Waiting
  PROVE  IInv'
  <1>1. /\ server' = [alive |-> TRUE, doc |-> x.doc, upd |-> x.upd]
        /\ past' = past \union {x}
    BY DEF Become
  <1>2. Current' = x
    BY <1>1 DEF Current, States
  <1>3. ASSUME NEW r \in Requests PROVE EntryFromHistory(req[r])'
    <2>1. CASE req'[r] = Waiting
      BY <2>1, WaitingEntry DEF EntryFromHistory
    <2>2. CASE req'[r] = req[r]
      BY <1>1, <2>2 DEF EntryFromHistory, IInv, FromHistory
    <2> QED BY <2>1, <2>2
  <1>4. FromHistory'
    BY <1>1, <1>2, <1>3 DEF FromHistory
  <1>5. TypeOK'
    BY <1>1 DEF IInv, TypeOK, States
  <1> QED BY <1>4, <1>5 DEF IInv

(* What requests handle comes from what was written and what was stored.   *)
THEOREM Inductive == Spec => []IInv
  <1>1. ASSUME IInv, [Next]_vars PROVE IInv'
    <2>1. CASE UNCHANGED vars
      BY <1>1, <2>1 DEF vars, IInv, TypeOK,
                        FromHistory, EntryFromHistory, Current
    <2>2. ASSUME NEW r \in Requests, Receive(r) PROVE IInv'
      BY <1>1, <2>2, ReceiveIInv
    <2>3. ASSUME NEW r \in Requests, ReceiveDelete(r) PROVE IInv'
      <3> DEFINE e == [Waiting EXCEPT !.stage = "delete"]
      <3>1. e \in Entries /\ EntryFromHistory(e)
        BY DEF Waiting, Entries, Stages, EntryFromHistory
      <3>2. Goto(r, e) /\ UNCHANGED <<server, past, written>>
        BY <2>3 DEF ReceiveDelete, Stay
      <3>3. server' \in [alive : BOOLEAN, doc : Docs, upd : Stamps]
        BY <1>1, <3>2 DEF IInv, TypeOK
      <3> HIDE DEF e
      <3> QED BY <1>1, <3>1, <3>2, <3>3, EntryIInv
    <2>4. ASSUME NEW r \in Requests, Find(r) PROVE IInv'
      BY <1>1, <2>4, FindIInv
    <2>5. ASSUME NEW r \in Requests, Create(r) PROVE IInv'
      <3>1. /\ req[r].client \in written /\ req[r].client \in States
            /\ Become(req[r].client) /\ written' = written
        BY <1>1, <2>5 DEF Create, IInv, TypeOK, FromHistory, EntryFromHistory
      <3>2. /\ req' \in [Requests -> Entries]
            /\ \A q \in Requests : req'[q] = req[q] \/ req'[q] = Waiting
        BY <1>1, <2>5, WaitingEntry DEF Create, Goto, IInv, TypeOK
      <3> DEFINE x == req[r].client
      <3>3. x \in States /\ Become(x) /\ written' = written
        BY <3>1
      <3> HIDE DEF x
      <3> QED BY <1>1, <3>2, <3>3, BecomeIInv
    <2>6. ASSUME NEW r \in Requests, Update(r) PROVE IInv'
      <3>1. Stored(server.doc, Data(r)) \in Docs
        <4>1. server.doc \in Docs /\ Data(r) \in Docs
          BY <1>1, <2>6, DataType DEF Update, IInv, TypeOK
        <4> QED BY <4>1, StoredType
      <3>2. PICK t \in Stamps : Become([doc |-> Stored(server.doc, Data(r)), upd |-> t])
        BY <2>6 DEF Update
      <3> DEFINE x == [doc |-> Stored(server.doc, Data(r)), upd |-> t]
      <3>3. x \in States /\ Become(x) /\ written' = written
        BY <2>6, <3>1, <3>2 DEF Update, States
      <3>4. /\ req' \in [Requests -> Entries]
            /\ \A q \in Requests : req'[q] = req[q] \/ req'[q] = Waiting
        BY <1>1, <2>6, WaitingEntry DEF Update, Goto, IInv, TypeOK
      <3> HIDE DEF x
      <3> QED BY <1>1, <3>3, <3>4, BecomeIInv
    <2>7. ASSUME NEW r \in Requests, Delete(r) PROVE IInv'
      <3>1. /\ server' = [server EXCEPT !.alive = FALSE] /\ Goto(r, Waiting)
            /\ UNCHANGED <<past, written>> /\ server.alive
        BY <2>7 DEF Delete
      <3>2. /\ server' \in [alive : BOOLEAN, doc : Docs, upd : Stamps]
            /\ server'.doc = server.doc /\ server'.upd = server.upd
        BY <1>1, <3>1 DEF IInv, TypeOK
      <3> QED BY <1>1, <3>1, <3>2, WaitingEntry, EntryIInv
    <2>8. ASSUME NEW r \in Requests, Failed(r) PROVE IInv'
      <3>1. Goto(r, Waiting) /\ UNCHANGED <<server, past, written>>
        BY <2>8 DEF Failed, Stay
      <3>2. server' \in [alive : BOOLEAN, doc : Docs, upd : Stamps]
        BY <1>1, <3>1 DEF IInv, TypeOK
      <3> QED BY <1>1, <3>1, <3>2, WaitingEntry, EntryIInv
    <2>9. CASE OtherWrite
      <3>1. PICK x \in States : Become(x)
        BY <2>9 DEF OtherWrite
      <3>2. req' \in [Requests -> Entries] /\ UNCHANGED <<req, written>>
        BY <1>1, <2>9 DEF OtherWrite, IInv, TypeOK
      <3> QED BY <1>1, <3>1, <3>2, BecomeIInv
    <2> QED BY <1>1, <2>1, <2>2, <2>3, <2>4, <2>5, <2>6, <2>7, <2>8, <2>9 DEF Next, Handle
  <1> QED BY <1>1, InitIInv, PTL DEF Spec

LEMMA UpdateValues ==
  ASSUME IInv, NEW r \in Requests, Update(r), req[r].base # None, NEW k \in Fields
  PROVE  /\ req[r].base.doc \in Docs /\ req[r].read.doc \in Docs
         /\ req[r].client.doc \in Docs
         /\ server'.doc[k] = IF Data(r)[k] = Absent THEN server.doc[k] ELSE Data(r)[k]
  <1>1. /\ req[r].base \in past \union written /\ req[r].read \in past /\ req[r].client \in written
        /\ past \subseteq States /\ written \subseteq States
    BY DEF Update, IInv, TypeOK, FromHistory, EntryFromHistory
  <1>2. server'.doc = Stored(server.doc, Data(r))
    BY DEF Update, Become
  <1> QED BY <1>1, <1>2 DEF States, Stored

(* Field-level merging keeps both sides (syncPush.ts): in an update that   *)
(* no other write separates from its read, and whose base does not share   *)
(* its millisecond with another version read, what the client changed is   *)
(* stored and what it did not change is left, merged or not.  However the  *)
(* clocks of clients and server run.                                       *)
THEOREM NeitherSideIsLost == Spec => BothSidesKept
  <1>1. ASSUME IInv, NEW r \in Requests, Update(r), Undisturbed(r), ToldApart(r), NEW k \in Fields
        PROVE  Kept(req[r].base.doc, req[r].client.doc, k)
    <2> DEFINE base == req[r].base.doc
               client == req[r].client.doc
               s == server.doc
    <2>1. req[r].base # None /\ req[r].read.doc = s
      BY <1>1 DEF Undisturbed, Current
    <2>2. /\ base \in Docs /\ client \in Docs /\ s \in Docs
          /\ server'.doc[k] = IF Data(r)[k] = Absent THEN s[k] ELSE Data(r)[k]
      BY <1>1, <2>1, UpdateValues
    <2>3. CASE req[r].read.upd # req[r].base.upd
      <3>1. Data(r) = ThreeWayMerge(base, client, s)
        BY <2>1, <2>3 DEF Data
      <3>2. Data(r)[k] = IF Changed(base, client, k) /\ ~(Changed(base, s, k) /\ Same(client[k], s[k]))
                           THEN client[k] ELSE s[k]
        BY <2>2, <3>1, MergeValue
      <3> HIDE DEF base, client, s
      <3>3. Kept(base, client, k)
        BY <2>2, <3>2 DEF Kept, Same, s
      <3> QED BY <3>3 DEF base, client
    <2>4. CASE req[r].read.upd = req[r].base.upd
      <3>1. base = s
        BY <1>1, <2>1, <2>4 DEF ToldApart
      <3>2. Data(r) = client
        BY <2>4 DEF Data
      <3>3. Kept(base, client, k)
        BY <2>2, <3>1, <3>2 DEF Kept, Same, Changed
      <3> QED BY <3>3
    <2> QED BY <2>3, <2>4
  <1>2. IInv /\ [Next]_vars =>
          [\A r \in Requests :
             Update(r) /\ Undisturbed(r) /\ ToldApart(r) =>
               \A k \in Fields : Kept(req[r].base.doc, req[r].client.doc, k)]_vars
    BY <1>1
  <1> QED BY <1>2, Inductive, PTL DEF Spec, BothSidesKept

(* In true conflicts, and even when another write fell between findByID    *)
(* and the update or a stamp was shared, the client's value is stored.     *)
THEOREM ClientEditsPrevail == Spec => ClientPrevails
  <1>1. ASSUME IInv, NEW r \in Requests, Update(r), req[r].base # None, NEW k \in Fields,
               Changed(req[r].base.doc, req[r].client.doc, k),
               OrNull(req[r].client.doc[k]) # Null
        PROVE  server'.doc[k] = req[r].client.doc[k]
    <2> DEFINE base == req[r].base.doc
               client == req[r].client.doc
               s == req[r].read.doc
    <2>1. /\ base \in Docs /\ client \in Docs /\ s \in Docs
          /\ server'.doc[k] = IF Data(r)[k] = Absent THEN server.doc[k] ELSE Data(r)[k]
      BY <1>1, UpdateValues
    <2>2. client[k] # Absent
      BY <1>1 DEF OrNull
    <2>3. Data(r)[k] = client[k]
      <3>1. CASE req[r].read.upd # req[r].base.upd
        <4>1. Data(r) = ThreeWayMerge(base, client, s)
          BY <1>1, <3>1 DEF Data
        <4>2. Data(r)[k] = IF Changed(base, client, k) /\ ~(Changed(base, s, k) /\ Same(client[k], s[k]))
                             THEN client[k] ELSE s[k]
          BY <2>1, <4>1, MergeValue
        <4>3. Same(client[k], s[k]) => client[k] = s[k]
          BY <1>1, <2>2 DEF Same, OrNull
        <4> QED BY <1>1, <4>2, <4>3
      <3>2. CASE req[r].read.upd = req[r].base.upd
        BY <3>2 DEF Data
      <3> QED BY <3>1, <3>2
    <2> QED BY <2>1, <2>2, <2>3
  <1>2. IInv /\ [Next]_vars =>
          [\A r \in Requests :
             Update(r) /\ req[r].base # None =>
               \A k \in Fields :
                 LET v == req[r].client.doc[k]
                 IN  Changed(req[r].base.doc, req[r].client.doc, k) /\ OrNull(v) # Null
                       => server'.doc[k] = v]_vars
    BY <1>1
  <1> QED BY <1>2, Inductive, PTL DEF Spec, ClientPrevails

=============================================================================
