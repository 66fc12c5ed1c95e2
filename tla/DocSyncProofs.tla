--------------------------- MODULE DocSyncProofs ---------------------------
(***************************************************************************)
(* Safety of the polling replication of one document, for every number of  *)
(* edits and faults.  The inductive invariant adds to the types what the   *)
(* argument needs about the three copies of the document (fork, meta, the  *)
(* row in flight): see the README for the argument in words.               *)
(***************************************************************************)
EXTENDS DocSync, TLAPS

(* No copy of the document holds a content that was not written yet.       *)
KnownBodies ==
  /\ srv.body <= bodies /\ fork.body <= bodies /\ meta.body <= bodies
  /\ push.doc.body <= bodies /\ push.got.body <= bodies
  /\ pull.got.body <= bodies

(* What a conflict answer brings is not a local write.                     *)
ServerState ==
  push.stage = "get" /\ push.resp = "ok" => ~push.got.own /\ ~push.got.del

(* A row in flight is an unpushed state; one that deletes is still the     *)
(* fork's state, because nothing is written over a removed document.       *)
RowInFlight ==
  push.stage # "idle" =>
    /\ fork # meta
    /\ push.doc # NoDoc
    /\ push.doc.own \/ push.doc.del
    /\ push.doc.del => fork = push.doc
    /\ push.stage = "delete" => push.doc.del
    /\ push.stage \in {"post", "get"} => push.new
    /\ push.new => push.doc.lm
    /\ push.stage \in {"post", "patch", "repost"} /\ push.resp = "ok" =>
         push.doc.body \in stored

(* An unpushed state was written locally.                                  *)
DirtyIsLocal ==
  /\ fork # meta => fork.own \/ fork.del
  /\ meta.del => fork.del
  /\ meta = NoDoc /\ fork # NoDoc => fork.lm
  /\ fork = NoDoc => meta = NoDoc

(* An unanswered write is the fork's state, and not yet meta's.            *)
OwedIsDirty ==
  owed # NoDoc => fork = owed /\ fork # meta

IInv ==
  /\ TypeOK
  /\ KnownBodies
  /\ ServerState
  /\ RowInFlight
  /\ DirtyIsLocal
  /\ OwedIsDirty

-----------------------------------------------------------------------------
LEMMA NoDocType == NoDoc \in Docs /\ \A t \in Nat : Buried(t) \in Docs
  BY DEF NoDoc, Docs, Buried

LEMMA ServedType ==
  ASSUME NEW s \in [alive: BOOLEAN, body: Nat, upd: Nat]
  PROVE  Served(s) \in Docs
  BY DEF Served, Docs

LEMMA IdleType ==
  Idle \in [stage: Stages, doc: Docs, got: Docs, new: BOOLEAN,
            resp: Answers \union {"none", "fail"}]
  BY NoDocType DEF Idle, Stages, Answers

(* The specification starts in the invariant.                              *)
LEMMA InitIInv == Init => IInv
  <1> SUFFICES ASSUME Init PROVE IInv
    OBVIOUS
  <1>1. TypeOK
    <2>1. now \in Nat /\ srv \in [alive: BOOLEAN, body: Nat, upd: Nat]
      <3>1. CASE srv = [alive |-> FALSE, body |-> 0, upd |-> 0] /\ now = 0
        BY <3>1
      <3>2. CASE srv = [alive |-> TRUE, body |-> 1, upd |-> 1] /\ now = 1
        BY <3>2
      <3> QED BY <3>1, <3>2 DEF Init
    <2>2. pull \in [stage: {"due", "idle", "tombstones", "apply"}, got: Docs]
      BY NoDocType DEF Init, Due
    <2>3. stored \in SUBSET Nat
      BY DEF Init
    <2> QED BY <2>1, <2>2, <2>3, NoDocType, IdleType DEF Init, TypeOK
  <1>2. KnownBodies /\ ServerState /\ RowInFlight /\ DirtyIsLocal /\ OwedIsDirty
    BY DEF Init, KnownBodies, ServerState, RowInFlight, DirtyIsLocal,
           OwedIsDirty, NoDoc, Idle, Due
  <1> QED BY <1>1, <1>2 DEF IInv

-----------------------------------------------------------------------------
(* One lemma per action: it takes the invariant to the invariant.          *)

LEMMA LocalIInv ==
  ASSUME IInv, Local
  PROVE  IInv'
  <1> USE DEF IInv
  <1>1. ASSUME NEW ok \in Validity, LocalCreate(ok)
        PROVE  IInv'
    <2> DEFINE d == [body |-> bodies + 1, upd |-> now + 1, own |-> TRUE,
                     lm |-> TRUE, del |-> FALSE, valid |-> ok]
    <2>0. d \in Docs /\ d # NoDoc
      BY ValidityAssumption DEF Docs, NoDoc, TypeOK
    <2>1. TypeOK'
      BY <1>1, <2>0, NoDocType DEF LocalCreate, LocalEdit, LocalWrite, TypeOK, netVars
    <2>2. meta = NoDoc
      BY <1>1 DEF LocalCreate, LocalEdit, DirtyIsLocal
    <2>3. KnownBodies' /\ ServerState'
      BY <1>1 DEF LocalCreate, LocalEdit, LocalWrite, TypeOK, netVars, KnownBodies,
                  ServerState, Docs
    <2>4. push.stage # "idle" => FALSE
      BY <1>1, <2>2 DEF LocalCreate, LocalEdit, RowInFlight
    <2>5. RowInFlight' /\ DirtyIsLocal' /\ OwedIsDirty'
      BY <1>1, <2>0, <2>2, <2>4 DEF LocalCreate, LocalEdit, LocalWrite, RowInFlight,
           DirtyIsLocal, OwedIsDirty, NoDoc
    <2> QED BY <2>1, <2>3, <2>5
  <1>2. ASSUME NEW flag \in BOOLEAN, NEW ok \in Validity, LocalUpdate(flag, ok)
        PROVE  IInv'
    <2> DEFINE d == [body |-> bodies + 1, upd |-> now + 1, own |-> TRUE,
                     lm |-> flag \/ fork.lm, del |-> FALSE, valid |-> ok]
    <2>0. d \in Docs /\ d # NoDoc /\ d # meta
      BY ValidityAssumption DEF Docs, NoDoc, TypeOK, KnownBodies
    <2>1. TypeOK'
      BY <1>2, <2>0, NoDocType DEF LocalUpdate, LocalEdit, LocalWrite, TypeOK, netVars
    <2>2. KnownBodies' /\ ServerState'
      BY <1>2 DEF LocalUpdate, LocalEdit, LocalWrite, TypeOK, netVars, KnownBodies,
                  ServerState, Docs
    <2>3. fork # NoDoc /\ ~fork.del
      BY <1>2 DEF LocalUpdate, LocalEdit, Present
    <2>4. RowInFlight'
      BY <1>2, <2>0, <2>3 DEF LocalUpdate, LocalEdit, LocalWrite, RowInFlight, netVars
    <2>5. DirtyIsLocal' /\ OwedIsDirty'
      BY <1>2, <2>0, <2>3 DEF LocalUpdate, LocalEdit, LocalWrite, DirtyIsLocal, OwedIsDirty
    <2> QED BY <2>1, <2>2, <2>4, <2>5
  <1>3. ASSUME NEW flag \in BOOLEAN, LocalRemove(flag)
        PROVE  IInv'
    <2> DEFINE d == [fork EXCEPT !.del = TRUE, !.lm = flag \/ fork.lm]
    <2>1. fork # NoDoc /\ ~fork.del
      BY <1>3 DEF LocalRemove, Present
    <2>2. d \in Docs /\ d.del /\ d # NoDoc /\ d.body = fork.body
         /\ (fork.lm => d.lm)
      BY DEF Docs, NoDoc, TypeOK
    <2>3. d # meta
      BY <2>1, <2>2 DEF DirtyIsLocal
    <2>4. fork' = d /\ owed' = d
      BY <1>3 DEF LocalRemove, LocalWrite
    <2> HIDE DEF d
    <2>5. TypeOK'
      BY <1>3, <2>2, <2>4, NoDocType DEF LocalRemove, LocalWrite, TypeOK, netVars
    <2>6. KnownBodies' /\ ServerState'
      BY <1>3, <2>2, <2>4 DEF LocalRemove, LocalWrite, netVars, KnownBodies,
                  ServerState
    <2>7. RowInFlight'
      BY <1>3, <2>1, <2>2, <2>3, <2>4 DEF LocalRemove, LocalWrite, RowInFlight, netVars
    <2>8. DirtyIsLocal' /\ OwedIsDirty'
      BY <1>3, <2>1, <2>2, <2>3, <2>4 DEF LocalRemove, LocalWrite, DirtyIsLocal,
           OwedIsDirty
    <2> QED BY <2>5, <2>6, <2>7, <2>8
  <1> QED BY <1>1, <1>2, <1>3 DEF Local

LEMMA PushStartIInv ==
  ASSUME IInv, PushStart
  PROVE  IInv'
  <1> USE DEF IInv
  <1>1. fork # NoDoc
    BY DEF PushStart, DirtyIsLocal
  <1>2. TypeOK'
    BY NoDocType DEF PushStart, TypeOK, netVars, localVars, boundVars, ghostVars,
         FirstStage, Stages, Answers
  <1>3. KnownBodies' /\ ServerState'
    BY DEF PushStart, TypeOK, KnownBodies, ServerState, netVars, localVars,
         boundVars, NoDoc, FirstStage
  <1>4. RowInFlight'
    BY <1>1 DEF PushStart, TypeOK, RowInFlight, DirtyIsLocal, netVars, localVars,
         FirstStage, Docs
  <1>5. DirtyIsLocal' /\ OwedIsDirty'
    BY DEF PushStart, DirtyIsLocal, OwedIsDirty, localVars, ghostVars
  <1> QED BY <1>2, <1>3, <1>4, <1>5

(* What a request does on the server, whatever becomes of its answer.      *)
Effect(r) ==
  /\ srv' \in [alive: BOOLEAN, body: Nat, upd: Nat]
  /\ tomb' \in Nat /\ now' \in Nat /\ stored' \in SUBSET Nat
  /\ srv'.body <= bodies
  /\ stored \subseteq stored'
  /\ push.stage \in {"post", "patch", "repost"} /\ r = "ok" =>
       push.doc.body \in stored'
  /\ push.stage = "get" => UNCHANGED netVars
  /\ push.stage = "get" /\ r = "ok" => srv.alive

LEMMA StoreEffect ==
  ASSUME TypeOK, NEW d \in Docs, Update(d) \/ Create(d)
  PROVE  /\ srv' \in [alive: BOOLEAN, body: Nat, upd: Nat]
         /\ tomb' \in Nat /\ now' \in Nat /\ stored' \in SUBSET Nat
         /\ srv'.body = d.body
         /\ stored \subseteq stored' /\ d.body \in stored'
  <1>1. d.body \in Nat /\ d.upd \in Nat /\ now \in Nat
    BY DEF TypeOK, Docs
  <1>2. PICK stamp \in Nat : Store(d, stamp) /\ now' \in Nat
    <2>1. CASE Update(d)
      BY <1>1, <2>1 DEF Update
    <2>2. CASE Create(d)
      BY <1>1, <2>2 DEF Create
    <2> QED BY <2>1, <2>2
  <1>3. srv' \in [alive: BOOLEAN, body: Nat, upd: Nat] /\ srv'.body = d.body
    BY <1>1, <1>2 DEF Store
  <1>4. tomb' \in Nat /\ stored' \in SUBSET Nat /\ stored \subseteq stored'
        /\ d.body \in stored'
    BY <1>1, <1>2 DEF Store, TypeOK
  <1> QED BY <1>2, <1>3, <1>4

LEMMA BuryEffect ==
  ASSUME TypeOK, Bury
  PROVE  /\ srv' \in [alive: BOOLEAN, body: Nat, upd: Nat]
         /\ tomb' \in Nat /\ now' \in Nat /\ stored' = stored
         /\ srv'.body = srv.body /\ ~srv'.alive
  <1>1. srv \in [alive: BOOLEAN, body: Nat, upd: Nat] /\ now \in Nat
    BY DEF TypeOK
  <1>2. srv' \in [alive: BOOLEAN, body: Nat, upd: Nat]
        /\ srv'.body = srv.body /\ ~srv'.alive
    BY <1>1 DEF Bury
  <1>3. tomb' \in Nat /\ now' \in Nat /\ stored' = stored
    BY <1>1 DEF Bury
  <1> QED BY <1>2, <1>3

LEMMA ServeEffect ==
  ASSUME IInv, NEW r \in Answers, Serve(r)
  PROVE  Effect(r)
  <1> USE DEF IInv
  <1>0. push.doc \in Docs /\ push.doc.body <= bodies /\ srv.body <= bodies
    BY DEF TypeOK, KnownBodies
  <1>1. ASSUME UNCHANGED netVars,
               ~(push.stage \in {"post", "patch", "repost"} /\ r = "ok"),
               push.stage = "get" /\ r = "ok" => srv.alive
        PROVE  Effect(r)
    <2>1. UNCHANGED <<srv, tomb, now, stored>>
      BY <1>1 DEF netVars
    <2> QED BY <1>0, <1>1, <2>1 DEF Effect, TypeOK
  <1>2. CASE ServeDelete(r)
    <2>1. CASE Bury /\ r = "ok"
      BY <1>0, <1>2, <2>1, BuryEffect DEF Effect, ServeDelete, TypeOK
    <2>2. CASE UNCHANGED netVars
      BY <1>1, <1>2, <2>2 DEF ServeDelete
    <2> QED BY <1>2, <2>1, <2>2 DEF ServeDelete
  <1>3. CASE ServeCreate(r)
    <2>1. CASE Create(push.doc)
      BY <1>0, <1>3, <2>1, StoreEffect DEF Effect, ServeCreate
    <2>2. CASE r = "400" /\ UNCHANGED netVars
      BY <1>1, <2>2
    <2> QED BY <1>3, <2>1, <2>2 DEF ServeCreate
  <1>4. CASE ServeUpdate(r)
    <2>1. CASE Update(push.doc)
      BY <1>0, <1>4, <2>1, StoreEffect DEF Effect, ServeUpdate
    <2>2. CASE r \in {"400", "404"} /\ UNCHANGED netVars
      BY <1>1, <2>2
    <2> QED BY <1>4, <2>1, <2>2 DEF ServeUpdate
  <1>5. CASE ServeExisting(r)
    BY <1>1, <1>5 DEF ServeExisting
  <1> QED BY <1>2, <1>3, <1>4, <1>5 DEF Serve

LEMMA PushServedIInv ==
  ASSUME IInv, PushServed
  PROVE  IInv'
  <1> USE DEF IInv
  <1>1. PICK r \in Answers :
          /\ Serve(r)
          /\ push' = [push EXCEPT !.resp = r,
                        !.got = IF push.stage = "get" /\ srv.alive
                                  THEN Served(srv) ELSE NoDoc]
    BY DEF PushServed
  <1> DEFINE g == IF push.stage = "get" /\ srv.alive THEN Served(srv) ELSE NoDoc
  <1>2. g \in Docs /\ g.body <= bodies /\ ~g.del
        /\ (push.stage = "get" /\ srv.alive => ~g.own)
    BY NoDocType, ServedType DEF TypeOK, KnownBodies, ServerState, Served, NoDoc
  <1> HIDE DEF g
  <1>3. /\ push'.stage = push.stage /\ push'.doc = push.doc
        /\ push'.new = push.new /\ push'.resp = r /\ push'.got = g
        /\ push' \in [stage: Stages, doc: Docs, got: Docs, new: BOOLEAN,
                      resp: Answers \union {"none", "fail"}]
    BY <1>1, <1>2 DEF TypeOK, g
  <1>4. push.stage # "idle"
    BY DEF PushServed
  <1>5. UNCHANGED <<localVars, pull, cp, boundVars, ghostVars>>
    BY DEF PushServed
  <1>6. Effect(r)
    BY <1>1, ServeEffect
  <1>7. TypeOK'
    BY <1>3, <1>5, <1>6 DEF Effect, TypeOK, localVars, boundVars, ghostVars
  <1>8. KnownBodies' /\ ServerState'
    BY <1>2, <1>3, <1>5, <1>6 DEF Effect, KnownBodies, ServerState, localVars, boundVars
  <1>9. RowInFlight'
    BY <1>3, <1>4, <1>5, <1>6 DEF Effect, RowInFlight, localVars
  <1>10. DirtyIsLocal' /\ OwedIsDirty'
    BY <1>5 DEF DirtyIsLocal, OwedIsDirty, localVars, ghostVars
  <1> QED BY <1>7, <1>8, <1>9, <1>10

LEMMA PushLostIInv ==
  ASSUME IInv, PushLost
  PROVE  IInv'
  <1> USE DEF IInv
  <1>1. push' = [push EXCEPT !.resp = "fail"] /\ push.stage # "idle"
    BY DEF PushLost
  <1>2. /\ push'.stage = push.stage /\ push'.doc = push.doc
        /\ push'.new = push.new /\ push'.resp = "fail" /\ push'.got = push.got
        /\ push' \in [stage: Stages, doc: Docs, got: Docs, new: BOOLEAN,
                      resp: Answers \union {"none", "fail"}]
    BY <1>1 DEF TypeOK
  <1>3. UNCHANGED <<localVars, pull, cp, bodies, ghostVars>> /\ faults' = faults + 1
    BY DEF PushLost
  <1>4. /\ srv' \in [alive: BOOLEAN, body: Nat, upd: Nat]
        /\ tomb' \in Nat /\ now' \in Nat /\ stored' \in SUBSET Nat
        /\ srv'.body <= bodies
        /\ stored \subseteq stored'
    <2>1. CASE UNCHANGED netVars
      BY <2>1 DEF netVars, TypeOK, KnownBodies, ServerState
    <2>2. ASSUME NEW r \in Answers, Serve(r)
          PROVE  Effect(r)
      BY <2>2, ServeEffect
    <2> QED BY <2>1, <2>2 DEF Effect, PushLost
  <1>5. TypeOK'
    BY <1>2, <1>3, <1>4 DEF TypeOK, localVars, ghostVars
  <1>6. KnownBodies' /\ ServerState'
    BY <1>2, <1>3, <1>4 DEF KnownBodies, ServerState, localVars
  <1>7. RowInFlight'
    BY <1>1, <1>2, <1>3, <1>4 DEF RowInFlight, localVars
  <1>8. DirtyIsLocal' /\ OwedIsDirty'
    BY <1>3 DEF DirtyIsLocal, OwedIsDirty, localVars, ghostVars
  <1> QED BY <1>5, <1>6, <1>7, <1>8

LEMMA PushRetryIInv ==
  ASSUME IInv, PushRetry
  PROVE  IInv'
  <1> USE DEF IInv
  <1> DEFINE st == FirstStage(push.doc, push.new)
  <1>1. /\ st \in Stages \ {"idle", "get", "repost"}
        /\ st = "delete" => push.doc.del
        /\ st = "post" => push.new
    BY DEF FirstStage, Stages
  <1>2. push' = [push EXCEPT !.stage = st, !.resp = "none"] /\ push.stage # "idle"
    BY DEF PushRetry, Rethrows
  <1> HIDE DEF st
  <1>3. /\ push'.stage = st /\ push'.doc = push.doc /\ push'.new = push.new
        /\ push'.resp = "none" /\ push'.got = push.got
        /\ push' \in [stage: Stages, doc: Docs, got: Docs, new: BOOLEAN,
                      resp: Answers \union {"none", "fail"}]
    BY <1>1, <1>2 DEF TypeOK
  <1>4. UNCHANGED <<netVars, localVars, pull, cp, boundVars, ghostVars>>
    BY DEF PushRetry
  <1>5. TypeOK'
    BY <1>3, <1>4 DEF TypeOK, netVars, localVars, boundVars, ghostVars
  <1>6. KnownBodies' /\ ServerState'
    BY <1>3, <1>4 DEF KnownBodies, ServerState, netVars, localVars, boundVars
  <1>7. RowInFlight'
    BY <1>1, <1>2, <1>3, <1>4 DEF RowInFlight, netVars, localVars
  <1>8. DirtyIsLocal' /\ OwedIsDirty'
    BY <1>4 DEF DirtyIsLocal, OwedIsDirty, localVars, ghostVars
  <1> QED BY <1>5, <1>6, <1>7, <1>8

LEMMA PushFallbackIInv ==
  ASSUME IInv, PushFallback
  PROVE  IInv'
  <1> USE DEF IInv
  <1>1. /\ push'.stage \in {"get", "repost"} /\ push'.doc = push.doc
        /\ push'.stage = "get" => push.stage = "post"
        /\ push'.new = push.new /\ push'.resp = "none" /\ push'.got = push.got
        /\ push.stage # "idle"
        /\ push' \in [stage: Stages, doc: Docs, got: Docs, new: BOOLEAN,
                      resp: Answers \union {"none", "fail"}]
    <2>1. CASE push.stage = "post" /\ push' = [push EXCEPT !.stage = "get", !.resp = "none"]
      BY <2>1 DEF TypeOK, Stages
    <2>2. CASE push.stage = "patch" /\ push' = [push EXCEPT !.stage = "repost", !.resp = "none"]
      BY <2>2 DEF TypeOK, Stages
    <2> QED BY <2>1, <2>2 DEF PushFallback
  <1>2. UNCHANGED <<netVars, localVars, pull, cp, boundVars, ghostVars>>
    BY DEF PushFallback
  <1>3. TypeOK'
    BY <1>1, <1>2 DEF TypeOK, netVars, localVars, boundVars, ghostVars
  <1>4. KnownBodies' /\ ServerState'
    BY <1>1, <1>2 DEF KnownBodies, ServerState, netVars, localVars, boundVars
  <1>5. RowInFlight'
    BY <1>1, <1>2 DEF RowInFlight, netVars, localVars
  <1>6. DirtyIsLocal' /\ OwedIsDirty'
    BY <1>2 DEF DirtyIsLocal, OwedIsDirty, localVars, ghostVars
  <1> QED BY <1>3, <1>4, <1>5, <1>6

(* The pushed row becomes the assumed master state: what is owed after it  *)
(* is a later write, so it still differs from it.                          *)
LEMMA PushDoneIInv ==
  ASSUME IInv, PushDone, push.stage # "idle", skipped' \in Docs
  PROVE  IInv'
  <1> USE DEF IInv
  <1>1. /\ meta' = push.doc /\ push' = Idle /\ fork' = fork
        /\ owed' = IF owed = push.doc THEN NoDoc ELSE owed
        /\ UNCHANGED <<netVars, pull, cp, boundVars>>
    BY DEF PushDone
  <1>2. TypeOK'
    BY <1>1, IdleType, NoDocType DEF TypeOK, netVars, boundVars
  <1>3. KnownBodies' /\ ServerState'
    BY <1>1 DEF KnownBodies, ServerState, TypeOK, netVars, boundVars, Idle, NoDoc
  <1>4. RowInFlight'
    BY <1>1 DEF RowInFlight, Idle
  <1>5. DirtyIsLocal' /\ OwedIsDirty'
    BY <1>1 DEF RowInFlight, DirtyIsLocal, OwedIsDirty
  <1> QED BY <1>2, <1>3, <1>4, <1>5

LEMMA PushAnsweredIInv ==
  ASSUME IInv, PushAcked \/ PushSkipped
  PROVE  IInv'
  <1>1. PushDone /\ push.stage # "idle"
    BY DEF PushAcked, PushSkipped, Acked
  <1>2. skipped' \in Docs
    BY DEF PushAcked, PushSkipped, IInv, TypeOK
  <1> QED BY <1>1, <1>2, PushDoneIInv

(* The row of a conflict is a create, so it carries the flag and wins.     *)
LEMMA PushConflictIInv ==
  ASSUME IInv, PushConflict
  PROVE  IInv'
  <1> USE DEF IInv
  <1>1. /\ push.stage = "get" /\ push.resp = "ok" /\ push' = Idle
        /\ UNCHANGED <<netVars, pull, cp, boundVars, ghostVars>>
    BY DEF PushConflict
  <1>2. Resolve(push.doc, push.got) = push.doc
    BY <1>1 DEF RowInFlight, Resolve
  <1>3. fork' = fork /\ (meta' = meta \/ (fork = push.doc /\ meta' = push.got))
    BY <1>2 DEF PushConflict, localVars
  <1>4. push.got # push.doc /\ ~push.got.own /\ ~push.got.del
    BY <1>1 DEF ServerState, RowInFlight
  <1>5. fork # NoDoc /\ fork # meta' /\ ~(meta'.del /\ ~fork.del)
    BY <1>1, <1>3, <1>4 DEF RowInFlight, DirtyIsLocal
  <1>6. TypeOK'
    BY <1>1, <1>3, IdleType DEF TypeOK, netVars, boundVars, ghostVars
  <1>7. KnownBodies' /\ ServerState'
    BY <1>1, <1>3 DEF KnownBodies, ServerState, TypeOK, netVars, boundVars, Idle, NoDoc
  <1>8. RowInFlight'
    BY <1>1 DEF RowInFlight, Idle
  <1>9. DirtyIsLocal' /\ OwedIsDirty'
    <2>1. meta' = meta \/ fork.lm
      BY <1>1, <1>3 DEF RowInFlight
    <2>2. fork.own \/ fork.del
      BY <1>1 DEF RowInFlight, DirtyIsLocal
    <2> QED BY <1>1, <1>3, <1>5, <2>1, <2>2 DEF DirtyIsLocal, OwedIsDirty, ghostVars
  <1> QED BY <1>6, <1>7, <1>8, <1>9

(* A batch is delivered only to a fork that holds no unpushed write, so    *)
(* never while a row is in flight and never over an unanswered write.      *)
LEMMA PullIInv ==
  ASSUME IInv, Pull
  PROVE  IInv'
  <1> USE DEF IInv
  <1>1. UNCHANGED <<netVars, push, ghostVars, bodies>> /\ faults' \in Nat
    BY DEF Pull, PullTick, PullDocs, PullTombstones, PullNoTombstones, PullApply,
           boundVars, TypeOK
  <1>2. /\ pull' \in [stage: {"due", "idle", "tombstones", "apply"}, got: Docs]
        /\ pull'.got.body <= bodies
    <2>1. CASE PullTick \/ PullApply
      <3>1. Due \in [stage: {"due", "idle", "tombstones", "apply"}, got: Docs]
            /\ NoPull \in [stage: {"due", "idle", "tombstones", "apply"}, got: Docs]
            /\ Due.got.body = 0 /\ NoPull.got.body = 0
        BY NoDocType DEF Due, NoPull, NoDoc
      <3> QED BY <2>1, <3>1 DEF PullTick, PullApply, TypeOK
    <2>2. CASE PullDocs
      <3> DEFINE g == IF srv.alive /\ srv.upd > cp THEN Served(srv) ELSE NoDoc
      <3>1. g \in Docs /\ g.body <= bodies
        BY NoDocType, ServedType DEF TypeOK, KnownBodies, Served, NoDoc
      <3>2. pull' = [stage |-> "tombstones", got |-> g]
        BY <2>2 DEF PullDocs
      <3> HIDE DEF g
      <3> QED BY <3>1, <3>2
    <2>3. CASE PullTombstones
      <3> DEFINE g == IF tomb > cp THEN Buried(tomb) ELSE pull.got
      <3>1. g \in Docs /\ g.body <= bodies
        BY NoDocType DEF TypeOK, KnownBodies, Buried
      <3>2. pull' = [stage |-> "apply", got |-> g]
        BY <2>3 DEF PullTombstones
      <3> HIDE DEF g
      <3> QED BY <3>1, <3>2
    <2>4. CASE PullNoTombstones
      BY <2>4 DEF PullNoTombstones, TypeOK, KnownBodies
    <2> QED BY <2>1, <2>2, <2>3, <2>4 DEF Pull
  <1>3. cp' \in Nat
    BY DEF Pull, PullTick, PullDocs, PullTombstones, PullNoTombstones, PullApply,
           CheckpointOf, TypeOK, Docs
  <1>4. \/ UNCHANGED localVars
        \/ fork = meta /\ fork' = pull.got /\ meta' = pull.got
    BY DEF Pull, PullTick, PullDocs, PullTombstones, PullNoTombstones, PullApply,
           Downstream, localVars
  <1>5. TypeOK'
    BY <1>1, <1>2, <1>3, <1>4 DEF TypeOK, netVars, localVars, ghostVars
  <1>6. KnownBodies' /\ ServerState'
    BY <1>1, <1>2, <1>4 DEF KnownBodies, ServerState, netVars, localVars
  <1>7. RowInFlight'
    BY <1>1, <1>4 DEF RowInFlight, netVars, localVars
  <1>8. DirtyIsLocal' /\ OwedIsDirty'
    BY <1>1, <1>4 DEF DirtyIsLocal, OwedIsDirty, localVars, ghostVars
  <1> QED BY <1>5, <1>6, <1>7, <1>8

LEMMA RestartIInv ==
  ASSUME IInv, Restart
  PROVE  IInv'
  <1> USE DEF IInv
  <1>1. /\ push' = Idle /\ pull' = Due /\ faults' = faults + 1
        /\ UNCHANGED <<netVars, localVars, cp, bodies, ghostVars>>
    BY DEF Restart
  <1>2. TypeOK'
    BY <1>1, IdleType, NoDocType DEF TypeOK, netVars, localVars, ghostVars, Due
  <1>3. KnownBodies' /\ ServerState'
    BY <1>1 DEF KnownBodies, ServerState, TypeOK, netVars, localVars, Idle, Due, NoDoc
  <1>4. RowInFlight' /\ DirtyIsLocal' /\ OwedIsDirty'
    BY <1>1 DEF RowInFlight, DirtyIsLocal, OwedIsDirty, localVars, ghostVars, Idle
  <1> QED BY <1>2, <1>3, <1>4

LEMMA OtherIInv ==
  ASSUME IInv, OtherWrite \/ OtherDelete
  PROVE  IInv'
  <1> USE DEF IInv
  <1>1. UNCHANGED <<localVars, push, pull, cp, ghostVars>> /\ faults' = faults
        /\ bodies' \in Nat /\ bodies' >= bodies
    BY DEF OtherWrite, OtherDelete, boundVars, TypeOK
  <1>2. /\ srv' \in [alive: BOOLEAN, body: Nat, upd: Nat]
        /\ tomb' \in Nat /\ now' \in Nat /\ stored' \in SUBSET Nat
        /\ srv'.body <= bodies'
        /\ stored \subseteq stored'
    <2>1. CASE OtherWrite
      <3> DEFINE d == [NoDoc EXCEPT !.body = bodies + 1]
      <3>1. d \in Docs /\ d.body = bodies + 1
        BY NoDocType DEF Docs, TypeOK
      <3>2. Update(d) /\ bodies' = bodies + 1
        BY <2>1 DEF OtherWrite
      <3> HIDE DEF d
      <3> QED BY <3>1, <3>2, StoreEffect, <1>1
    <2>2. CASE OtherDelete
      BY <2>2, <1>1, BuryEffect DEF OtherDelete, TypeOK, KnownBodies, boundVars
    <2> QED BY <2>1, <2>2
  <1>3. TypeOK'
    BY <1>1, <1>2 DEF TypeOK, localVars, ghostVars
  <1>4. KnownBodies' /\ ServerState'
    BY <1>1, <1>2 DEF KnownBodies, ServerState, TypeOK, Docs, localVars
  <1>5. RowInFlight' /\ DirtyIsLocal' /\ OwedIsDirty'
    BY <1>1, <1>2 DEF RowInFlight, DirtyIsLocal, OwedIsDirty, localVars, ghostVars
  <1> QED BY <1>3, <1>4, <1>5

LEMMA StutterIInv ==
  ASSUME IInv, UNCHANGED vars
  PROVE  IInv'
  BY DEF vars, netVars, localVars, boundVars, ghostVars, IInv, TypeOK, KnownBodies,
         ServerState, RowInFlight, DirtyIsLocal, OwedIsDirty

-----------------------------------------------------------------------------
(* The strengthened invariant holds in every reachable state.              *)
THEOREM Inductive == Spec => []IInv
  <1>1. Init => IInv
    BY InitIInv
  <1>2. IInv /\ [Next]_vars => IInv'
    BY LocalIInv, PushStartIInv, PushServedIInv, PushLostIInv, PushRetryIInv,
       PushFallbackIInv, PushAnsweredIInv, PushConflictIInv, PullIInv,
       RestartIInv, OtherIInv, StutterIInv DEF Next, PushClient
  <1> QED BY <1>1, <1>2, PTL DEF Spec

(* Every variable keeps its type.                                          *)
THEOREM TypeCorrect == Spec => []TypeOK
  <1>1. IInv => TypeOK
    BY DEF IInv
  <1> QED BY <1>1, Inductive, PTL

(* A local write that no push has answered is what the local document      *)
(* shows, whatever is pulled, refused, lost or restarted meanwhile.        *)
THEOREM EditsAreKept == Spec => []UnansweredEditKept
  <1>1. IInv => UnansweredEditKept
    BY DEF IInv, OwedIsDirty, UnansweredEditKept
  <1> QED BY <1>1, Inductive, PTL

(* What the push handler sends was written locally: a pulled state is      *)
(* never echoed to the server.                                             *)
THEOREM NoEcho == Spec => []PushesLocalWritesOnly
  <1>1. IInv => PushesLocalWritesOnly
    BY DEF IInv, RowInFlight, PushesLocalWritesOnly
  <1> QED BY <1>1, Inductive, PTL

(* A local write stops being owed only when the server has held its        *)
(* content, or it was a removal, or the handler skipped it.                *)
THEOREM AnswersAreHonest == Spec => AnsweredMeansStored
  <1>1. IInv /\ [Next]_vars =>
          [owed # NoDoc /\ owed' = NoDoc =>
             owed.body \in stored \/ owed.del \/ skipped' = owed]_vars
    <2> SUFFICES ASSUME IInv, [Next]_vars, owed # NoDoc, owed' = NoDoc
                 PROVE  owed.body \in stored \/ owed.del \/ skipped' = owed
      OBVIOUS
    <2>1. CASE PushAcked
      BY <2>1 DEF PushAcked, PushDone, Acked, IInv, RowInFlight
    <2>2. CASE PushSkipped
      BY <2>2 DEF PushSkipped, PushDone
    <2>3. CASE Local
      <3>1. ASSUME NEW ok \in Validity, LocalCreate(ok)
            PROVE  FALSE
        BY <3>1 DEF LocalCreate, LocalEdit, LocalWrite, NoDoc
      <3>2. ASSUME NEW flag \in BOOLEAN, NEW ok \in Validity, LocalUpdate(flag, ok)
            PROVE  FALSE
        <4>1. owed'.body = bodies + 1
          BY <3>2 DEF LocalUpdate, LocalEdit, LocalWrite
        <4> QED BY <4>1 DEF NoDoc, IInv, TypeOK
      <3>3. ASSUME NEW flag \in BOOLEAN, LocalRemove(flag)
            PROVE  FALSE
        <4>1. owed' = [fork EXCEPT !.del = TRUE, !.lm = flag \/ fork.lm]
          BY <3>3 DEF LocalRemove, LocalWrite
        <4>2. owed'.del
          BY <4>1 DEF IInv, TypeOK, Docs
        <4> QED BY <4>2 DEF NoDoc
      <3> QED BY <2>3, <3>1, <3>2, <3>3 DEF Local
    <2>4. CASE ~(PushAcked \/ PushSkipped \/ Local)
      <3>1. UNCHANGED owed
        BY <2>4 DEF Next, PushClient, PushStart, PushServed, PushLost, PushRetry,
             PushFallback, PushConflict, Pull, PullTick, PullDocs, PullTombstones,
             PullNoTombstones, PullApply, Restart, OtherWrite, OtherDelete,
             ghostVars, vars
      <3> QED BY <3>1
    <2> QED BY <2>1, <2>2, <2>3, <2>4
  <1> QED BY <1>1, Inductive, PTL DEF Spec, AnsweredMeansStored

-----------------------------------------------------------------------------
(***************************************************************************)
(* Polling replication implements LocalEdits, for every number of edits    *)
(* and faults: each step of DocSync is a step of LocalEdits, or leaves     *)
(* unchanged what the user sees, what waits and what the server has held.  *)
(***************************************************************************)

(* Contents are positive; what the server holds, and what a pull brings of *)
(* it, it has held.                                                        *)
FromHistory ==
  /\ stored \subseteq Nat \ {0}
  /\ srv.alive => srv.body \in stored
  /\ pull.got = NoDoc \/ pull.got.del \/ pull.got.body \in stored
  /\ fork # NoDoc /\ ~fork.del => fork.body # 0

(* A removal goes out as a DELETE and nothing else does.                   *)
RowKind ==
  push.stage # "idle" =>
    IF push.doc.del THEN push.stage = "delete" ELSE push.doc.body # 0

(* A write that waits was not refused.                                     *)
OneStatus == owed # NoDoc => skipped = NoDoc

RInv == IInv /\ FromHistory /\ RowKind /\ OneStatus

Step == [Edits!Next]_(Edits!vars)

LEMMA InitRInv == Init => RInv /\ Edits!Init
  <1> SUFFICES ASSUME Init PROVE RInv /\ Edits!Init
    OBVIOUS
  <1>1. IInv
    BY InitIInv
  <1>2. FromHistory /\ RowKind /\ OneStatus
    BY DEF Init, FromHistory, RowKind, OneStatus, NoDoc, Idle, Due
  <1>3. Edits!Init
    BY <1>2 DEF Init, FromHistory, Edits!Init, Content, EditStatus, NoDoc
  <1> QED BY <1>1, <1>2, <1>3 DEF RInv

(* Nothing the user or the server's history shows has changed.             *)
LEMMA StutterStep ==
  ASSUME UNCHANGED <<fork, owed, skipped, stored>>
  PROVE  Step
  BY DEF Step, Edits!vars, EditStatus

LEMMA LocalStep ==
  ASSUME RInv, Local
  PROVE  FromHistory' /\ RowKind' /\ OneStatus' /\ Step
  <1> USE DEF RInv, IInv
  <1>1. /\ owed' = fork' /\ skipped' = NoDoc
        /\ UNCHANGED <<srv, stored, push, pull>>
    BY DEF Local, LocalCreate, LocalUpdate, LocalRemove, LocalEdit, LocalWrite
  <1>2. fork' \in Docs /\ fork' # NoDoc /\ (~fork'.del => fork'.body # 0)
    <2>1. ASSUME NEW flag \in BOOLEAN, NEW ok \in Validity, LocalEdit(flag, ok)
          PROVE  fork' \in Docs /\ fork' # NoDoc /\ fork'.body # 0
      <3>1. fork' = [body |-> bodies + 1, upd |-> now + 1, own |-> TRUE,
                     lm |-> flag, del |-> FALSE, valid |-> ok]
        BY <2>1 DEF LocalEdit, LocalWrite
      <3>2. ok \in BOOLEAN /\ bodies \in Nat /\ now \in Nat
        BY ValidityAssumption DEF TypeOK
      <3>3. fork' \in Docs
        BY <3>1, <3>2 DEF Docs
      <3>4. fork'.body # 0
        BY <3>1, <3>2
      <3> QED BY <3>3, <3>4 DEF NoDoc
    <2>2. ASSUME NEW flag \in BOOLEAN, LocalRemove(flag)
          PROVE  fork' \in Docs /\ fork' # NoDoc /\ fork'.del
      BY <2>2 DEF LocalRemove, LocalWrite, TypeOK, Docs, NoDoc
    <2>3. \A flag \in BOOLEAN : flag \/ fork.lm \in BOOLEAN
      BY DEF TypeOK, Docs
    <2> QED BY <2>1, <2>2, <2>3 DEF Local, LocalCreate, LocalUpdate
  <1>3. FromHistory' /\ RowKind' /\ OneStatus'
    BY <1>1, <1>2 DEF FromHistory, RowKind, OneStatus
  <1>4. Edits!Write
    <2>2. EditStatus' = "waiting"
      BY <1>1, <1>2 DEF EditStatus
    <2>3. Content(owed)' = Content(fork)'
      BY <1>1 DEF Content
    <2>4. Content(fork)' \in Nat
      BY <1>2 DEF Content, Docs
    <2> QED BY <1>1, <2>2, <2>3, <2>4 DEF Edits!Write
  <1> QED BY <1>3, <1>4 DEF Step, Edits!Next

(* A request the server executes adds to its history what the row holds.   *)
LEMMA ServeHistory ==
  ASSUME RInv, push.stage # "idle", NEW r \in Answers, Serve(r)
  PROVE  /\ stored \subseteq stored' /\ stored' \subseteq Nat \ {0}
         /\ srv'.alive => srv'.body \in stored'
  <1> USE DEF RInv, IInv
  <1>1. CASE UNCHANGED netVars
    BY <1>1 DEF netVars, FromHistory
  <1>2. CASE Bury
    BY <1>2 DEF Bury, FromHistory, TypeOK
  <1>3. CASE (Update(push.doc) \/ Create(push.doc)) /\ push.stage # "delete"
    <2>1. push.doc.body \in Nat \ {0}
      BY <1>3 DEF RowKind, TypeOK, Docs
    <2>2. stored' = stored \union {push.doc.body} /\ srv'.body = push.doc.body
      BY <1>3 DEF Update, Create, Store
    <2> QED BY <2>1, <2>2 DEF FromHistory
  <1> QED BY <1>1, <1>2, <1>3 DEF Serve, ServeDelete, ServeCreate, ServeUpdate,
            ServeExisting

LEMMA RequestStep ==
  ASSUME RInv, PushServed \/ PushLost
  PROVE  FromHistory' /\ RowKind' /\ OneStatus' /\ Step
  <1> USE DEF RInv, IInv
  <1>1. /\ push'.stage = push.stage /\ push'.doc = push.doc /\ push.stage # "idle"
        /\ UNCHANGED <<fork, pull, owed, skipped>>
    BY DEF PushServed, PushLost, localVars, ghostVars, TypeOK
  <1>2. /\ stored \subseteq stored' /\ stored' \subseteq Nat \ {0}
        /\ srv'.alive => srv'.body \in stored'
    <2>1. CASE UNCHANGED netVars
      BY <2>1 DEF netVars, FromHistory
    <2>2. CASE \E r \in Answers : Serve(r)
      BY <1>1, <2>2, ServeHistory
    <2> QED BY <2>1, <2>2 DEF PushServed, PushLost
  <1>3. FromHistory' /\ RowKind' /\ OneStatus'
    BY <1>1, <1>2 DEF FromHistory, RowKind, OneStatus
  <1>4. Edits!Hold
    BY <1>1, <1>2 DEF Edits!Hold, Content, EditStatus
  <1> QED BY <1>3, <1>4 DEF Step, Edits!Next

LEMMA ProgressStep ==
  ASSUME RInv, PushStart \/ PushRetry \/ PushFallback \/ PushConflict \/ Restart
  PROVE  FromHistory' /\ RowKind' /\ OneStatus' /\ Step
  <1> USE DEF RInv, IInv
  <1>1. UNCHANGED <<srv, stored, owed, skipped>>
    BY DEF PushStart, PushRetry, PushFallback, PushConflict, Restart, netVars, ghostVars
  <1>2. fork' = fork
    BY DEF PushStart, PushRetry, PushFallback, PushConflict, Restart, localVars,
         RowInFlight, Resolve
  <1>3. pull' = pull \/ pull' = Due
    BY DEF PushStart, PushRetry, PushFallback, PushConflict, Restart
  <1>4. FromHistory' /\ OneStatus'
    BY <1>1, <1>2, <1>3 DEF FromHistory, OneStatus, Due
  <1>5. RowKind'
    <2>1. CASE PushStart
      <3>1. fork # NoDoc
        BY <2>1 DEF PushStart, DirtyIsLocal
      <3>2. push'.doc = fork /\ push'.stage = FirstStage(fork, meta = NoDoc)
        BY <2>1 DEF PushStart
      <3> QED BY <3>1, <3>2 DEF FirstStage, FromHistory, RowKind
    <2>2. CASE PushRetry
      BY <2>2 DEF PushRetry, Rethrows, RowKind, FirstStage, TypeOK
    <2>3. CASE PushFallback
      BY <2>3 DEF PushFallback, RowKind, TypeOK
    <2>4. CASE PushConflict \/ Restart
      BY <2>4 DEF PushConflict, Restart, RowKind, Idle
    <2> QED BY <2>1, <2>2, <2>3, <2>4
  <1> QED BY <1>1, <1>2, <1>4, <1>5, StutterStep

LEMMA AnswerStep ==
  ASSUME RInv, PushAcked \/ PushSkipped
  PROVE  FromHistory' /\ RowKind' /\ OneStatus' /\ Step
  <1> USE DEF RInv, IInv
  <1>1. /\ UNCHANGED <<srv, stored, fork, pull>> /\ push' = Idle
        /\ owed' = IF owed = push.doc THEN NoDoc ELSE owed
        /\ push.stage # "idle" /\ push.doc # NoDoc
    BY DEF PushAcked, PushSkipped, PushDone, Acked, netVars, RowInFlight
  <1>2. owed # push.doc => UNCHANGED <<owed, skipped>>
    BY <1>1 DEF PushAcked, PushSkipped
  <1>3. FromHistory' /\ RowKind' /\ OneStatus'
    BY <1>1, <1>2 DEF FromHistory, RowKind, OneStatus, Idle
  <1>4. CASE owed # push.doc
    BY <1>1, <1>2, <1>3, <1>4, StutterStep
  <1>5. CASE owed = push.doc /\ PushAcked
    <2>1. fork = push.doc /\ skipped' = NoDoc /\ owed' = NoDoc
      BY <1>1, <1>5 DEF PushAcked, OwedIsDirty, OneStatus
    <2>2. Content(fork) \in stored \union {0}
      BY <1>5, <2>1 DEF Content, PushAcked, Acked, RowInFlight
    <2>3. Edits!Taken
      BY <1>1, <1>5, <2>1, <2>2 DEF Edits!Taken, Content, EditStatus, NoDoc
    <2> QED BY <1>3, <2>3 DEF Step, Edits!Next
  <1>6. CASE owed = push.doc /\ PushSkipped
    <2>1. fork = push.doc /\ skipped' = owed /\ owed' = NoDoc
      BY <1>1, <1>6 DEF PushSkipped, OwedIsDirty
    <2>2. Content(fork) # 0
      BY <1>1, <1>6, <2>1 DEF Content, PushSkipped, RowKind
    <2>3. Edits!Refused
      BY <1>1, <1>6, <2>1, <2>2 DEF Edits!Refused, Content, EditStatus, NoDoc
    <2> QED BY <1>3, <2>3 DEF Step, Edits!Next
  <1> QED BY <1>4, <1>5, <1>6

LEMMA PullStep ==
  ASSUME RInv, Pull
  PROVE  FromHistory' /\ RowKind' /\ OneStatus' /\ Step
  <1> USE DEF RInv, IInv
  <1>1. UNCHANGED <<srv, stored, push, owed, skipped>>
    BY DEF Pull, PullTick, PullDocs, PullTombstones, PullNoTombstones, PullApply,
           netVars, ghostVars
  <1>2. RowKind' /\ OneStatus'
    BY <1>1 DEF RowKind, OneStatus
  <1>3. CASE PullApply
    <2>1. \/ UNCHANGED fork
          \/ fork = meta /\ fork' = pull.got /\ pull.got # NoDoc
      BY <1>3 DEF PullApply, Downstream, localVars
    <2>2. pull' = NoPull
      BY <1>3 DEF PullApply
    <2>3. FromHistory'
      BY <1>1, <2>1, <2>2 DEF FromHistory, NoPull
    <2>4. CASE UNCHANGED fork
      BY <1>1, <1>2, <2>3, <2>4, StutterStep
    <2>5. CASE fork = meta /\ fork' = pull.got /\ pull.got # NoDoc
      <3>1. EditStatus # "waiting" /\ EditStatus' = EditStatus
        BY <1>1, <2>5 DEF EditStatus, OwedIsDirty
      <3>2. Content(fork)' \in stored \union {0}
        BY <2>5 DEF Content, FromHistory
      <3>3. Edits!Refresh
        BY <1>1, <3>1, <3>2 DEF Edits!Refresh, Content
      <3> QED BY <1>2, <2>3, <3>3 DEF Step, Edits!Next
    <2> QED BY <2>1, <2>4, <2>5
  <1>4. CASE PullTick \/ PullDocs \/ PullTombstones \/ PullNoTombstones
    <2>1. fork' = fork
      BY <1>4 DEF PullTick, PullDocs, PullTombstones, PullNoTombstones, localVars
    <2>2. \/ pull'.got = NoDoc \/ pull'.got.del \/ pull'.got.body \in stored
      <3>1. CASE PullDocs
        BY <3>1 DEF PullDocs, FromHistory, Served
      <3>2. CASE PullTombstones
        <4>1. pull'.got = Buried(tomb) \/ pull'.got = pull.got
          BY <3>2 DEF PullTombstones
        <4> QED BY <4>1 DEF Buried, FromHistory
      <3>3. CASE PullTick \/ PullNoTombstones
        BY <3>3 DEF PullTick, PullNoTombstones, Due, FromHistory, TypeOK
      <3> QED BY <1>4, <3>1, <3>2, <3>3
    <2>3. FromHistory'
      BY <1>1, <2>1, <2>2 DEF FromHistory
    <2> QED BY <1>1, <1>2, <2>1, <2>3, StutterStep
  <1> QED BY <1>3, <1>4 DEF Pull

LEMMA OtherStep ==
  ASSUME RInv, OtherWrite \/ OtherDelete
  PROVE  FromHistory' /\ RowKind' /\ OneStatus' /\ Step
  <1> USE DEF RInv, IInv
  <1>1. UNCHANGED <<fork, push, pull, owed, skipped>>
    BY DEF OtherWrite, OtherDelete, localVars, ghostVars
  <1>2. /\ stored \subseteq stored' /\ stored' \subseteq Nat \ {0}
        /\ srv'.alive => srv'.body \in stored'
    <2>1. CASE OtherWrite
      <3> DEFINE d == [NoDoc EXCEPT !.body = bodies + 1]
      <3>1. d.body = bodies + 1 /\ bodies \in Nat
        BY DEF NoDoc, TypeOK
      <3>2. stored' = stored \union {d.body} /\ srv'.body = d.body
        BY <2>1 DEF OtherWrite, Update, Store
      <3> HIDE DEF d
      <3> QED BY <3>1, <3>2 DEF FromHistory
    <2>2. CASE OtherDelete
      BY <2>2 DEF OtherDelete, Bury, FromHistory, TypeOK
    <2> QED BY <2>1, <2>2
  <1>3. FromHistory' /\ RowKind' /\ OneStatus'
    BY <1>1, <1>2 DEF FromHistory, RowKind, OneStatus
  <1>4. Edits!Hold
    BY <1>1, <1>2 DEF Edits!Hold, Content, EditStatus
  <1> QED BY <1>3, <1>4 DEF Step, Edits!Next

LEMMA UnchangedStep ==
  ASSUME RInv, UNCHANGED vars
  PROVE  FromHistory' /\ RowKind' /\ OneStatus' /\ Step
  <1>1. UNCHANGED <<srv, fork, push, pull, owed, skipped, stored>>
    BY DEF vars, netVars, localVars, ghostVars
  <1> QED BY <1>1, StutterStep DEF RInv, FromHistory, RowKind, OneStatus

-----------------------------------------------------------------------------
(* Polling replication keeps the promise of LocalEdits: offline edits are  *)
(* never silently dropped, and nothing is shown that the server never held *)
(* but the user's own writes.                                              *)
THEOREM ImplementsLocalEdits == Spec => Promise
  <1>1. Init => RInv /\ Edits!Init
    BY InitRInv
  <1>2. RInv /\ [Next]_vars => RInv'
    <2>1. IInv /\ [Next]_vars => IInv'
      BY LocalIInv, PushStartIInv, PushServedIInv, PushLostIInv, PushRetryIInv,
         PushFallbackIInv, PushAnsweredIInv, PushConflictIInv, PullIInv,
         RestartIInv, OtherIInv, StutterIInv DEF Next, PushClient
    <2>2. RInv /\ [Next]_vars => FromHistory' /\ RowKind' /\ OneStatus'
      BY LocalStep, RequestStep, ProgressStep, AnswerStep, PullStep, OtherStep,
         UnchangedStep DEF Next, PushClient
    <2> QED BY <2>1, <2>2 DEF RInv
  <1>3. RInv /\ [Next]_vars => [Edits!Next]_(Edits!vars)
    BY LocalStep, RequestStep, ProgressStep, AnswerStep, PullStep, OtherStep,
       UnchangedStep DEF Next, PushClient, Step
  <1> QED BY <1>1, <1>2, <1>3, PTL DEF Spec, Promise, Edits!Spec

=============================================================================
