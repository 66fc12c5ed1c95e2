------------------------------ MODULE DocSync ------------------------------
(***************************************************************************)
(* Polling replication of ONE document between a client's local database   *)
(* and the Payload server: local writes, the push handler with its         *)
(* fallbacks, the two-fetch pull, restarts, and other users' writes.       *)
(*                                                                         *)
(* The local copy is the RxDB "fork"; beside it RxDB keeps the master      *)
(* state it believes in, "meta" (assumedMasterState).  RxDB itself is a    *)
(* library: Downstream, PushStart and PushDone below are its part and are  *)
(* marked external in the map.                                             *)
(***************************************************************************)
EXTENDS Naturals

CONSTANTS
  MaxBodies,   \* bound: contents written by any user, over a behaviour
  MaxFaults,   \* bound: restarts, lost requests and lost responses
  Validity     \* which validity a local edit may have: a subset of BOOLEAN

ASSUME BoundsAssumption == MaxBodies \in Nat /\ MaxFaults \in Nat
ASSUME ValidityAssumption == Validity \in SUBSET BOOLEAN

VARIABLES
  srv,      \* the document in the server's collection
  tomb,     \* deletedAt of its newest tombstone, 0 when there is none
  now,      \* the clock; server and client agree on the time
  fork,     \* the local document
  meta,     \* the master state RxDB assumes
  push,     \* the push handler's progress on one change row
  pull,     \* the pull handler's progress on one batch
  cp,       \* the pull checkpoint's updatedAt, 0 before the first batch
  bodies,   \* how many contents were written so far
  faults,   \* how many faults happened so far
  owed,     \* history: the local write no push has answered, or NoDoc
  skipped,  \* history: the local write the push handler gave up on, or NoDoc
  stored    \* history: every content the server has held

netVars    == <<srv, tomb, now, stored>>
localVars  == <<fork, meta>>
ghostVars  == <<owed, skipped>>
boundVars  == <<bodies, faults>>
vars == <<netVars, localVars, push, pull, cp, boundVars, ghostVars>>

(* A document state.  Contents are numbered; upd is updatedAt, and own says*)
(* whether a local write gave it; valid says whether the server's field    *)
(* validation accepts the content.                                         *)
Docs == [body: Nat, upd: Nat, own: BOOLEAN, lm: BOOLEAN, del: BOOLEAN,
         valid: BOOLEAN]

NoDoc == [body |-> 0, upd |-> 0, own |-> FALSE, lm |-> FALSE, del |-> FALSE,
          valid |-> TRUE]

(* A server document as the pull handler hands it to RxDB.                 *)
Served(s) ==
  [body |-> s.body, upd |-> s.upd, own |-> FALSE, lm |-> FALSE, del |-> FALSE,
   valid |-> TRUE]

(* A tombstone as the pull handler hands it to RxDB.                       *)
BuriedBare(t) == [upd |-> t, del |-> TRUE]

Buried(t) ==
  [body |-> 0, upd |-> t, own |-> FALSE, lm |-> FALSE, del |-> TRUE,
   valid |-> TRUE]

Present(d) == d # NoDoc /\ ~d.del

Idle == [stage |-> "idle", doc |-> NoDoc, resp |-> "none", got |-> NoDoc,
         new |-> FALSE]

NoPull == [stage |-> "idle", got |-> NoDoc]

(* A pull has begun but its first fetch is not answered.  On start RxDB    *)
(* begins a first pull and a first push side by side.                      *)
Due == [stage |-> "due", got |-> NoDoc]

Init ==
  /\ \/ srv = [alive |-> FALSE, body |-> 0, upd |-> 0] /\ now = 0
     \/ srv = [alive |-> TRUE, body |-> 1, upd |-> 1] /\ now = 1
  /\ tomb = 0
  /\ fork = NoDoc /\ meta = NoDoc
  /\ push = Idle /\ pull = Due
  /\ cp = 0
  /\ bodies = now /\ faults = 0
  /\ owed = NoDoc /\ skipped = NoDoc
  /\ stored = IF srv.alive THEN {1} ELSE {}

-----------------------------------------------------------------------------
(* Local writes (hooks.ts).                                                *)

LocalWrite(d) ==
  /\ fork' = d
  /\ owed' = d
  /\ skipped' = NoDoc
  /\ UNCHANGED <<srv, tomb, stored, meta, push, pull, cp, faults>>

(* A new content, stamped with the client's clock.                         *)
LocalEdit(flag, ok) ==
  /\ bodies < MaxBodies
  /\ bodies' = bodies + 1
  /\ now' = now + 1
  /\ LocalWrite([body |-> bodies + 1, upd |-> now + 1, own |-> TRUE,
                 lm |-> flag, del |-> FALSE, valid |-> ok])

(* useLocalMutations.create: a new id, flagged as locally modified.        *)
LocalCreate(ok) ==
  /\ fork = NoDoc /\ bodies = 0
  /\ LocalEdit(TRUE, ok)

(* useLocalMutations.update sets the flag; useLocalDocument.update and the *)
(* upload queue's patchLocalDoc leave it as it was.                        *)
LocalUpdate(flag, ok) ==
  /\ Present(fork)
  /\ LocalEdit(flag \/ fork.lm, ok)

(* Soft delete: only _deleted (and, in useLocalMutations, the flag) change.*)
LocalRemove(flag) ==
  /\ Present(fork)
  /\ UNCHANGED <<bodies, now>>
  /\ LocalWrite([fork EXCEPT !.del = TRUE, !.lm = flag \/ fork.lm])

-----------------------------------------------------------------------------
(* The push handler.  One change row at a time (batchSize 1).              *)

FirstStage(d, new) ==
  IF d.del THEN "delete" ELSE IF new THEN "post" ELSE "patch"

(* RxDB hands over the fork state whenever it differs from meta.           *)
PushStart ==
  /\ push.stage = "idle"
  /\ fork # meta
  /\ push' = [stage |-> FirstStage(fork, meta = NoDoc), doc |-> fork,
              resp |-> "none", got |-> NoDoc, new |-> meta = NoDoc]
  /\ UNCHANGED <<netVars, localVars, pull, cp, boundVars, ghostVars>>

(* What the server stores.                                                 *)
Store(d, stamp) ==
  /\ srv' = [alive |-> TRUE, body |-> d.body, upd |-> stamp]
  /\ stored' = stored \union {d.body}
  /\ UNCHANGED tomb

(* An update is stored under a fresh updatedAt.                            *)
Update(d) == now' = now + 1 /\ Store(d, now + 1)

(* A creation keeps the updatedAt the client sent: Payload's database      *)
(* adapter sets one only where there is none.                              *)
Create(d) == UNCHANGED now /\ Store(d, d.upd)

(* The server removes the document; the afterDelete hook writes its        *)
(* tombstone (PullCursor has the two as steps, and the insert that fails). *)
Bury ==
  /\ srv' = [srv EXCEPT !.alive = FALSE]
  /\ now' = now + 1
  /\ tomb' = now + 1
  /\ UNCHANGED stored

(* What the server does with the outstanding request, and its answer r.    *)
ServeDelete(r) ==
  /\ push.stage = "delete"
  /\ \/ srv.alive /\ Bury /\ r = "ok"
     \/ ~srv.alive /\ r = "404" /\ UNCHANGED netVars
     \/ srv.alive /\ r = "refused" /\ UNCHANGED netVars

ServeCreate(r) ==
  /\ push.stage \in {"post", "repost"}
  /\ \/ ~srv.alive /\ push.doc.valid /\ Create(push.doc) /\ r = "ok"
     \/ (srv.alive \/ ~push.doc.valid) /\ r = "400" /\ UNCHANGED netVars

ServeUpdate(r) ==
  /\ push.stage = "patch"
  /\ \/ ~srv.alive /\ r = "404" /\ UNCHANGED netVars
     \/ srv.alive /\ push.doc.valid /\ Update(push.doc) /\ r = "ok"
     \/ srv.alive /\ ~push.doc.valid /\ r = "400" /\ UNCHANGED netVars

ServeExisting(r) ==
  /\ push.stage = "get"
  /\ r = IF srv.alive THEN "ok" ELSE "404"
  /\ UNCHANGED netVars

Serve(r) == ServeDelete(r) \/ ServeCreate(r) \/ ServeUpdate(r) \/ ServeExisting(r)

Answers == {"ok", "400", "404", "refused"}

(* The request is executed and answered.                                   *)
PushServed ==
  /\ push.stage # "idle" /\ push.resp = "none"
  /\ \E r \in Answers :
       /\ Serve(r)
       /\ push' = [push EXCEPT !.resp = r,
                     !.got = IF push.stage = "get" /\ srv.alive
                               THEN Served(srv) ELSE NoDoc]
  /\ UNCHANGED <<localVars, pull, cp, boundVars, ghostVars>>

(* The network loses the request, or its response after the server acted,  *)
(* or the server answers 5xx: fetch throws, or the status is not ok.       *)
PushLost ==
  /\ push.stage # "idle" /\ push.resp = "none"
  /\ faults < MaxFaults
  /\ faults' = faults + 1
  /\ push' = [push EXCEPT !.resp = "fail"]
  /\ UNCHANGED netVars \/ \E r \in Answers : Serve(r)
  /\ UNCHANGED <<localVars, pull, cp, bodies, ghostVars>>

(* The handler throws on a lost request and on a status it has no case for,*)
(* which includes a PATCH refused by validation.                           *)
RethrowsNotFound(stage, resp) ==
  \/ stage \in {"delete", "post", "patch", "repost"} /\ resp = "fail"
  \/ stage = "patch" /\ resp \in {"400", "404"}

Rethrows(stage, resp) ==
  \/ stage \in {"delete", "post", "patch", "repost"} /\ resp = "fail"
  \/ stage = "patch" /\ resp = "400"

(* RxDB calls a handler that threw again, with the same row.               *)
PushRetry ==
  /\ Rethrows(push.stage, push.resp)
  /\ push' = [push EXCEPT !.stage = FirstStage(push.doc, push.new), !.resp = "none"]
  /\ UNCHANGED <<netVars, localVars, pull, cp, boundVars, ghostVars>>

(* 400 on create: look whether the document exists.  404 on update: create.*)
PushFallback ==
  /\ \/ push.stage = "post" /\ push.resp = "400"
        /\ push' = [push EXCEPT !.stage = "get", !.resp = "none"]
     \/ push.stage = "patch" /\ push.resp = "404"
        /\ push' = [push EXCEPT !.stage = "repost", !.resp = "none"]
  /\ UNCHANGED <<netVars, localVars, pull, cp, boundVars, ghostVars>>

(* The handler returned without a conflict: RxDB takes the row as pushed.  *)
PushDone ==
  /\ meta' = push.doc
  /\ push' = Idle
  /\ owed' = IF owed = push.doc THEN NoDoc ELSE owed
  /\ UNCHANGED <<netVars, fork, pull, cp, boundVars>>

(* A 2xx answer; any answer at all to a DELETE, whose status is not read.  *)
AckedUnread(stage, resp) ==
  \/ stage \in {"post", "patch", "repost"} /\ resp \in {"ok", "400"}
  \/ stage = "delete" /\ resp \in {"ok", "404", "refused"}

Acked(stage, resp) ==
  \/ stage \in {"post", "patch", "repost"} /\ resp = "ok"
  \/ stage = "delete" /\ resp \in {"ok", "404", "refused"}

PushAcked ==
  /\ Acked(push.stage, push.resp)
  /\ PushDone
  /\ UNCHANGED skipped

(* 400, and the document is not found (or the lookup failed): warn, skip.  *)
PushSkipped ==
  /\ \/ push.stage = "get" /\ push.resp \in {"404", "fail"}
     \/ push.stage = "repost" /\ push.resp = "400"
  /\ PushDone
  /\ skipped' = IF owed = push.doc THEN owed ELSE skipped

(* payloadConflictHandler.resolve: local wins while it is flagged.         *)
ResolveServerWins(local, real) == real

ResolveKeepsFlag(local, real) == [real EXCEPT !.lm = local.lm]

Resolve(local, real) == IF local.lm THEN local ELSE real

(* 400 on create but the document exists: a conflict.  RxDB writes the     *)
(* resolution to the fork unless the fork changed meanwhile.               *)
PushConflict ==
  /\ push.stage = "get" /\ push.resp = "ok"
  /\ push' = Idle
  /\ IF fork = push.doc
       THEN /\ fork' = Resolve(push.doc, push.got)
            /\ meta' = push.got
       ELSE UNCHANGED localVars
  /\ UNCHANGED <<netVars, pull, cp, boundVars, ghostVars>>

-----------------------------------------------------------------------------
(* The pull handler: the documents, then the tombstones, then RxDB's       *)
(* downstream.  The checkpoint is the last element's updatedAt.            *)

(* A RESYNC tick starts a pull; RxDB holds ticks back while a push is      *)
(* running, but a push may start while a pull is running.                  *)
PullTick ==
  /\ pull.stage = "idle" /\ push.stage = "idle"
  /\ pull' = Due
  /\ UNCHANGED <<netVars, localVars, push, cp, boundVars, ghostVars>>

(* The first fetch, called again every retryTime until it is answered.     *)
PullDocs ==
  /\ pull.stage = "due"
  /\ pull' = [stage |-> "tombstones",
              got |-> IF srv.alive /\ srv.upd > cp THEN Served(srv) ELSE NoDoc]
  /\ UNCHANGED <<netVars, localVars, push, cp, boundVars, ghostVars>>

(* Tombstones come after the documents, so within a batch they win.        *)
PullTombstones ==
  /\ pull.stage = "tombstones"
  /\ pull' = [stage |-> "apply",
              got |-> IF tomb > cp THEN Buried(tomb) ELSE pull.got]
  /\ UNCHANGED <<netVars, localVars, push, cp, boundVars, ghostVars>>

(* The tombstone fetch failed: not fatal, the documents are delivered.     *)
PullNoTombstones ==
  /\ pull.stage = "tombstones"
  /\ faults < MaxFaults
  /\ faults' = faults + 1
  /\ pull' = [pull EXCEPT !.stage = "apply"]
  /\ UNCHANGED <<netVars, localVars, push, cp, bodies, ghostVars>>

(* RxDB ignores a pulled state while the fork holds an unpushed write.     *)
DownstreamByFlag(m) ==
  IF ~fork.lm
    THEN fork' = m /\ meta' = m
    ELSE UNCHANGED localVars

Downstream(m) ==
  IF fork = meta
    THEN fork' = m /\ meta' = m
    ELSE UNCHANGED localVars

(* The checkpoint the handler returns with a batch whose last element is d.*)
CheckpointOf(d) == d.upd

PullApply ==
  /\ pull.stage = "apply"
  /\ pull' = NoPull
  /\ IF pull.got = NoDoc
       THEN UNCHANGED <<localVars, cp>>
       ELSE Downstream(pull.got) /\ cp' = CheckpointOf(pull.got)
  /\ UNCHANGED <<netVars, push, boundVars, ghostVars>>

-----------------------------------------------------------------------------
(* Restart, or eviction and reopening, of the collection: fork, meta and   *)
(* the checkpoint are in SQLite, handlers in progress are not.             *)
Restart ==
  /\ faults < MaxFaults
  /\ push # Idle \/ pull # Due
  /\ faults' = faults + 1
  /\ push' = Idle /\ pull' = Due
  /\ UNCHANGED <<netVars, localVars, cp, bodies, ghostVars>>

(* Other users, through any other client.                                  *)
OtherWrite ==
  /\ srv.alive
  /\ bodies < MaxBodies
  /\ bodies' = bodies + 1
  /\ Update([NoDoc EXCEPT !.body = bodies + 1])
  /\ UNCHANGED <<localVars, push, pull, cp, faults, ghostVars>>

OtherDelete ==
  /\ srv.alive
  /\ Bury
  /\ UNCHANGED <<localVars, push, pull, cp, boundVars, ghostVars>>

-----------------------------------------------------------------------------
Local ==
  \/ \E ok \in Validity : LocalCreate(ok)
  \/ \E flag \in BOOLEAN, ok \in Validity : LocalUpdate(flag, ok)
  \/ \E flag \in BOOLEAN : LocalRemove(flag)

PushClient == PushRetry \/ PushFallback \/ PushAcked \/ PushSkipped \/ PushConflict

Pull == PullTick \/ PullDocs \/ PullTombstones \/ PullNoTombstones \/ PullApply

Next ==
  \/ Local
  \/ PushStart \/ PushServed \/ PushLost \/ PushClient
  \/ Pull
  \/ Restart \/ OtherWrite \/ OtherDelete

(* RxDB retries a failed push (retryTime) and re-pulls on every RESYNC     *)
(* tick; the network and the server answer in the end.  Users owe nothing. *)
Fairness ==
  /\ WF_vars(PushStart) /\ WF_vars(PushServed) /\ WF_vars(PushClient)
  /\ WF_vars(Pull)

Spec == Init /\ [][Next]_vars
FairSpec == Spec /\ Fairness

-----------------------------------------------------------------------------
Stages == {"idle", "delete", "post", "get", "patch", "repost"}

TypeOK ==
  /\ srv \in [alive: BOOLEAN, body: Nat, upd: Nat]
  /\ tomb \in Nat /\ now \in Nat /\ cp \in Nat
  /\ fork \in Docs /\ meta \in Docs
  /\ push \in [stage: Stages, doc: Docs, got: Docs, new: BOOLEAN,
               resp: Answers \union {"none", "fail"}]
  /\ pull \in [stage: {"due", "idle", "tombstones", "apply"}, got: Docs]
  /\ bodies \in Nat /\ faults \in Nat
  /\ owed \in Docs /\ skipped \in Docs
  /\ stored \in SUBSET Nat

(* Offline edits are never silently dropped (database.ts:155, README.md:74)*)
(* While no push has answered a local write, the local document shows it:  *)
(* no pull, no conflict, no restart and no push of an older write takes it *)
(* away.                                                                   *)
UnansweredEditKept ==
  owed # NoDoc => fork.body = owed.body /\ fork.del = owed.del

(* Polling replication pushes local writes only: what a pull brought in is *)
(* never sent back (no echo loop).                                         *)
PushesLocalWritesOnly ==
  push.stage # "idle" => push.doc.own \/ push.doc.del

(* A local write stops being owed only when the server has held its        *)
(* content, or it was a removal, or the handler skipped it.                *)
AnsweredMeansStored ==
  [][owed # NoDoc /\ owed' = NoDoc =>
       owed.body \in stored \/ owed.del \/ skipped' = owed]_vars

(* Every local write is answered, unless the row in flight is one that the *)
(* server's validation refuses to update: that one is retried for ever.    *)
EditsGetAnswered ==
  owed # NoDoc ~> owed = NoDoc \/ ~push.doc.valid

(* A skipped document stays local until its next local edit                *)
(* (replication.ts:215-219, 252-255).                                      *)
SkippedEditStaysLocal ==
  skipped # NoDoc => fork.body = skipped.body /\ ~fork.del

(* What the user is promised (LocalEdits): the document shown is the last  *)
(* local write, owed, until that is answered, and what replaces it comes   *)
(* from the server's history.  Only a local write gives owed a content.    *)
Content(d) == IF d.del THEN 0 ELSE d.body

EditStatus ==
  IF owed # NoDoc THEN "waiting" ELSE IF skipped # NoDoc THEN "refused" ELSE "settled"

Edits == INSTANCE LocalEdits
  WITH Contents <- Nat \ {0}, Nothing <- 0, shown <- Content(fork),
       wish <- Content(owed), edit <- EditStatus, held <- stored

(* Offline edits are never silently dropped: no step but the user's own    *)
(* changes what is shown while a local write waits, and the user sees      *)
(* nothing the server never held but his own writes.  Polling replication  *)
(* implements LocalEdits.                                                  *)
Promise == Edits!Spec

=============================================================================
