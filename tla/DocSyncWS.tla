----------------------------- MODULE DocSyncWS -----------------------------
(***************************************************************************)
(* The WebSocket client (syncReplication.ts) beside polling replication on *)
(* one document: the server broadcasts every write (syncWebSocket.ts), and *)
(* a client that hears of one fetches the document and upserts it into the *)
(* local database, where RxDB takes the upsert for a local write.          *)
(*                                                                         *)
(* Handlers run concurrently, and each await of theirs is a step.  DocSync *)
(* has all of polling; here the network loses none of its requests, and a  *)
(* pull is one step without a checkpoint.  Payload runs afterChange before *)
(* it commits: here a write is visible when broadcast, as on a database    *)
(* without transactions.                                                   *)
(***************************************************************************)
EXTENDS Naturals, Sequences

CONSTANTS
  MaxBodies,    \* bound: contents written by any user
  MaxFaults,    \* bound: lost connections, failed fetches, catch-ups cut short,
                \* late or failed inserts of tombstones, restarts
  MaxHandlers,  \* bound: change events handled at once
  MaxEvents     \* bound: change events sent to this client

ASSUME BoundsAssumption == {MaxBodies, MaxFaults, MaxHandlers, MaxEvents} \subseteq Nat

VARIABLES
  srv,      \* the document on the server
  tomb,     \* deletedAt of its newest tombstone, 0 when there is none
  graves,   \* deletedAt of the tombstones being inserted
  now,      \* the clock
  fork,     \* the local document
  meta,     \* the master state RxDB assumes
  push,     \* the row being pushed, if any, and whether the server has it
  up,       \* whether the socket is open and authenticated
  asked,    \* the catch-up request under way: its checkpoint, if any
  wire,     \* the change events under way to the client, in order
  other,    \* updatedAt of another document of the collection; 0: not written
  wcp,      \* the collection's checkpoint: the newest updatedAt heard of
  told,     \* history: the client has heard of the document's newest change
  skipped,  \* history: the catch-up could not tell it, see CatchUpCovers
  handler,  \* the calls of handleChangeEvent in progress
  owed,     \* history: the protected edit no push has answered or skipped, or NoDoc
  bodies, faults, events

localVars  == <<fork, meta, push, owed>>
serverVars == <<srv, tomb, graves, now, other>>
tellVars   == <<wcp, told, skipped>>
serveVars  == <<serverVars, wire, told, skipped, events, faults>>
socketVars == <<up, asked, wire, tellVars, handler, events>>
vars == <<localVars, serverVars, socketVars, bodies, faults>>

(* As in DocSync: valid says whether the server's validation accepts it.   *)
Docs == [body : Nat, upd : Nat, lm : BOOLEAN, del : BOOLEAN, valid : BOOLEAN]

NoDoc == [body |-> 0, upd |-> 0, lm |-> FALSE, del |-> FALSE, valid |-> TRUE]

Served(s) ==
  [body |-> s.body, upd |-> s.upd, lm |-> FALSE, del |-> FALSE, valid |-> TRUE]

BuriedBare(t) == [upd |-> t, del |-> TRUE]

Buried(t) == [body |-> 0, upd |-> t, lm |-> FALSE, del |-> TRUE, valid |-> TRUE]

Present(d) == d # NoDoc /\ ~d.del

PushStages == {"idle", "sent", "get", "conflict", "served"}

Idle == [stage |-> "idle", doc |-> NoDoc, got |-> NoDoc]

Slots == 1..MaxHandlers

Events == [upd : Nat, del : BOOLEAN, mine : BOOLEAN]

Event(upd, del, mine) == [upd |-> upd, del |-> del, mine |-> mine]

Handlers == [stage : {"off", "find", "remove", "fetch", "recheck", "upsert"},
             ev : Events, got : Docs]

Off == [stage |-> "off", ev |-> Event(0, FALSE, TRUE), got |-> NoDoc]

(* On the server: alive, and when it was last written or deleted.          *)
Init ==
  /\ srv = [alive |-> TRUE, body |-> 1, upd |-> 1]
  /\ tomb = 0 /\ graves = {} /\ now = 1 /\ other = 0
  /\ fork = NoDoc /\ meta = NoDoc /\ push = Idle
  /\ up = FALSE /\ asked = <<>> /\ wire = <<>>
  /\ wcp = 0 /\ told = FALSE /\ skipped = FALSE
  /\ handler = [h \in Slots |-> Off]
  /\ owed = NoDoc
  /\ bodies = 1 /\ faults = 0 /\ events = 0

Fault == faults < MaxFaults /\ faults' = faults + 1

-----------------------------------------------------------------------------
(* The server (syncWebSocket.ts).                                          *)

(* Messages beyond the bound are lost, as on a connection that has died,   *)
(* and events is then above it for good.                                   *)
Send(evs) ==
  IF events + Len(evs) <= MaxEvents
    THEN wire' = wire \o evs /\ events' = events + Len(evs)
    ELSE UNCHANGED wire /\ events' = MaxEvents + 1

(* The next hook of a deletion inserts the tombstone, which may take time, *)
(* or fail.                                                                *)
Tombstone(stamp) ==
  \/ tomb' = stamp /\ UNCHANGED <<graves, faults>>
  \/ graves' = graves \union {stamp} /\ Fault /\ UNCHANGED tomb

(* A write or a deletion, and the broadcast of its hook.                   *)
ServerWrite(alive, body, stamp) ==
  /\ srv' = [alive |-> alive, body |-> body, upd |-> stamp]
  /\ IF up THEN Send(<<Event(stamp, ~alive, TRUE)>>) ELSE UNCHANGED <<wire, events>>
  /\ IF alive THEN UNCHANGED <<tomb, graves, faults>> ELSE Tombstone(stamp)
  /\ told' = FALSE /\ skipped' = FALSE
  /\ UNCHANGED other

(* The tombstone is there for later catch-ups and pulls.  An insert that   *)
(* fails never comes to this.                                              *)
Bury(t) ==
  /\ graves' = graves \ {t}
  /\ tomb' = IF t > tomb THEN t ELSE tomb
  /\ UNCHANGED <<localVars, srv, now, other, socketVars, bodies, faults>>

(* Another user writes the document.                                       *)
OtherWrite ==
  /\ srv.alive /\ bodies < MaxBodies
  /\ bodies' = bodies + 1 /\ now' = now + 1
  /\ ServerWrite(TRUE, bodies + 1, now + 1)
  /\ UNCHANGED <<localVars, up, asked, wcp, handler>>

(* Another user deletes it.                                                *)
OtherDelete ==
  /\ srv.alive
  /\ now' = now + 1
  /\ ServerWrite(FALSE, 0, now + 1)
  /\ UNCHANGED <<localVars, up, asked, wcp, handler, bodies>>

(* Another document of the collection is written.                          *)
OtherDocument ==
  /\ bodies < MaxBodies
  /\ bodies' = bodies + 1 /\ now' = now + 1
  /\ other' = now + 1
  /\ IF up THEN Send(<<Event(now + 1, FALSE, FALSE)>>) ELSE UNCHANGED <<wire, events>>
  /\ UNCHANGED <<localVars, srv, tomb, graves, up, asked, tellVars, handler, faults>>

(* What the catch-up after c finds: documents, the oldest first, and       *)
(* tombstones.                                                             *)
Since(c, ev) == IF ev.upd > c THEN <<ev>> ELSE <<>>

Theirs == Event(other, FALSE, FALSE)

Mine == Event(srv.upd, FALSE, TRUE)

DocsSince(c) ==
  IF ~srv.alive THEN Since(c, Theirs)
  ELSE IF other < srv.upd THEN Since(c, Theirs) \o Since(c, Mine)
  ELSE Since(c, Mine) \o Since(c, Theirs)

TombsSince(c) == Since(c, Event(tomb, TRUE, TRUE))

(* handleCatchup, when nothing goes wrong: the documents, the tombstones.  *)
MissedDocsOnly(c) == DocsSince(c)

Missed(c) == DocsSince(c) \o TombsSince(c)

(* The socket opens, again and again, and is authenticated: from then on   *)
(* it gets the broadcasts, and the client asks for what it missed.         *)
Connect ==
  /\ ~up /\ up' = TRUE
  /\ asked' = <<wcp>>
  /\ UNCHANGED <<localVars, serverVars, wire, tellVars, handler, events, bodies, faults>>

Unburied == ~srv.alive /\ tomb # srv.upd

CatchUp ==
  /\ asked # <<>> /\ asked' = <<>>
  /\ Send(Missed(asked[1]))
  /\ skipped' = (~told /\ (srv.upd <= asked[1] \/ Unburied))
  /\ UNCHANGED <<localVars, serverVars, up, wcp, told, handler, bodies, faults>>

(* Both queries have a limit: the documents' keeps the oldest, and the     *)
(* tombstones' keeps any.  And either may fail, which is swallowed: the    *)
(* answer ends there.  Nothing asks again before the next connection.      *)
CatchUpCutShort ==
  /\ asked # <<>> /\ asked' = <<>>
  /\ Fault
  /\ \E n \in 0..Len(DocsSince(asked[1])), ts \in {<<>>, TombsSince(asked[1])} :
       Send(SubSeq(DocsSince(asked[1]), 1, n) \o ts)
  /\ skipped' = ~told
  /\ UNCHANGED <<localVars, serverVars, up, wcp, told, handler, bodies>>

Disconnect ==
  /\ up /\ Fault
  /\ up' = FALSE /\ asked' = <<>> /\ wire' = <<>>
  /\ UNCHANGED <<localVars, serverVars, tellVars, handler, events, bodies>>

-----------------------------------------------------------------------------
(* The user and polling replication; DocSync has these in detail.          *)

(* The stages in which a handler has looked for the last time.             *)
Committed == \E h \in Slots : handler[h].stage \in {"remove", "upsert"}

(* Local changes take precedence (syncReplication.ts:75, 102-104), if they *)
(* are flagged and no handler is past its last look.  Removals have no     *)
(* such protection: the handler does not see them.                         *)
Protected(d) == d.lm /\ ~d.del /\ ~Committed

LocalWrite(d) ==
  /\ fork' = d
  /\ owed' = IF Protected(d) THEN d ELSE NoDoc
  /\ UNCHANGED <<srv, tomb, graves, other, meta, push, socketVars, faults>>

Edit(flag, ok) ==
  /\ Present(fork) /\ bodies < MaxBodies
  /\ bodies' = bodies + 1 /\ now' = now + 1
  /\ LocalWrite([body |-> bodies + 1, upd |-> now + 1, lm |-> flag \/ fork.lm,
                 del |-> FALSE, valid |-> ok])

Remove(flag) ==
  /\ Present(fork)
  /\ LocalWrite([fork EXCEPT !.del = TRUE, !.lm = flag \/ fork.lm])
  /\ UNCHANGED <<bodies, now>>

PushStart ==
  /\ push = Idle /\ fork # meta
  /\ push' = [stage |-> "sent", doc |-> fork, got |-> NoDoc]
  /\ UNCHANGED <<fork, meta, owed, serverVars, socketVars, bodies, faults>>

Told(stage) == push' = [push EXCEPT !.stage = stage]

(* DELETE, whose status is not read.                                       *)
Deleted ==
  /\ push.doc.del
  /\ Told("served")
  /\ \/ srv.alive /\ now' = now + 1 /\ ServerWrite(FALSE, 0, now + 1)
     \/ UNCHANGED serveVars

(* POST of a row without a master state, which keeps the stamp.            *)
Posted ==
  /\ ~push.doc.del /\ meta = NoDoc
  /\ IF ~srv.alive /\ push.doc.valid
       THEN /\ Told("served")
            /\ UNCHANGED now /\ ServerWrite(TRUE, push.doc.body, push.doc.upd)
       ELSE /\ Told("get")
            /\ UNCHANGED serveVars

(* PATCH.  A refused one is rethrown and sent again for ever: no step.  A  *)
(* document that is not found is posted, or skipped if that is refused.    *)
Patched ==
  /\ ~push.doc.del /\ meta # NoDoc
  /\ Told("served")
  /\ \/ srv.alive /\ push.doc.valid
        /\ now' = now + 1 /\ ServerWrite(TRUE, push.doc.body, now + 1)
     \/ ~srv.alive /\ push.doc.valid
        /\ UNCHANGED now /\ ServerWrite(TRUE, push.doc.body, push.doc.upd)
     \/ ~srv.alive /\ ~push.doc.valid
        /\ UNCHANGED serveVars

PushServed ==
  /\ push.stage = "sent"
  /\ Deleted \/ Posted \/ Patched
  /\ UNCHANGED <<fork, meta, owed, up, asked, wcp, handler, bodies>>

(* After a refused POST: a document that exists is a conflict, and without *)
(* one the row is skipped.                                                 *)
PushLooked ==
  /\ push.stage = "get"
  /\ push' = IF srv.alive THEN [push EXCEPT !.stage = "conflict", !.got = Served(srv)]
                          ELSE [push EXCEPT !.stage = "served"]
  /\ UNCHANGED <<fork, meta, owed, serverVars, socketVars, bodies, faults>>

(* payloadConflictHandler.resolve: local wins while it is flagged.         *)
Resolve(local, real) == IF local.lm THEN local ELSE real

PushConflict ==
  /\ push.stage = "conflict"
  /\ push' = Idle
  /\ IF fork = push.doc THEN fork' = Resolve(fork, push.got) /\ meta' = push.got
                        ELSE UNCHANGED <<fork, meta>>
  /\ UNCHANGED <<owed, serverVars, socketVars, bodies, faults>>

(* The row is pushed, or skipped, which RxDB cannot tell.                  *)
PushAcked ==
  /\ push.stage = "served"
  /\ meta' = push.doc /\ push' = Idle
  /\ owed' = IF owed = push.doc THEN NoDoc ELSE owed
  /\ UNCHANGED <<fork, serverVars, socketVars, bodies, faults>>

PushStep == PushStart \/ PushServed \/ PushLooked \/ PushConflict \/ PushAcked

(* A pulled state is ignored while the fork holds an unpushed one.         *)
Pull ==
  /\ push = Idle /\ fork = meta
  /\ srv.alive \/ (Present(fork) /\ tomb # 0)
  /\ fork' = (IF srv.alive THEN Served(srv) ELSE Buried(tomb)) /\ meta' = fork'
  /\ fork' # fork
  /\ UNCHANGED <<push, owed, serverVars, socketVars, bodies, faults>>

-----------------------------------------------------------------------------
(* The socket's client (syncReplication.ts).                               *)

(* onmessage: the checkpoint moves, and a handler starts; the handlers of  *)
(* other documents are left out.                                           *)
Newest == Event(srv.upd, ~srv.alive, TRUE)

NextWcp(ev) == IF ev.upd > wcp THEN ev.upd ELSE wcp

Hear(h) ==
  /\ wire # <<>>
  /\ handler[h] = Off /\ \A k \in 1..(h - 1) : handler[k] # Off
  /\ wire' = Tail(wire)
  /\ wcp' = NextWcp(Head(wire))
  /\ IF Head(wire).mine
       THEN /\ handler' = [handler EXCEPT ![h] = [Off EXCEPT !.stage = "find", !.ev = Head(wire)]]
            /\ told' = (told \/ Head(wire) = Newest)
       ELSE UNCHANGED <<handler, told>>
  /\ UNCHANGED <<localVars, serverVars, up, asked, skipped, events, bodies, faults>>

Goto(h, stage, doc) ==
  /\ handler' = [handler EXCEPT ![h] =
                   IF stage = "off" THEN Off ELSE [@ EXCEPT !.stage = stage, !.got = doc]]
  /\ UNCHANGED <<serverVars, up, asked, wire, tellVars, events, bodies>>

(* findOne does not see a removed document, flagged or not.                *)
Modified == Present(fork) /\ fork.lm

UpToDate(ev) == Present(fork) /\ fork.upd = ev.upd /\ ~ev.del

AfterFind(ev) ==
  IF Modified \/ UpToDate(ev) \/ (ev.del /\ ~Present(fork)) THEN "off"
  ELSE IF ev.del THEN "remove" ELSE "fetch"

Look(h) ==
  /\ handler[h].stage = "find"
  /\ Goto(h, AfterFind(handler[h].ev), NoDoc)
  /\ UNCHANGED <<localVars, faults>>

(* The document is fetched as it is now, or not found.                     *)
Fetch(h) ==
  /\ handler[h].stage = "fetch"
  /\ IF srv.alive THEN Goto(h, "recheck", Served(srv)) ELSE Goto(h, "off", NoDoc)
  /\ UNCHANGED <<localVars, faults>>

(* A network error: left to the next event.                                *)
FetchFailed(h) ==
  /\ handler[h].stage = "fetch"
  /\ Fault
  /\ Goto(h, "off", NoDoc)
  /\ UNCHANGED localVars

(* A local write may have landed while the fetch was in flight.            *)
AfterRecheckBlind == "upsert"

AfterRecheck == IF Modified THEN "off" ELSE "upsert"

Recheck(h) ==
  /\ handler[h].stage = "recheck"
  /\ Goto(h, AfterRecheck, handler[h].got)
  /\ UNCHANGED <<localVars, faults>>

(* Local writes to RxDB, but not the user's.                               *)
Upsert(h) ==
  /\ handler[h].stage = "upsert"
  /\ fork' = handler[h].got
  /\ Goto(h, "off", NoDoc)
  /\ UNCHANGED <<meta, push, owed, faults>>

RemoveLocal(h) ==
  /\ handler[h].stage = "remove"
  /\ fork' = [fork EXCEPT !.del = TRUE]
  /\ Goto(h, "off", NoDoc)
  /\ UNCHANGED <<meta, push, owed, faults>>

Handle(h) == Look(h) \/ Fetch(h) \/ Recheck(h) \/ Upsert(h) \/ RemoveLocal(h)

(* The app is restarted: the socket's checkpoint is in memory only.  Or    *)
(* the collection is evicted and opened again, and the socket stays.       *)
Restart ==
  /\ Fault
  /\ handler' = [h \in Slots |-> Off] /\ push' = Idle
  /\ \/ up' = FALSE /\ asked' = <<>> /\ wire' = <<>>
        /\ wcp' = 0 /\ told' = FALSE /\ skipped' = FALSE
     \/ UNCHANGED <<up, asked, wire, tellVars>>
  /\ UNCHANGED <<fork, meta, owed, serverVars, events, bodies>>

-----------------------------------------------------------------------------
User == \E flag \in BOOLEAN : Remove(flag) \/ \E ok \in BOOLEAN : Edit(flag, ok)

Others ==
  OtherWrite \/ OtherDelete \/ OtherDocument \/ \E t \in graves : Bury(t)

Socket ==
  \/ Connect \/ CatchUp \/ CatchUpCutShort \/ Disconnect
  \/ \E h \in Slots : Hear(h) \/ Handle(h) \/ FetchFailed(h)

Next == User \/ Others \/ PushStep \/ Pull \/ Socket \/ Restart

(* As in DocSync; the socket reconnects after three seconds, messages of a *)
(* live socket arrive, and handlers go on.                                 *)
Fairness ==
  /\ WF_vars(PushStep) /\ WF_vars(Pull)
  /\ WF_vars(Connect) /\ WF_vars(CatchUp)
  /\ \A h \in Slots : WF_vars(Hear(h)) /\ WF_vars(Handle(h))

Spec == Init /\ [][Next]_vars
FairSpec == Spec /\ Fairness

-----------------------------------------------------------------------------
TypeOK ==
  /\ srv \in [alive : BOOLEAN, body : Nat, upd : Nat]
  /\ tomb \in Nat /\ graves \subseteq Nat /\ now \in Nat /\ other \in Nat
  /\ fork \in Docs /\ meta \in Docs /\ owed \in Docs
  /\ push \in [stage : PushStages, doc : Docs, got : Docs]
  /\ up \in BOOLEAN /\ wcp \in Nat
  /\ told \in BOOLEAN /\ skipped \in BOOLEAN
  /\ wire \in Seq(Events) /\ asked \in Seq(Nat)
  /\ handler \in [Slots -> Handlers]
  /\ bodies \in Nat /\ faults \in Nat /\ events \in 0..(MaxEvents + 1)

(* A protected edit that no push has answered is not overwritten by what   *)
(* an event brings, by a pull or by the resolution of a conflict.          *)
FlaggedEditKept == owed # NoDoc => fork.body = owed.body /\ ~fork.del

(* A connected client that has drained its socket has heard of the newest  *)
(* write or deletion, whatever was lost before it reconnected, unless      *)
(*   - the catch-up was cut short, by a limit or a failing query           *)
(*     (syncWebSocket.ts:81, 109, 121-130), or came before the tombstone   *)
(*     was there, which may be never (syncTombstones.ts:53-67); or         *)
(*   - its checkpoint was past it, and so nothing asked for it: another    *)
(*     document's event had moved it before the connection was lost, or    *)
(*     the POST of the client's push stored an older stamp while offline.  *)
(* A change that is broadcast later is heard of again.                     *)
CatchUpCovers ==
  up /\ asked = <<>> /\ wire = <<>> /\ events <= MaxEvents => told \/ skipped

(* A protected edit gets its answer, or is skipped, however many events    *)
(* and the pushes they cause come before it; unless the push is stuck on a *)
(* content that the server's validation refuses, which a PATCH retries for *)
(* ever (replication.ts:259-262).                                          *)
FlaggedEditAnswered == owed # NoDoc ~> owed = NoDoc \/ ~push.doc.valid

=============================================================================
