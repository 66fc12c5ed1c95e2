----------------------------- MODULE PullCursor -----------------------------
(***************************************************************************)
(* The pull handler's cursor over a whole collection (replication.ts):     *)
(* pages of documents in (updatedAt, id) order, the tombstones appended to *)
(* each page, the filter at the checkpoint, and the checkpoint taken from  *)
(* the last element.  The client has no local edits here (DocSync has      *)
(* them), so everything delivered is applied.                              *)
(***************************************************************************)
EXTENDS Naturals, FiniteSets

CONSTANTS
  Ids,         \* document ids; numbers, because the cursor compares them
  Limit,       \* documents per page (batchSize, 50)
  TombLimit,   \* tombstones per fetch (200)
  MaxStamp,    \* bound: server writes and deletions
  MaxDeletes,  \* bound: deletions among them
  MaxLate,     \* bound: creations pushed with an updatedAt of the past
  MaxDisorder, \* bound: deletions and such creations together
  MaxFails     \* bound: tombstone fetches that fail, tombstones not written

ASSUME IdsAssumption == Ids \in SUBSET (Nat \ {0}) /\ IsFiniteSet(Ids)
ASSUME LimitsAssumption ==
  /\ Limit \in Nat \ {0, 1} /\ TombLimit \in Nat \ {0}
  /\ MaxStamp \in Nat /\ MaxDeletes \in Nat
  /\ MaxLate \in Nat /\ MaxDisorder \in Nat /\ MaxFails \in Nat

VARIABLES
  srv,      \* the server's documents: updatedAt (0: never written) and alive
  clock,    \* the server's clock
  dying,    \* tombstones stamped by the afterDelete hook, not yet inserted
  tombs,    \* tombstones in _sync_tombstones
  local,    \* the client's documents
  cp,       \* the checkpoint; upd = 0 before the first batch
  stage,    \* where the pull handler is
  page,     \* the documents it has fetched
  buried,   \* the tombstones it has fetched
  deletes, late, fails

serverVars == <<srv, clock, dying, tombs, deletes, late>>
clientVars == <<local, cp, stage, page, buried>>
vars == <<serverVars, clientVars, fails>>

(* Documents and tombstones reach the cursor as (updatedAt, id) pairs.     *)
Entries == [upd : Nat, id : Nat]

Start == [upd |-> 0, id |-> 0]

Before(a, b) == a.upd < b.upd \/ (a.upd = b.upd /\ a.id < b.id)

Last(S) == CHOOSE e \in S : \A f \in S \ {e} : Before(f, e)

(* The first n of S in cursor order.                                       *)
FirstOf(n, S) == {e \in S : Cardinality({f \in S : Before(f, e)}) < n}

Init ==
  /\ srv = [i \in Ids |-> [upd |-> 0, alive |-> FALSE]]
  /\ clock = 0
  /\ dying = {} /\ tombs = {}
  /\ local = [i \in Ids |-> [upd |-> 0, live |-> FALSE]]
  /\ cp = Start
  /\ stage = "idle" /\ page = {} /\ buried = {}
  /\ deletes = 0 /\ late = 0 /\ fails = 0

-----------------------------------------------------------------------------
(* The server.                                                             *)

(* Updates, and creations in the admin UI, that get the same millisecond   *)
(* as their updatedAt.                                                     *)
Write(S) ==
  /\ clock < MaxStamp
  /\ clock' = clock + 1
  /\ srv' = [i \in Ids |-> IF i \in S THEN [upd |-> clock + 1, alive |-> TRUE]
                                      ELSE srv[i]]
  /\ UNCHANGED <<dying, tombs, deletes, late, clientVars, fails>>

(* Another client's push creates a document, or creates it again after its *)
(* deletion: it keeps the updatedAt of the local write, which may have     *)
(* been made offline long before.                                          *)
PushCreated(i, stamp) ==
  /\ ~srv[i].alive
  /\ late < MaxLate /\ deletes + late < MaxDisorder
  /\ late' = late + 1
  /\ srv' = [srv EXCEPT ![i] = [upd |-> stamp, alive |-> TRUE]]
  /\ UNCHANGED <<clock, dying, tombs, deletes, clientVars, fails>>

(* The document is removed; then the afterDelete hook stamps a tombstone   *)
(* and starts to insert it.                                                *)
Delete(i) ==
  /\ srv[i].alive
  /\ clock < MaxStamp
  /\ deletes < MaxDeletes /\ deletes + late < MaxDisorder
  /\ clock' = clock + 1
  /\ srv' = [srv EXCEPT ![i].alive = FALSE]
  /\ dying' = dying \union {[upd |-> clock + 1, id |-> i]}
  /\ deletes' = deletes + 1
  /\ UNCHANGED <<tombs, late, clientVars, fails>>

TombstoneInserted(t) ==
  /\ dying' = dying \ {t}
  /\ tombs' = tombs \union {t}
  /\ UNCHANGED <<srv, clock, deletes, late, clientVars, fails>>

(* The hook swallows the error of an insert that fails.                    *)
TombstoneFailed(t) ==
  /\ fails < MaxFails
  /\ fails' = fails + 1
  /\ dying' = dying \ {t}
  /\ UNCHANGED <<srv, clock, tombs, deletes, late, clientVars>>

-----------------------------------------------------------------------------
(* The pull handler.                                                       *)

(* A RESYNC tick, or the first pull after the collection opens.            *)
Tick ==
  /\ stage = "idle"
  /\ stage' = "docs"
  /\ UNCHANGED <<serverVars, local, cp, page, buried, fails>>

(* where updatedAt >= checkpoint, sort updatedAt,id, limit.                *)
MatchingLater == {[upd |-> srv[i].upd, id |-> i] :
                    i \in {j \in Ids : srv[j].alive /\ srv[j].upd > cp.upd}}

Matching == {[upd |-> srv[i].upd, id |-> i] :
               i \in {j \in Ids : srv[j].alive /\ srv[j].upd >= cp.upd}}

FetchDocs ==
  /\ stage = "docs"
  /\ stage' = "tombs"
  /\ page' = FirstOf(Limit, Matching)
  /\ UNCHANGED <<serverVars, local, cp, buried, fails>>

(* All tombstones of the collection, oldest first, limit.                  *)
FetchTombstones ==
  /\ stage = "tombs"
  /\ stage' = "apply"
  /\ buried' = FirstOf(TombLimit, tombs)
  /\ UNCHANGED <<serverVars, local, cp, page, fails>>

(* Not fatal: the page goes on without tombstones.                         *)
FetchTombstonesFailed ==
  /\ stage = "tombs"
  /\ fails < MaxFails
  /\ fails' = fails + 1
  /\ stage' = "apply"
  /\ buried' = {}
  /\ UNCHANGED <<serverVars, local, cp, page>>

(* Only what lies after the checkpoint is delivered, tombstones included.  *)
FreshAll(S) == S

Fresh(S) == {e \in S : Before(cp, e)}

(* Within a batch the last element of an id wins, and tombstones are last. *)
Delivered(P, T) ==
  [i \in Ids |->
     LET ts == {t \in T : t.id = i}
         ps == {p \in P : p.id = i}
     IN  IF ts # {} THEN [upd |-> Last(ts).upd, live |-> FALSE]
         ELSE IF ps # {} THEN [upd |-> Last(ps).upd, live |-> TRUE]
         ELSE local[i]]

(* The last element of the batch: the page, then the tombstones.           *)
NextCheckpointNow(P, T) ==
  IF P \union T # {} THEN [Last(P \union T) EXCEPT !.upd = clock] ELSE cp

NextCheckpointBare(P, T) == [upd |-> IF P # {} THEN Last(P).upd ELSE cp.upd]

NextCheckpoint(P, T) ==
  IF T # {} THEN Last(T) ELSE IF P # {} THEN Last(P) ELSE cp

(* RxDB asks for the next page at once while a batch is full.              *)
Apply ==
  /\ stage = "apply"
  /\ LET P == Fresh(page)
         T == Fresh(buried)
     IN  /\ local' = Delivered(P, T)
         /\ cp' = NextCheckpoint(P, T)
         /\ stage' = IF Cardinality(P) + Cardinality(T) >= Limit
                       THEN "docs" ELSE "idle"
  /\ page' = {} /\ buried' = {}
  /\ UNCHANGED <<serverVars, fails>>

(* The collection is closed or the app stops; the first pull follows.      *)
Restart ==
  /\ stage # "docs"
  /\ fails < MaxFails
  /\ fails' = fails + 1
  /\ stage' = "docs" /\ page' = {} /\ buried' = {}
  /\ UNCHANGED <<serverVars, local, cp>>

-----------------------------------------------------------------------------
(* Assumed: fewer documents share an updatedAt than fit in a page.         *)
Roomy(stamp) ==
  Cardinality({i \in Ids : srv[i].alive /\ srv[i].upd = stamp}) < Limit - 1

Server ==
  \/ \E i \in Ids, stamp \in 1..clock : Roomy(stamp) /\ PushCreated(i, stamp)
  \/ \E S \in SUBSET Ids : S # {} /\ Cardinality(S) < Limit /\ Write(S)
  \/ \E i \in Ids : Delete(i)
  \/ \E t \in dying : TombstoneInserted(t) \/ TombstoneFailed(t)

Pull == Tick \/ FetchDocs \/ FetchTombstones \/ FetchTombstonesFailed \/ Apply

Next == Server \/ Pull \/ Restart

(* RxDB ticks, and retries a handler that threw; the network answers in    *)
(* the end; a hook that began ends.                                        *)
Fairness ==
  /\ WF_vars(Pull)
  /\ WF_vars(\E t \in dying : TombstoneInserted(t))

Spec == Init /\ [][Next]_vars
FairSpec == Spec /\ Fairness

-----------------------------------------------------------------------------
TypeOK ==
  /\ srv \in [Ids -> [upd : Nat, alive : BOOLEAN]]
  /\ clock \in Nat /\ deletes \in Nat /\ late \in Nat /\ fails \in Nat
  /\ dying \in SUBSET Entries /\ tombs \in SUBSET Entries
  /\ local \in [Ids -> [upd : Nat, live : BOOLEAN]]
  /\ cp \in Entries
  /\ stage \in {"idle", "docs", "tombs", "apply"}
  /\ page \in SUBSET Entries /\ buried \in SUBSET Entries

(* What the paging relies on: stamps only grow, and no tombstone comes     *)
(* after a page.                                                           *)
InOrder == deletes = 0 /\ late = 0

(* The checkpoint never passes a document whose current version the client *)
(* does not have, as long as writes come in the order of their stamps:     *)
(* nothing is skipped between pages, however writes and restarts fall      *)
(* between the fetches.                                                    *)
CheckpointCovers ==
  InOrder =>
    \A i \in Ids :
      srv[i].alive /\ ~Before(cp, [upd |-> srv[i].upd, id |-> i])
        => local[i] = [upd |-> srv[i].upd, live |-> TRUE]

(* The checkpoint never moves back, tombstones older than it included.     *)
CheckpointAdvances == [][cp' = cp \/ Before(cp, cp')]_vars

(* A pull ends: full batches do not make RxDB ask for the same page for    *)
(* ever.                                                                   *)
PullEnds == []<>(stage = "idle")

(* Every document the server has reaches the client: Payload assigns its   *)
(* own updatedAt on create/update (database.ts:156), and the sort makes    *)
(* the paging by it deterministic                                          *)
(* (memory-bank/014_native-payload-codegen-and-sync.md:44).                *)
EveryDocumentArrives ==
  \A i \in Ids :
    srv[i].alive ~> ~srv[i].alive \/ local[i] = [upd |-> srv[i].upd, live |-> TRUE]

(* As long as writes come in the order of their stamps, every version the  *)
(* server has reaches the client, or is replaced by one that does.         *)
DocumentsArrive ==
  \A i \in Ids :
    srv[i].upd > local[i].upd /\ InOrder ~> local[i].upd = srv[i].upd \/ ~InOrder

(* The checkpoint filter does not apply to tombstones: a deletion reaches  *)
(* the client even when its deletedAt lies before the checkpoint           *)
(* (replication.ts:104-109).                                               *)
TombstonesArrive ==
  \A i \in Ids :
    (\E t \in tombs : t.id = i) /\ ~srv[i].alive
      ~> ~local[i].live \/ srv[i].alive

=============================================================================
