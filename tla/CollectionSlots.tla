-------------------------- MODULE CollectionSlots --------------------------
(***************************************************************************)
(* Lazy opening and LRU eviction of RxDB collections (database.ts,         *)
(* ensureCollection) under the hooks that use them (hooks.ts,              *)
(* useEnsuredCollection).  JavaScript runs one task at a time, so an       *)
(* action is what runs between two awaits of one ensureCollection call;    *)
(* calls for different slugs interleave at their awaits.                   *)
(***************************************************************************)
EXTENDS Naturals, Sequences, FiniteSets

CONSTANTS
  Slugs,       \* the collections of the schema
  Cap,         \* OPEN_CAP (14)
  RxCap,       \* what RxDB allows besides the upload queue (16 - 1, COL23)
  MaxMounted,  \* bound: slugs with a mounted consumer
  MaxCalls,    \* bound: calls in flight when a user action adds another
  OtherErrors  \* whether openings fail for other reasons than RxCap

ASSUME SlugsAssumption == IsFiniteSet(Slugs) /\ Cardinality(Slugs) >= Cap
ASSUME CapsAssumption ==
  /\ Cap \in Nat \ {0} /\ RxCap \in Nat /\ Cap < RxCap
  /\ MaxMounted \in Nat /\ MaxCalls \in Nat
  /\ OtherErrors \in BOOLEAN

VARIABLES
  collections,  \* the map of open collections the hooks read
  replications, \* slugs with a running replication
  rx,           \* RxDB's own view of each collection
  lruOrder,     \* open slugs, least recently used first
  pendingDefs,  \* slugs that may be opened lazily
  ensuring,     \* the ensureCollection call in flight for each slug
  mounted,      \* slugs with a mounted consumer
  toNotify,     \* consumers a notification in progress has still to call
  refused       \* history: an opening has failed

vars == <<collections, replications, rx, lruOrder, pendingDefs, ensuring,
          mounted, toNotify, refused>>

None == "none"

Elems(s) == {s[k] : k \in DOMAIN s}

(* Where a call is: idle, or awaiting cancel, close or addCollections.     *)
Resting == [at |-> "idle", victim |-> None]
InFlight == {s \in Slugs : ensuring[s].at # "idle"}

(* Slugs that occupy one of RxDB's parallel collections; close() frees it. *)
Occupied == {s \in Slugs : rx[s] = "open"}

(* The first Cap collections are opened at startup; one that fails stays   *)
(* in the LRU order all the same, and is not lazily openable.              *)
Opened(head, failed) == Elems(head) \ failed

Init ==
  \E head \in [1..Cap -> Slugs], failed \in SUBSET Slugs :
    /\ \A j, k \in 1..Cap : head[j] = head[k] => j = k
    /\ failed \subseteq Elems(head)
    /\ failed # {} => OtherErrors
    /\ lruOrder = head
    /\ collections = Opened(head, failed)
    /\ replications = collections
    /\ rx = [s \in Slugs |-> IF s \in collections THEN "open" ELSE "closed"]
    /\ pendingDefs = Slugs \ Elems(head)
    /\ ensuring = [s \in Slugs |-> Resting]
    /\ mounted = {} /\ toNotify = {}
    /\ refused = (failed # {})

-----------------------------------------------------------------------------
Without(seq, s) == SelectSeq(seq, LAMBDA e : e # s)

(* splice out the first occurrence, push at the end.                       *)
TouchForgets(s) == Without(lruOrder, s)

Touch(s) ==
  IF s \in Elems(lruOrder)
    THEN LET i == CHOOSE k \in DOMAIN lruOrder :
                    lruOrder[k] = s /\ \A j \in 1..(k - 1) : lruOrder[j] # s
         IN  SubSeq(lruOrder, 1, i - 1) \o SubSeq(lruOrder, i + 1, Len(lruOrder)) \o <<s>>
    ELSE Append(lruOrder, s)

(* The head of the eviction loop: take a victim, or go on to open.         *)
Loop(s) ==
  IF Len(lruOrder) >= Cap
    THEN LET victim == Head(lruOrder)
         IN  /\ lruOrder' = Tail(lruOrder)
             /\ replications' = replications \ {victim}
             /\ ensuring' = [ensuring EXCEPT ![s] = [at |-> "cancel", victim |-> victim]]
    ELSE /\ ensuring' = [ensuring EXCEPT ![s] = [at |-> "add", victim |-> None]]
         /\ UNCHANGED <<lruOrder, replications>>

(* A call of ensureCollection, up to its first await.                      *)
Ensure(s) ==
  /\ \/ /\ s \in collections
        /\ lruOrder' = Touch(s)
        /\ UNCHANGED <<replications, ensuring>>
     \/ /\ s \notin collections
        /\ s \in InFlight \/ s \notin pendingDefs
        /\ UNCHANGED <<lruOrder, replications, ensuring>>
     \/ /\ s \notin collections /\ s \notin InFlight /\ s \in pendingDefs
        /\ Loop(s)
  /\ UNCHANGED <<collections, rx, pendingDefs, refused>>

(* The victim's collection, if it is in the map, starts to close.          *)
ClosingNothing(victim) == rx

Closing(victim) ==
  IF victim \in collections THEN [rx EXCEPT ![victim] = "closing"] ELSE rx

(* After await cancel(): the victim leaves the map and starts to close.    *)
CancelDone(s) ==
  /\ toNotify = {}
  /\ ensuring[s].at = "cancel"
  /\ LET victim == ensuring[s].victim
     IN  /\ collections' = collections \ {victim}
         /\ rx' = Closing(victim)
         /\ ensuring' = [ensuring EXCEPT ![s] = [at |-> "close", victim |-> victim]]
  /\ UNCHANGED <<replications, lruOrder, pendingDefs, mounted, toNotify, refused>>

(* An evicted collection becomes lazily reopenable.                        *)
ReopenableNever(victim) == pendingDefs

Reopenable(victim) == pendingDefs \union {victim}

(* After await close(): the victim may be reopened; back to the loop.      *)
CloseDone(s) ==
  /\ toNotify = {}
  /\ ensuring[s].at = "close"
  /\ LET victim == ensuring[s].victim
     IN  /\ rx' = IF rx[victim] = "closing"
                    THEN [rx EXCEPT ![victim] = "closed"] ELSE rx
         /\ pendingDefs' = Reopenable(victim)
  /\ Loop(s)
  /\ UNCHANGED <<collections, mounted, toNotify, refused>>

(* startCollectionReplication.                                             *)
ReplicatingNot(s) == replications

ReplicatingVictim(s) == replications \union {ensuring[s].victim}

Replicating(s) == replications \union {s}

(* The consumers that find their collection not open when notified.        *)
WaitingNone(open) == {}

Waiting(open) == mounted \ open

(* addCollections succeeded: register, start replication, notify.          *)
AddDone(s) ==
  /\ toNotify = {}
  /\ ensuring[s].at = "add"
  /\ Cardinality(Occupied) < RxCap
  /\ collections' = collections \union {s}
  /\ rx' = [rx EXCEPT ![s] = "open"]
  /\ pendingDefs' = pendingDefs \ {s}
  /\ lruOrder' = Append(lruOrder, s)
  /\ replications' = Replicating(s)
  /\ ensuring' = [ensuring EXCEPT ![s] = Resting]
  /\ toNotify' = Waiting(collections \union {s})
  /\ UNCHANGED <<mounted, refused>>

(* addCollections threw (COL23, or any other error): null, no notification.*)
AddFailed(s) ==
  /\ toNotify = {}
  /\ ensuring[s].at = "add"
  /\ OtherErrors \/ Cardinality(Occupied) >= RxCap
  /\ refused' = TRUE
  /\ ensuring' = [ensuring EXCEPT ![s] = Resting]
  /\ UNCHANGED <<collections, replications, rx, lruOrder, pendingDefs,
                 mounted, toNotify>>

(* The notification calls the mounted consumers, synchronously, one after  *)
(* the other; one whose collection is not open ensures it again.           *)
Notified(s) ==
  /\ s \in toNotify
  /\ toNotify' = toNotify \ {s}
  /\ Ensure(s)
  /\ UNCHANGED mounted

-----------------------------------------------------------------------------
(* A consumer mounts: it ensures a collection that is not open.            *)
Mount(s) ==
  /\ toNotify = {} /\ Cardinality(InFlight) < MaxCalls
  /\ s \notin mounted /\ Cardinality(mounted) < MaxMounted
  /\ mounted' = mounted \union {s}
  /\ IF s \in collections
       THEN UNCHANGED <<collections, replications, rx, lruOrder, pendingDefs,
                        ensuring, refused>>
       ELSE Ensure(s)
  /\ UNCHANGED toNotify

Unmount(s) ==
  /\ toNotify = {}
  /\ s \in mounted
  /\ mounted' = mounted \ {s}
  /\ UNCHANGED <<collections, replications, rx, lruOrder, pendingDefs,
                 ensuring, toNotify, refused>>

(* A form validates on save and ensures its collection first.              *)
Use(s) ==
  /\ toNotify = {} /\ Cardinality(InFlight) < MaxCalls
  /\ Ensure(s)
  /\ UNCHANGED <<mounted, toNotify>>

Resume(s) == CancelDone(s) \/ CloseDone(s) \/ AddDone(s) \/ AddFailed(s) \/ Notified(s)

Next == \E s \in Slugs : Resume(s) \/ Mount(s) \/ Unmount(s) \/ Use(s)

(* Awaited promises settle, and callbacks of a notification run.           *)
Fairness == \A s \in Slugs : WF_vars(Resume(s))

Spec == Init /\ [][Next]_vars
FairSpec == Spec /\ Fairness

-----------------------------------------------------------------------------
TypeOK ==
  /\ collections \in SUBSET Slugs /\ replications \in SUBSET Slugs
  /\ rx \in [Slugs -> {"closed", "open", "closing"}]
  /\ lruOrder \in Seq(Slugs)
  /\ pendingDefs \in SUBSET Slugs
  /\ ensuring \in [Slugs -> [at : {"idle", "cancel", "close", "add"},
                             victim : Slugs \union {None}]]
  /\ mounted \in SUBSET Slugs /\ toNotify \in SUBSET Slugs
  /\ refused \in BOOLEAN

Victims == {ensuring[s].victim : s \in InFlight}

(* Every open collection can be evicted, or is being evicted: none is lost *)
(* from the LRU order, so its slot can be had again.                       *)
OpenIsEvictable == collections \subseteq Elems(lruOrder) \union Victims

(* An open collection that nobody evicts replicates.                       *)
OpenReplicates == collections \ Victims \subseteq replications

(* No RxDB collection stays open behind the map's back.                    *)
SlotsAccountedFor ==
  \A s \in Slugs :
    /\ rx[s] = "open" <=> s \in collections
    /\ rx[s] = "closing" => s \in Victims

(* A slug that is not open can be opened, now or when its eviction ends;   *)
(* one that failed to open at startup, when its turn of the order comes.   *)
ClosedIsReopenable ==
  \A s \in Slugs \ collections : s \in pendingDefs \union Victims \union Elems(lruOrder)

(* Once the user stops opening and leaving screens, every mounted consumer *)
(* has its collection, unless an opening failed: one that was evicted for  *)
(* another ensures it again, and the evictions come to an end.             *)
EvictionsSettle ==
  <>[][\E s \in Slugs : Resume(s)]_vars
    => <>[](refused \/ mounted \subseteq collections)

(* Collections beyond the cap open on first use: three opened at once do   *)
(* not run into RxDB's limit (database.ts:71-78).                          *)
MountedGetsOpen ==
  <>[][\E s \in Slugs : Resume(s)]_vars => <>[](mounted \subseteq collections)

=============================================================================
