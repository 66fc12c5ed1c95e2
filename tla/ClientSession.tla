--------------------------- MODULE ClientSession ---------------------------
(***************************************************************************)
(* The life of the local database in one client: LocalDBProvider's init    *)
(* effect with its cancellation, unmount and reset, the createLocalDB it   *)
(* awaits, and the module-level _existingDB that outlives the provider.    *)
(*                                                                         *)
(* Everything the code awaits is two steps here, so an init may overtake   *)
(* another, or find the world changed.  Of the data only this is kept: for *)
(* which servers the persisted database holds edits not yet on the server. *)
(***************************************************************************)
EXTENDS Naturals, FiniteSets

CONSTANTS
  Servers,     \* the servers the client is used with; one database each
  MaxInits,    \* bound: calls of createLocalDB
  MaxChanges,  \* bound: changes of token or schema while mounted
  MaxResets,   \* bound: resets by the user
  MaxFaults    \* bound: schema conflicts (DB6), storage errors, app restarts

ASSUME ServersAssumption == Servers # {} /\ IsFiniteSet(Servers)
ASSUME BoundsAssumption ==
  MaxInits \in Nat /\ MaxChanges \in Nat /\ MaxResets \in Nat /\ MaxFaults \in Nat

VARIABLES
  mounted,   \* whether a LocalDBProvider is mounted
  server,    \* the server it is mounted for
  usable,    \* whether schema and token are both there
  initRef,   \* initRef.current
  dbRef,     \* dbRef.current: the init whose database it is, or None
  shown,     \* localDB as the components see it (isReady with it), or None
  error,     \* whether the provider shows an error
  reset,     \* where resetAndResync is
  existing,  \* _existingDB, or None
  init,      \* the calls of createLocalDB and what awaits them
  open,      \* the RxDatabases that are open, named by their init
  closing,   \* those whose destroy is under way
  unsynced,  \* the servers whose persisted database holds unsynced edits
  changes, resets, faults,
  lost,      \* history: an unsynced edit was wiped
  lives,     \* history: calls of createLocalDB in this run of the app
  stranded,  \* history: databases that an error has left open, see Fail
  overlap,   \* history: two calls of createLocalDB ran at once
  abandoned  \* history: a change cancelled the init of this initRef

propVars   == <<mounted, server, usable>>
refVars    == <<initRef, dbRef, shown, error>>
dataVars   == <<unsynced, lost>>
boundVars  == <<changes, resets, faults>>
ghostVars  == <<lives, stranded, overlap, abandoned>>
vars == <<propVars, refVars, reset, existing, init, open, closing, dataVars,
          boundVars, ghostVars>>

None == 0
Inits == 1..MaxInits

(* Where a call of createLocalDB is: removing the previous instance,       *)
(* opening, adding collections (again after a schema conflict), at its end.*)
Steps == {"none", "drop", "open", "fill", "reopen", "refill", "done"}

NoInit == [step |-> "none", server |-> None, old |-> None, cancelled |-> FALSE]

Running(i) == init[i].step \notin {"none", "done"}

Started == Cardinality({i \in Inits : init[i].step # "none"})

Init ==
  /\ mounted = FALSE /\ usable = FALSE /\ server \in Servers
  /\ initRef = FALSE /\ dbRef = None /\ shown = None /\ error = FALSE
  /\ reset = [step |-> "idle", old |-> None]
  /\ existing = None
  /\ init = [i \in Inits |-> NoInit]
  /\ open = {} /\ closing = {}
  /\ unsynced = {} /\ lost = FALSE
  /\ changes = 0 /\ resets = 0 /\ faults = 0
  /\ lives = 0 /\ stranded = {} /\ overlap = FALSE /\ abandoned = FALSE

(* Data of a server is removed from disk.                                  *)
Wipe(s) ==
  /\ unsynced' = unsynced \ {s}
  /\ lost' = (lost \/ s \in unsynced)

Fault == faults < MaxFaults /\ faults' = faults + 1 /\ UNCHANGED <<changes, resets>>

(* The bound on inits leaves room for the one a reset under way will start.*)
Room == Started + (IF reset.step = "idle" THEN 0 ELSE 1) < MaxInits

-----------------------------------------------------------------------------
(* The init effect.                                                        *)

(* The cleanup of the effect that started the running init, if any.        *)
Cancelled == [i \in Inits |-> [init[i] EXCEPT !.cancelled = TRUE]]

(* createLocalDB begins: it reads _existingDB at once.                     *)
CallClean(i, s, prev) ==
  [step |-> "drop", server |-> s, old |-> i, cancelled |-> FALSE]

Call(i, s, prev) ==
  [step |-> IF prev # None THEN "drop" ELSE "open", server |-> s, old |-> prev,
   cancelled |-> FALSE]

(* The effect runs: cleanup of the last, then a new init, unless schema or *)
(* token is missing or initRef says that one was started.                  *)
StartsAnyway(ok, ref) == ok

Starts(ok, ref) == ok /\ ~ref

Effect(s, ok, ref, prev) ==
  IF Starts(ok, ref)
    THEN /\ init' = [Cancelled EXCEPT ![Started + 1] = Call(Started + 1, s, prev)]
         /\ initRef' = TRUE
         /\ lives' = lives + 1
         /\ overlap' = (overlap \/ \E i \in Inits : Running(i))
    ELSE /\ init' = Cancelled
         /\ initRef' = ref
         /\ UNCHANGED <<lives, overlap>>

(* Login, or the app comes up with a stored token: fresh refs.             *)
Mount(s, ok) ==
  /\ ~mounted /\ Room
  /\ mounted' = TRUE /\ server' = s /\ usable' = ok
  /\ dbRef' = None /\ shown' = None /\ error' = FALSE
  /\ Effect(s, ok, FALSE, existing)
  /\ abandoned' = FALSE
  /\ UNCHANGED <<reset, existing, open, closing, dataVars, boundVars, stranded>>

(* Token or schema changes, or goes, or comes.                             *)
Change(ok) ==
  /\ mounted /\ Room
  /\ changes < MaxChanges /\ changes' = changes + 1
  /\ usable' = ok
  /\ Effect(server, ok, initRef, existing)
  /\ abandoned' = (abandoned \/ \E i \in Inits : Running(i) /\ ~init[i].cancelled)
  /\ UNCHANGED <<mounted, server, dbRef, shown, error, reset, existing, open,
                 closing, dataVars, resets, faults, stranded>>

(* Logout or a change of server unmounts the provider (the buttons are     *)
(* disabled during a reset): its database is destroyed without being       *)
(* awaited, and _existingDB stays.                                         *)
Unmount ==
  /\ mounted /\ reset.step = "idle"
  /\ mounted' = FALSE
  /\ init' = Cancelled
  /\ closing' = closing \union (open \intersect {dbRef})
  /\ dbRef' = None /\ initRef' = FALSE /\ shown' = None
  /\ UNCHANGED <<server, usable, error, reset, existing, open, dataVars,
                 boundVars, ghostVars>>

(* destroy: the replications are cancelled, then the database closes.      *)
Closed(i) ==
  /\ i \in closing
  /\ closing' = closing \ {i} /\ open' = open \ {i}
  /\ UNCHANGED <<propVars, refVars, reset, existing, init, dataVars, boundVars,
                 ghostVars>>

(* A database stays open though nobody will close it.                      *)
Strand(ds) == stranded' = stranded \union (open \intersect ds)

(* Cancelling a replication rejects: destroy ends before it closes the     *)
(* database, and all its callers swallow the error.                        *)
DestroyFails(i) ==
  /\ i \in closing /\ Fault
  /\ closing' = closing \ {i}
  /\ Strand({i})
  /\ UNCHANGED <<propVars, refVars, reset, existing, init, open, dataVars, lives,
                 overlap, abandoned>>

-----------------------------------------------------------------------------
(* createLocalDB.                                                          *)

At(i, step) == init' = [init EXCEPT ![i].step = step]

(* The databases in ds are closed at once.                                 *)
ShutUntold(ds) == open' = open \ ds /\ UNCHANGED closing

Shut(ds) == open' = open \ ds /\ closing' = closing \ ds

(* Its data is removed, and so it is closed; or the removal fails, and its *)
(* destroy closes it, or fails as well.  The data may be gone all the same:*)
(* a reset then removes it by name.                                        *)
Remove(d, s) ==
  \/ Shut({d}) /\ Wipe(s) /\ UNCHANGED <<boundVars, stranded>>
  \/ Shut({d}) /\ Fault /\ UNCHANGED <<dataVars, stranded>>
  \/ /\ UNCHANGED <<open, closing>> /\ Fault /\ Strand({d})
     /\ Wipe(s) \/ UNCHANGED dataVars

(* The previous instance, wherever it was.                                 *)
Drop(i) ==
  /\ init[i].step = "drop"
  /\ At(i, "open")
  /\ existing' = None
  /\ Remove(init[i].old, init[init[i].old].server)
  /\ UNCHANGED <<propVars, refVars, reset, lives, overlap, abandoned>>

(* createRxDatabase with closeDuplicates closes whatever is open under the *)
(* name, and the name is the same for every server.                        *)
Open(i) ==
  /\ init[i].step \in {"open", "reopen"}
  /\ At(i, IF init[i].step = "open" THEN "fill" ELSE "refill")
  /\ open' = {i} /\ closing' = {}
  /\ UNCHANGED <<propVars, refVars, reset, existing, dataVars, boundVars, ghostVars>>

(* DB6 on an eager collection: the database is removed, to be opened again.*)
SchemaConflict(i) ==
  /\ init[i].step = "fill" /\ i \in open
  /\ Fault
  /\ Wipe(init[i].server)
  /\ At(i, "reopen")
  /\ Shut({i})
  /\ UNCHANGED <<propVars, refVars, reset, existing, ghostVars>>

(* The instance is ready.  The provider, which awaited it, publishes it,   *)
(* unless the effect was cleaned up meanwhile.                             *)
WantedAlways(i) == TRUE

Wanted(i) == ~init[i].cancelled

DiscardNothing(i) == UNCHANGED closing

Discard(i) == closing' = closing \union {i}

Publish(i) ==
  /\ init[i].step \in {"fill", "refill"} /\ i \in open
  /\ At(i, "done")
  /\ existing' = i
  /\ IF Wanted(i)
       THEN dbRef' = i /\ shown' = i /\ UNCHANGED closing
       ELSE Discard(i) /\ UNCHANGED <<dbRef, shown>>
  /\ UNCHANGED <<propVars, initRef, error, reset, open, dataVars, boundVars, ghostVars>>

(* createLocalDB throws: the storage cannot be opened, or the upload       *)
(* queue's collection cannot be added, because another init closed the     *)
(* database under this one, or for a DB6 or an error of the storage.  In   *)
(* the last case the database stays open and its replications run, and     *)
(* neither dbRef nor _existingDB names it.                                 *)
Fail(i) ==
  /\ \/ init[i].step \in {"fill", "refill"} /\ i \notin open /\ UNCHANGED boundVars
     \/ init[i].step \in {"fill", "refill"} /\ i \in open /\ Fault
     \/ init[i].step \in {"open", "reopen"} /\ Fault
  /\ At(i, "done")
  /\ error' = (error \/ Wanted(i))
  /\ Strand({i})
  /\ UNCHANGED <<propVars, initRef, dbRef, shown, reset, existing, open, closing,
                 dataVars, lives, overlap, abandoned>>

InitStep(i) == Drop(i) \/ Open(i) \/ SchemaConflict(i) \/ Publish(i) \/ Fail(i)

-----------------------------------------------------------------------------
(* resetAndResync, one at a time: its button is disabled meanwhile.        *)

(* It destroys the database of dbRef, if there is one, and goes on when    *)
(* that has ended, well or not.                                            *)
ResetBegin ==
  /\ mounted /\ reset.step = "idle" /\ Started < MaxInits
  /\ resets < MaxResets /\ resets' = resets + 1
  /\ error' = FALSE
  /\ reset' = IF dbRef # None THEN [step |-> "destroy", old |-> dbRef]
                              ELSE [step |-> "wipe", old |-> existing]
  /\ closing' = closing \union (open \intersect {dbRef})
  /\ UNCHANGED <<propVars, initRef, dbRef, shown, existing, init, open, dataVars,
                 changes, faults, ghostVars>>

ResetDestroyed ==
  /\ reset.step = "destroy" /\ reset.old \notin closing
  /\ reset' = [step |-> "wipe", old |-> existing]
  /\ dbRef' = None
  /\ UNCHANGED <<propVars, initRef, shown, error, existing, init, open, closing,
                 dataVars, boundVars, ghostVars>>

(* resetLocalDB removes the data of _existingDB, or, without one, of the   *)
(* current storage; then the state is cleared and the effect runs again.   *)
ResetInitRefKept == initRef

ResetInitRef == FALSE

ResetWiped ==
  /\ reset.step = "wipe"
  /\ reset' = [step |-> "idle", old |-> None]
  /\ IF reset.old # None
       THEN existing' = None /\ Remove(reset.old, init[reset.old].server)
       ELSE /\ UNCHANGED <<existing, open, closing, stranded>>
            /\ \/ Wipe(server) /\ UNCHANGED boundVars
               \/ Fault /\ UNCHANGED dataVars
  /\ shown' = None
  /\ Effect(server, usable, ResetInitRef, existing')
  /\ abandoned' = FALSE
  /\ UNCHANGED <<propVars, dbRef, error>>

ResetStep == ResetDestroyed \/ ResetWiped

-----------------------------------------------------------------------------
(* The user edits what is shown; replication pushes it.                    *)
Edit ==
  /\ shown \in open
  /\ unsynced' = unsynced \union {init[shown].server}
  /\ UNCHANGED <<propVars, refVars, reset, existing, init, open, closing, lost,
                 boundVars, ghostVars>>

Pushed(i) ==
  /\ i \in open \ closing /\ init[i].step = "done"
  /\ init[i].server \in unsynced
  /\ unsynced' = unsynced \ {init[i].server}
  /\ UNCHANGED <<propVars, refVars, reset, existing, init, open, closing, lost,
                 boundVars, ghostVars>>

(* The app stops, at any step of anything, and starts again.               *)
Restart ==
  /\ Fault
  /\ mounted' = FALSE /\ usable' = FALSE
  /\ initRef' = FALSE /\ dbRef' = None /\ shown' = None /\ error' = FALSE
  /\ reset' = [step |-> "idle", old |-> None]
  /\ existing' = None /\ open' = {} /\ closing' = {}
  /\ init' = [i \in Inits |-> IF Running(i) THEN [init[i] EXCEPT !.step = "done"]
                                            ELSE init[i]]
  /\ lives' = 0 /\ stranded' = {} /\ overlap' = FALSE /\ abandoned' = FALSE
  /\ UNCHANGED <<server, dataVars>>

-----------------------------------------------------------------------------
User ==
  \/ \E s \in Servers, ok \in BOOLEAN : Mount(s, ok)
  \/ \E ok \in BOOLEAN : Change(ok)
  \/ Unmount \/ ResetBegin \/ Edit

Next ==
  \/ User
  \/ \E i \in Inits : InitStep(i) \/ Closed(i) \/ DestroyFails(i) \/ Pushed(i)
  \/ ResetStep
  \/ Restart

(* Awaited calls settle.                                                   *)
Fairness ==
  /\ \A i \in Inits : WF_vars(InitStep(i)) /\ WF_vars(Closed(i))
  /\ WF_vars(ResetStep)

Spec == Init /\ [][Next]_vars
FairSpec == Spec /\ Fairness

-----------------------------------------------------------------------------
TypeOK ==
  /\ mounted \in BOOLEAN /\ usable \in BOOLEAN /\ server \in Servers
  /\ initRef \in BOOLEAN /\ error \in BOOLEAN
  /\ {dbRef, shown, existing} \subseteq Inits \union {None}
  /\ reset \in [step : {"idle", "destroy", "wipe"}, old : Inits \union {None}]
  /\ init \in [Inits -> [step : Steps, server : Servers \union {None},
                         old : Inits \union {None}, cancelled : BOOLEAN]]
  /\ open \subseteq Inits /\ closing \subseteq open
  /\ unsynced \subseteq Servers /\ lost \in BOOLEAN
  /\ changes \in Nat /\ resets \in Nat /\ faults \in Nat /\ lives \in Nat
  /\ stranded \subseteq Inits /\ overlap \in BOOLEAN /\ abandoned \in BOOLEAN

(* Unsynced edits survive a restart of the app, token refreshes, failing   *)
(* and cancelled inits: they are wiped by a reset, by a schema conflict,   *)
(* or by a second createLocalDB in one run of the app, which removes what  *)
(* _existingDB left behind (database.ts:107-115, 280-284).                 *)
EditsSurvive ==
  [][~lost /\ lost' => lives > 1 \/ reset.step = "wipe" \/ faults' > faults]_vars

(* When inits do not overlap, what the components hold is an open database *)
(* (except while a reset is under way).                                    *)
ReadyIsOpen ==
  shown # None /\ reset.step = "idle" /\ ~overlap => shown \in open

(* Once everything awaited has settled no database is open, with its       *)
(* replications and timers, but the one the provider can destroy.  Exempt  *)
(* are databases that an error left open: createLocalDB threw after it had *)
(* opened one (database.ts:364), or a destroy ended before it closed it    *)
(* (database.ts:403-407).  They stay open until the next createLocalDB     *)
(* (closeDuplicates) or a stop of the app.  Exempt is also a second reset  *)
(* in a session whose inits overlapped: it clears dbRef after an await,    *)
(* even when dbRef holds another database by then, and an overlapping init *)
(* may have cleared _existingDB, which would close it.                     *)
Settled == closing = {} /\ reset.step = "idle" /\ \A i \in Inits : ~Running(i)

NoLeakedDatabase ==
  Settled /\ ~(overlap /\ resets > 1) => open \subseteq {dbRef} \union stranded

(* A provider with schema and token gets its database or shows an error,   *)
(* unless a change of token or schema cancelled the init under way: then   *)
(* initRef keeps the effect from starting another (LocalDBProvider.tsx).   *)
Waiting == mounted /\ usable /\ ~abandoned /\ shown = None /\ ~error

BecomesReady == Waiting ~> ~Waiting

(* After logout nothing stays open, but what an error left open, then or   *)
(* before (LocalDBProvider.tsx:249-252).                                   *)
LogoutCloses == ~mounted ~> mounted \/ open \subseteq stranded

=============================================================================
