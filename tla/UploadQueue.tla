---------------------------- MODULE UploadQueue ----------------------------
(***************************************************************************)
(* The pending-upload queue (uploadQueue.ts): rows persisted in a local    *)
(* collection, one processing pass at a time, retries by the user, removal *)
(* of rows and files, and an app that may stop at any await.               *)
(*                                                                         *)
(* Rows are processed in any order here (createdAt in the code): no        *)
(* property depends on it.                                                 *)
(***************************************************************************)
EXTENDS Naturals, FiniteSets

CONSTANTS
  Items,       \* the files a user may queue
  MaxRetries,  \* MAX_RETRIES (5)
  MaxFaults,   \* bound: lost answers and restarts
  MaxClicks    \* bound: retry and remove requests by the user

ASSUME ItemsAssumption == IsFiniteSet(Items)
ASSUME BoundsAssumption ==
  MaxRetries \in Nat \ {0} /\ MaxFaults \in Nat /\ MaxClicks \in Nat

VARIABLES
  row,       \* the persisted rows: status and retryCount
  file,      \* whether the local file exists
  copies,    \* how many media documents the server made from the file
  step,      \* where the processing pass is; "off" when processing is false
  todo,      \* the rows its query returned and it has not begun
  current,   \* the row it works on, as the query returned it
  retrying,  \* rows a retry or retryAll has read and has still to patch
  removing,  \* rows a remove has read, whose file it has deleted
  discarded, \* history: files whose row the user asked to remove
  restarts, losses, clicks

vars == <<row, file, copies, step, todo, current, retrying, removing,
          discarded, restarts, losses, clicks>>

Statuses == {"absent", "pending", "uploading", "completed", "error", "removed"}
Rows == [status : Statuses, retryCount : Nat]

(* A row as a query returned it: RxDB documents are snapshots.             *)
Snapshots == [id : Items, retryCount : Nat]

Row(s, n) == [status |-> s, retryCount |-> n]

Queued(i) == row[i].status \notin {"absent", "removed"}

Init ==
  /\ row = [i \in Items |-> Row("absent", 0)]
  /\ file = [i \in Items |-> FALSE]
  /\ copies = [i \in Items |-> 0]
  /\ step = "off" /\ todo = {} /\ current = {}
  /\ retrying = {} /\ removing = {} /\ discarded = {}
  /\ restarts = 0 /\ losses = 0 /\ clicks = 0

counters == <<restarts, losses, clicks>>
userVars == <<retrying, removing, discarded>>

(* A patch of a removed row changes nothing that is visible.               *)
Patch(i, r) == row' = IF Queued(i) THEN [row EXCEPT ![i] = r] ELSE row

-----------------------------------------------------------------------------
(* The processing pass.                                                    *)

(* enqueue: a pending row for a file that exists.                          *)
Enqueue(i) ==
  /\ row[i].status = "absent"
  /\ row' = [row EXCEPT ![i] = Row("pending", 0)]
  /\ file' = [file EXCEPT ![i] = TRUE]
  /\ UNCHANGED <<copies, step, todo, current, userVars, counters>>

(* processQueue is called by the timer, by enqueue and after retries; it   *)
(* returns at once while another pass has the processing flag.             *)
Start ==
  /\ step = "off"
  /\ step' = "find"
  /\ UNCHANGED <<row, file, copies, todo, current, userVars, counters>>

(* status pending, or error with retryCount below the limit.               *)
RetryableAnyStatus(i) == Queued(i) /\ row[i].retryCount < MaxRetries
RetryableForEver(i) == row[i].status \in {"pending", "error"}

Retryable(i) ==
  \/ row[i].status = "pending"
  \/ row[i].status = "error" /\ row[i].retryCount < MaxRetries

Find ==
  /\ step = "find"
  /\ todo' = {[id |-> i, retryCount |-> row[i].retryCount] :
                i \in {j \in Items : Retryable(j)}}
  /\ step' = IF todo' = {} THEN "off" ELSE "next"
  /\ UNCHANGED <<row, file, copies, current, userVars, counters>>

Begin(s) ==
  /\ step = "next" /\ s \in todo
  /\ todo' = todo \ {s}
  /\ current' = {s}
  /\ Patch(s.id, Row("uploading", row[s.id].retryCount))
  /\ step' = "send"
  /\ UNCHANGED <<file, copies, userVars, counters>>

(* The POST of the file, and its answer.                                   *)
Uploaded(s) ==
  /\ step = "send" /\ s \in current
  /\ file[s.id]
  /\ copies' = [copies EXCEPT ![s.id] = @ + 1]
  /\ step' = "ok"
  /\ UNCHANGED <<row, file, todo, current, userVars, counters>>

(* Offline, refused, or no file to send: res.ok is tested before the row   *)
(* is marked.                                                              *)
AfterRefusalUntested == "ok"

AfterRefusal == "failed"

NotUploaded(s) ==
  /\ step = "send" /\ s \in current
  /\ step' = AfterRefusal
  /\ UNCHANGED <<row, file, copies, todo, current, userVars, counters>>

(* The server stored the file but its answer was lost.                     *)
AnswerLost(s) ==
  /\ step = "send" /\ s \in current
  /\ file[s.id]
  /\ losses < MaxFaults
  /\ losses' = losses + 1
  /\ copies' = [copies EXCEPT ![s.id] = @ + 1]
  /\ step' = "failed"
  /\ UNCHANGED <<row, file, todo, current, userVars, restarts, clicks>>

Completed(s) ==
  /\ step = "ok" /\ s \in current
  /\ Patch(s.id, Row("completed", row[s.id].retryCount))
  /\ step' = "clean"
  /\ UNCHANGED <<file, copies, todo, current, userVars, counters>>

(* The next row, or the end of the pass.                                   *)
Advance ==
  /\ current' = {}
  /\ step' = IF todo = {} THEN "off" ELSE "next"
  /\ UNCHANGED todo

(* After the referencing document is patched, the local file goes, if the  *)
(* platform can delete it.                                                 *)
Cleaned(s) ==
  /\ step = "clean" /\ s \in current
  /\ file' = [file EXCEPT ![s.id] = FALSE] \/ UNCHANGED file
  /\ Advance
  /\ UNCHANGED <<row, copies, userVars, counters>>

(* retryCount counts on from what the query returned.                      *)
AfterErrorReset(s) == Row("pending", s.retryCount)
AfterErrorBare(s) == [status |-> "error"]

AfterError(s) == Row("error", s.retryCount + 1)

Failed(s) ==
  /\ step = "failed" /\ s \in current
  /\ Patch(s.id, AfterError(s))
  /\ Advance
  /\ UNCHANGED <<file, copies, userVars, counters>>

-----------------------------------------------------------------------------
(* The user, whose lists show the rows (useUploadQueue.ts).                *)

Click == clicks < MaxClicks /\ clicks' = clicks + 1

(* Retry is offered on a failed row; it reads the row, then patches it.    *)
Retry(i) ==
  /\ Click
  /\ row[i].status = "error"
  /\ retrying' = retrying \union {i}
  /\ UNCHANGED <<row, file, copies, step, todo, current, removing,
                 discarded, restarts, losses>>

(* retryAll reads the failed rows, then patches one after the other.       *)
RetryAll ==
  /\ Click
  /\ retrying' = retrying \union {i \in Items : row[i].status = "error"}
  /\ UNCHANGED <<row, file, copies, step, todo, current, removing,
                 discarded, restarts, losses>>

Retried(i) ==
  /\ i \in retrying
  /\ retrying' = retrying \ {i}
  /\ Patch(i, Row("pending", 0))
  /\ UNCHANGED <<file, copies, step, todo, current, removing, discarded, counters>>

(* remove reads the row and deletes the file, if the platform can; then it *)
(* removes the row, which fails when the row was written since, even back  *)
(* to the same status.                                                     *)
Remove(i) ==
  /\ Click
  /\ Queued(i)
  /\ file' = [file EXCEPT ![i] = FALSE] \/ UNCHANGED file
  /\ removing' = removing \union {<<i, row[i]>>}
  /\ discarded' = discarded \union {i}
  /\ UNCHANGED <<row, copies, step, todo, current, retrying, restarts, losses>>

Removed(i, read) ==
  /\ <<i, read>> \in removing
  /\ removing' = removing \ {<<i, read>>}
  /\ \/ row[i] = read /\ row' = [row EXCEPT ![i].status = "removed"]
     \/ UNCHANGED row
  /\ UNCHANGED <<file, copies, step, todo, current, retrying, discarded, counters>>

ClearFinished(i) ==
  /\ row[i].status \in {"completed", "error"}
  /\ row' = [row EXCEPT ![i].status = "removed"]
  /\ UNCHANGED <<file, copies, step, todo, current, userVars, counters>>

ClearCompleted(i) ==
  /\ row[i].status = "completed"
  /\ row' = [row EXCEPT ![i].status = "removed"]
  /\ UNCHANGED <<file, copies, step, todo, current, userVars, counters>>

(* The app stops and starts again: rows and files persist, nothing else. A *)
(* request under way may still reach the server.                           *)
Restart ==
  /\ restarts < MaxFaults
  /\ restarts' = restarts + 1
  /\ step' = "off" /\ todo' = {} /\ current' = {}
  /\ retrying' = {} /\ removing' = {}
  /\ \/ UNCHANGED copies
     \/ \E s \in current :
          /\ step = "send" /\ file[s.id]
          /\ copies' = [copies EXCEPT ![s.id] = @ + 1]
  /\ UNCHANGED <<row, file, discarded, losses, clicks>>

-----------------------------------------------------------------------------
Pass ==
  \/ Start \/ Find
  \/ \E s \in todo : Begin(s)
  \/ \E s \in current : Uploaded(s) \/ NotUploaded(s) \/ AnswerLost(s)
                        \/ Completed(s) \/ Cleaned(s) \/ Failed(s)

User ==
  \/ \E i \in Items : Enqueue(i) \/ Retry(i) \/ Remove(i) \/ ClearCompleted(i)
  \/ RetryAll

Settle ==
  \/ \E i \in Items : Retried(i)
  \/ \E r \in removing : Removed(r[1], r[2])

Next == Pass \/ User \/ Settle \/ Restart

(* The timer calls processQueue every 15 s, and awaited calls settle.      *)
Fairness == WF_vars(Pass) /\ WF_vars(Settle)

Spec == Init /\ [][Next]_vars
FairSpec == Spec /\ Fairness

-----------------------------------------------------------------------------
TypeOK ==
  /\ row \in [Items -> Rows]
  /\ file \in [Items -> BOOLEAN]
  /\ copies \in [Items -> Nat]
  /\ step \in {"off", "find", "next", "send", "ok", "failed", "clean"}
  /\ todo \in SUBSET Snapshots /\ current \in SUBSET Snapshots
  /\ retrying \in SUBSET Items /\ removing \in SUBSET (Items \X Rows)
  /\ discarded \in SUBSET Items
  /\ restarts \in Nat /\ losses \in Nat /\ clicks \in Nat

(* A file is deleted only when the server has it, or the user removed it:  *)
(* no failure, retry or restart loses a picture that was never stored.     *)
FileKeptUntilStored ==
  \A i \in Items :
    row[i].status # "absent" /\ ~file[i] => copies[i] > 0 \/ i \in discarded

(* A row the user sees as synced is on the server.                         *)
CompletedIsStored ==
  \A i \in Items : row[i].status = "completed" => copies[i] > 0

(* Each further copy of a file on the server has a cause of its own: an    *)
(* answer was lost, the app stopped, or the user asked for a retry (which, *)
(* read while the row was failed and written after a pass completed it,    *)
(* queues a stored file again).  Passes alone never send a file twice.     *)
CopiesExplained ==
  \A i \in Items : copies[i] <= 1 + losses + restarts + clicks

(* retryCount, which a pass writes from a snapshot that may be older than  *)
(* the last retry, never passes MAX_RETRIES: automatic attempts end.       *)
RetriesBounded == \A i \in Items : row[i].retryCount <= MaxRetries

(* A queued file is stored, or fails MAX_RETRIES times, or is removed, as  *)
(* long as the app is not restarted.                                       *)
Resolved(i) ==
  \/ row[i].status \in {"completed", "removed"}
  \/ row[i].status = "error" /\ row[i].retryCount = MaxRetries

UploadsResolve ==
  \A i \in Items : row[i].status = "pending" ~> Resolved(i) \/ restarts > 0

(* processQueue processes all pending and retryable rows                   *)
(* (uploadQueue.ts:116), also those of an app that was stopped.            *)
EveryUploadResolves ==
  \A i \in Items : row[i].status = "pending" ~> Resolved(i)

(* The queue as the user sees it: only a completed row is synced.          *)
See(status) ==
  CASE status = "absent"    -> "none"
    [] status = "completed" -> "synced"
    [] status = "removed"   -> "gone"
    [] OTHER                -> "waiting"

Shown == [i \in Items |-> See(row[i].status)]

Delivery == INSTANCE FileDelivery WITH
  Files <- Items, shown <- Shown, onDevice <- file, stored <- copies,
  withdrawn <- discarded, asked <- retrying, excuses <- losses + restarts + clicks

(* The queue keeps what FileDelivery promises: a synced file goes back to  *)
(* waiting only for a retry, disappears only when stored or removed by the *)
(* user, and is sent again only when something has happened to excuse it.  *)
Promise == Delivery!Spec

=============================================================================
