------------------------- MODULE UploadQueueProofs -------------------------
(***************************************************************************)
(* Safety of the pending-upload queue for every set of files, every retry  *)
(* limit and every number of clicks, lost answers and restarts.            *)
(***************************************************************************)
EXTENDS UploadQueue, TLAPS

(* Removal was asked for rows that were there.                             *)
RemovalsOfRows ==
  \A r \in removing : r[2].status \notin {"absent", "removed"}

(* A pass takes rows that were there.                                      *)
RowsTaken == \A s \in todo \union current : row[s.id].status # "absent"

(* What a pass read could be retried, and what is to be sent starts at 0.  *)
BelowLimit ==
  /\ \A s \in todo \union current : s.retryCount < MaxRetries
  /\ \A i \in Items :
       /\ row[i].retryCount <= MaxRetries
       /\ row[i].status = "pending" => row[i].retryCount = 0

(* A pass holds each row once: to be begun, or begun.                      *)
OnePass ==
  /\ \A s, t \in todo : s.id = t.id => s = t
  /\ \A s \in todo, t \in current : s.id # t.id
  /\ \A s, t \in current : s = t
  /\ step \in {"off", "find"} => todo = {}
  /\ step \in {"off", "find", "next"} => current = {}

(* The row that is being completed is on the server.                       *)
SentIsStored ==
  step \in {"ok", "clean"} => \A s \in current : copies[s.id] > 0

(* Whether a pass may still send the file of i, with no further cause: the *)
(* row waits for a pass, or one has taken it and not sent it.  At "ok" the *)
(* pass is about to mark it completed, whatever a retry has made of it.    *)
InPass(S, i) == \E s \in S : s.id = i

ToSend(i) ==
  IF InPass(current, i) /\ step \in {"send", "ok", "failed"}
    THEN step # "ok"
    ELSE row[i].status \in {"absent", "pending", "error"} \/ InPass(todo, i)

One(b) == IF b THEN 1 ELSE 0

Causes == losses + restarts + clicks

(* A retry under way may queue a stored file again, once.                  *)
CopiesAccounted ==
  \A i \in Items :
    copies[i] + One(ToSend(i)) + One(i \in retrying) <= 1 + Causes

IInv ==
  /\ TypeOK /\ RemovalsOfRows /\ RowsTaken /\ BelowLimit /\ OnePass
  /\ SentIsStored /\ CompletedIsStored /\ FileKeptUntilStored
  /\ CopiesAccounted

-----------------------------------------------------------------------------
(* A pass begins.                                                          *)
LEMMA StartStep ==
  ASSUME IInv, Start
  PROVE  IInv'
  <1> USE DEF IInv, Start, userVars, counters
  <1>1. TypeOK'
    BY DEF TypeOK
  <1>2. OnePass'
    BY DEF OnePass, TypeOK, Snapshots, Rows
  <1>3. CopiesAccounted'
    BY DEF CopiesAccounted, ToSend, InPass, One, Causes, TypeOK, Snapshots, Rows
  <1>4. (RemovalsOfRows /\ RowsTaken /\ BelowLimit /\ SentIsStored /\ CompletedIsStored /\ FileKeptUntilStored)'
    BY DEF RemovalsOfRows, RowsTaken, BelowLimit, SentIsStored, CompletedIsStored, FileKeptUntilStored
  <1> QED BY <1>1, <1>2, <1>3, <1>4

(* What it finds waits, so it was to be sent already.                      *)
LEMMA FindStep ==
  ASSUME IInv, Find
  PROVE  IInv'
  <1> USE DEF IInv, Find, Retryable, userVars, counters
  <1>1. TypeOK'
    BY DEF TypeOK, Snapshots, Rows
  <1>2. RowsTaken'
    BY DEF RowsTaken, TypeOK, Snapshots, Rows
  <1>3. BelowLimit'
    BY BoundsAssumption DEF BelowLimit, TypeOK, Snapshots, Rows
  <1>4. OnePass'
    BY DEF OnePass, TypeOK, Snapshots, Rows
  <1>5. CopiesAccounted'
    BY DEF CopiesAccounted, ToSend, InPass, One, Causes, OnePass, TypeOK, Snapshots, Rows
  <1>6. (RemovalsOfRows /\ SentIsStored /\ CompletedIsStored /\ FileKeptUntilStored)'
    BY DEF RemovalsOfRows, SentIsStored, CompletedIsStored, FileKeptUntilStored
  <1> QED BY <1>1, <1>2, <1>3, <1>4, <1>5, <1>6

LEMMA BeginStep ==
  ASSUME IInv, NEW s \in todo, Begin(s)
  PROVE  IInv'
  <1> USE DEF IInv, Begin, Patch, Row, Queued, userVars, counters
  <1>1. TypeOK'
    BY DEF TypeOK, Snapshots, Rows, Statuses
  <1>2. RowsTaken'
    BY DEF RowsTaken, TypeOK, Snapshots, Rows
  <1>3. BelowLimit'
    BY BoundsAssumption DEF BelowLimit, TypeOK, Snapshots, Rows
  <1>4. OnePass'
    BY DEF OnePass, TypeOK, Snapshots, Rows
  <1>5. CompletedIsStored'
    BY DEF CompletedIsStored, TypeOK, Snapshots, Rows
  <1>6. FileKeptUntilStored'
    BY DEF FileKeptUntilStored, TypeOK, Snapshots, Rows
  <1>7. CopiesAccounted'
    BY DEF CopiesAccounted, ToSend, InPass, One, Causes, OnePass, RowsTaken, TypeOK, Snapshots, Rows
  <1>8. (RemovalsOfRows /\ SentIsStored)'
    BY DEF RemovalsOfRows, SentIsStored
  <1> QED BY <1>1, <1>2, <1>3, <1>4, <1>5, <1>6, <1>7, <1>8

LEMMA UploadedStep ==
  ASSUME IInv, NEW s \in current, Uploaded(s)
  PROVE  IInv'
  <1> USE DEF IInv, Uploaded, userVars, counters
  <1>1. TypeOK'
    BY DEF TypeOK, Snapshots
  <1>2. OnePass'
    BY DEF OnePass, TypeOK, Snapshots, Rows
  <1>3. SentIsStored'
    BY DEF SentIsStored, OnePass, TypeOK, Snapshots, Rows
  <1>4. CompletedIsStored'
    BY DEF CompletedIsStored, TypeOK, Snapshots, Rows
  <1>5. FileKeptUntilStored'
    BY DEF FileKeptUntilStored, TypeOK, Snapshots, Rows
  <1>6. CopiesAccounted'
    BY DEF CopiesAccounted, ToSend, InPass, One, Causes, OnePass, TypeOK, Snapshots, Rows
  <1>7. (RemovalsOfRows /\ RowsTaken /\ BelowLimit)'
    BY DEF RemovalsOfRows, RowsTaken, BelowLimit
  <1> QED BY <1>1, <1>2, <1>3, <1>4, <1>5, <1>6, <1>7

LEMMA NotUploadedStep ==
  ASSUME IInv, NEW s \in current, NotUploaded(s)
  PROVE  IInv'
  <1> USE DEF IInv, NotUploaded, AfterRefusal, userVars, counters
  <1>1. TypeOK'
    BY DEF TypeOK
  <1>2. OnePass'
    BY DEF OnePass, TypeOK, Snapshots, Rows
  <1>3. CopiesAccounted'
    BY DEF CopiesAccounted, ToSend, InPass, One, Causes, OnePass, TypeOK, Snapshots, Rows
  <1>4. (RemovalsOfRows /\ RowsTaken /\ BelowLimit /\ SentIsStored /\ CompletedIsStored /\ FileKeptUntilStored)'
    BY DEF RemovalsOfRows, RowsTaken, BelowLimit, SentIsStored, CompletedIsStored, FileKeptUntilStored
  <1> QED BY <1>1, <1>2, <1>3, <1>4

(* The lost answer accounts for the copy; the row is sent again.           *)
LEMMA AnswerLostStep ==
  ASSUME IInv, NEW s \in current, AnswerLost(s)
  PROVE  IInv'
  <1> USE DEF IInv, AnswerLost, userVars, counters
  <1>1. TypeOK'
    BY DEF TypeOK, Snapshots
  <1>2. OnePass'
    BY DEF OnePass, TypeOK, Snapshots, Rows
  <1>3. CompletedIsStored'
    BY DEF CompletedIsStored, TypeOK, Snapshots, Rows
  <1>4. FileKeptUntilStored'
    BY DEF FileKeptUntilStored, TypeOK, Snapshots, Rows
  <1>5. CopiesAccounted'
    BY DEF CopiesAccounted, ToSend, InPass, One, Causes, OnePass, TypeOK, Snapshots, Rows
  <1>6. (RemovalsOfRows /\ RowsTaken /\ BelowLimit /\ SentIsStored)'
    BY DEF RemovalsOfRows, RowsTaken, BelowLimit, SentIsStored
  <1> QED BY <1>1, <1>2, <1>3, <1>4, <1>5, <1>6

LEMMA CompletedStep ==
  ASSUME IInv, NEW s \in current, Completed(s)
  PROVE  IInv'
  <1> USE DEF IInv, Completed, Patch, Row, Queued, userVars, counters
  <1>1. TypeOK'
    BY DEF TypeOK, Snapshots, Rows, Statuses
  <1>2. RowsTaken'
    BY DEF RowsTaken, TypeOK, Snapshots, Rows
  <1>3. BelowLimit'
    BY DEF BelowLimit, TypeOK, Snapshots, Rows
  <1>4. OnePass'
    BY DEF OnePass, TypeOK, Snapshots, Rows
  <1>5. SentIsStored'
    BY DEF SentIsStored, TypeOK, Snapshots, Rows
  <1>6. CompletedIsStored'
    BY DEF CompletedIsStored, SentIsStored, TypeOK, Snapshots, Rows
  <1>7. FileKeptUntilStored'
    BY DEF FileKeptUntilStored, TypeOK, Snapshots, Rows
  <1>8. CopiesAccounted'
    BY DEF CopiesAccounted, ToSend, InPass, One, Causes, OnePass, RowsTaken, TypeOK, Snapshots, Rows
  <1>9. (RemovalsOfRows)'
    BY DEF RemovalsOfRows
  <1> QED BY <1>1, <1>2, <1>3, <1>4, <1>5, <1>6, <1>7, <1>8, <1>9

LEMMA CleanedStep ==
  ASSUME IInv, NEW s \in current, Cleaned(s)
  PROVE  IInv'
  <1> USE DEF IInv, Cleaned, Advance, userVars, counters
  <1>1. TypeOK'
    BY DEF TypeOK, Snapshots
  <1>2. RowsTaken'
    BY DEF RowsTaken, TypeOK, Snapshots, Rows
  <1>3. BelowLimit'
    BY DEF BelowLimit, TypeOK, Snapshots, Rows
  <1>4. OnePass'
    BY DEF OnePass, TypeOK, Snapshots, Rows
  <1>5. FileKeptUntilStored'
    BY DEF FileKeptUntilStored, SentIsStored, TypeOK, Snapshots, Rows
  <1>6. CopiesAccounted'
    BY DEF CopiesAccounted, ToSend, InPass, One, Causes, OnePass, TypeOK, Snapshots, Rows
  <1>7. (RemovalsOfRows /\ SentIsStored /\ CompletedIsStored)'
    BY DEF RemovalsOfRows, SentIsStored, CompletedIsStored
  <1> QED BY <1>1, <1>2, <1>3, <1>4, <1>5, <1>6, <1>7

LEMMA FailedStep ==
  ASSUME IInv, NEW s \in current, Failed(s)
  PROVE  IInv'
  <1> USE DEF IInv, Failed, Patch, Row, Queued, Advance, AfterError, userVars, counters
  <1>1. TypeOK'
    BY DEF TypeOK, Snapshots, Rows, Statuses
  <1>2. RowsTaken'
    BY DEF RowsTaken, TypeOK, Snapshots, Rows
  <1>3. BelowLimit'
    BY BoundsAssumption DEF BelowLimit, TypeOK, Snapshots, Rows
  <1>4. OnePass'
    BY DEF OnePass, TypeOK, Snapshots, Rows
  <1>5. CompletedIsStored'
    BY DEF CompletedIsStored, TypeOK, Snapshots, Rows
  <1>6. FileKeptUntilStored'
    BY DEF FileKeptUntilStored, TypeOK, Snapshots, Rows
  <1>7. CopiesAccounted'
    BY DEF CopiesAccounted, ToSend, InPass, One, Causes, OnePass, RowsTaken, TypeOK, Snapshots, Rows
  <1>8. (RemovalsOfRows /\ SentIsStored)'
    BY DEF RemovalsOfRows, SentIsStored
  <1> QED BY <1>1, <1>2, <1>3, <1>4, <1>5, <1>6, <1>7, <1>8

LEMMA EnqueueStep ==
  ASSUME IInv, NEW i \in Items, Enqueue(i)
  PROVE  IInv'
  <1> USE DEF IInv, Enqueue, Row, userVars, counters
  <1>1. TypeOK'
    BY DEF TypeOK, Rows, Statuses
  <1>2. RowsTaken'
    BY DEF RowsTaken, TypeOK, Snapshots, Rows
  <1>3. BelowLimit'
    BY BoundsAssumption DEF BelowLimit, TypeOK, Snapshots, Rows
  <1>4. CompletedIsStored'
    BY DEF CompletedIsStored, TypeOK, Snapshots, Rows
  <1>5. FileKeptUntilStored'
    BY DEF FileKeptUntilStored, TypeOK, Snapshots, Rows
  <1>6. CopiesAccounted'
    BY DEF CopiesAccounted, ToSend, InPass, One, Causes, TypeOK, Snapshots, Rows
  <1>7. (RemovalsOfRows /\ OnePass /\ SentIsStored)'
    BY DEF RemovalsOfRows, OnePass, SentIsStored
  <1> QED BY <1>1, <1>2, <1>3, <1>4, <1>5, <1>6, <1>7

(* The click accounts for a copy.                                          *)
LEMMA RetryStep ==
  ASSUME IInv, NEW i \in Items, Retry(i)
  PROVE  IInv'
  <1> USE DEF IInv, Retry, Click, userVars, counters
  <1>1. TypeOK'
    BY DEF TypeOK
  <1>2. CopiesAccounted'
    BY DEF CopiesAccounted, ToSend, InPass, One, Causes, TypeOK, Snapshots, Rows
  <1>3. (RemovalsOfRows /\ RowsTaken /\ BelowLimit /\ OnePass /\ SentIsStored /\ CompletedIsStored /\ FileKeptUntilStored)'
    BY DEF RemovalsOfRows, RowsTaken, BelowLimit, OnePass, SentIsStored, CompletedIsStored, FileKeptUntilStored
  <1> QED BY <1>1, <1>2, <1>3

LEMMA RetryAllStep ==
  ASSUME IInv, RetryAll
  PROVE  IInv'
  <1> USE DEF IInv, RetryAll, Click, userVars, counters
  <1>1. TypeOK'
    BY DEF TypeOK
  <1>2. CopiesAccounted'
    BY DEF CopiesAccounted, ToSend, InPass, One, Causes, TypeOK, Snapshots, Rows
  <1>3. (RemovalsOfRows /\ RowsTaken /\ BelowLimit /\ OnePass /\ SentIsStored /\ CompletedIsStored /\ FileKeptUntilStored)'
    BY DEF RemovalsOfRows, RowsTaken, BelowLimit, OnePass, SentIsStored, CompletedIsStored, FileKeptUntilStored
  <1> QED BY <1>1, <1>2, <1>3

(* A stored file may be queued again: retrying has held that back.         *)
LEMMA RetriedStep ==
  ASSUME IInv, NEW i \in Items, Retried(i)
  PROVE  IInv'
  <1> USE DEF IInv, Retried, Patch, Row, Queued, userVars, counters
  <1>1. TypeOK'
    BY DEF TypeOK, Rows, Statuses
  <1>2. RowsTaken'
    BY DEF RowsTaken, TypeOK, Snapshots, Rows
  <1>3. BelowLimit'
    BY BoundsAssumption DEF BelowLimit, TypeOK, Snapshots, Rows
  <1>4. CompletedIsStored'
    BY DEF CompletedIsStored, TypeOK, Snapshots, Rows
  <1>5. FileKeptUntilStored'
    BY DEF FileKeptUntilStored, TypeOK, Snapshots, Rows
  <1>6. CopiesAccounted'
    BY DEF CopiesAccounted, ToSend, InPass, One, Causes, TypeOK, Snapshots, Rows
  <1>7. (RemovalsOfRows /\ OnePass /\ SentIsStored)'
    BY DEF RemovalsOfRows, OnePass, SentIsStored
  <1> QED BY <1>1, <1>2, <1>3, <1>4, <1>5, <1>6, <1>7

LEMMA RemoveStep ==
  ASSUME IInv, NEW i \in Items, Remove(i)
  PROVE  IInv'
  <1> USE DEF IInv, Remove, Click, Queued, userVars, counters
  <1>1. TypeOK'
    <2>1. row[i] \in Rows
      BY DEF TypeOK
    <2>2. <<i, row[i]>> \in Items \X Rows
      BY <2>1
    <2>3. removing' \in SUBSET (Items \X Rows)
      BY <2>2, Zenon DEF TypeOK
    <2>4. file' \in [Items -> BOOLEAN] /\ discarded' \in SUBSET Items
      BY Zenon DEF TypeOK
    <2>5. clicks' \in Nat
      <3>1. clicks \in Nat /\ clicks' = clicks + 1
        BY Zenon DEF TypeOK
      <3> QED BY <3>1
    <2> QED BY <2>3, <2>4, <2>5, Zenon DEF TypeOK
  <1>2. RemovalsOfRows'
    BY DEF RemovalsOfRows, TypeOK
  <1>3. FileKeptUntilStored'
    BY DEF FileKeptUntilStored, TypeOK, Snapshots, Rows
  <1>4. CopiesAccounted'
    BY DEF CopiesAccounted, ToSend, InPass, One, Causes, TypeOK, Snapshots, Rows
  <1>5. (RowsTaken /\ BelowLimit /\ OnePass /\ SentIsStored /\ CompletedIsStored)'
    BY DEF RowsTaken, BelowLimit, OnePass, SentIsStored, CompletedIsStored
  <1> QED BY <1>1, <1>2, <1>3, <1>4, <1>5

LEMMA RemovedStep ==
  ASSUME IInv, NEW r \in removing, Removed(r[1], r[2])
  PROVE  IInv'
  <1> USE DEF IInv, Removed, userVars, counters
  <1>1. TypeOK'
    BY DEF TypeOK, Rows, Statuses
  <1>2. RemovalsOfRows'
    BY DEF RemovalsOfRows, TypeOK
  <1>3. RowsTaken'
    BY DEF RowsTaken, TypeOK, Snapshots, Rows
  <1>4. BelowLimit'
    BY DEF BelowLimit, TypeOK, Snapshots, Rows
  <1>5. CompletedIsStored'
    BY DEF CompletedIsStored, TypeOK, Snapshots, Rows
  <1>6. FileKeptUntilStored'
    BY DEF FileKeptUntilStored, RemovalsOfRows, TypeOK, Snapshots, Rows
  <1>7. CopiesAccounted'
    BY DEF CopiesAccounted, ToSend, InPass, One, Causes, TypeOK, Snapshots, Rows
  <1>8. (OnePass /\ SentIsStored)'
    BY DEF OnePass, SentIsStored
  <1> QED BY <1>1, <1>2, <1>3, <1>4, <1>5, <1>6, <1>7, <1>8

LEMMA ClearCompletedStep ==
  ASSUME IInv, NEW i \in Items, ClearCompleted(i)
  PROVE  IInv'
  <1> USE DEF IInv, ClearCompleted, userVars, counters
  <1>1. TypeOK'
    BY DEF TypeOK, Rows, Statuses
  <1>2. RowsTaken'
    BY DEF RowsTaken, TypeOK, Snapshots, Rows
  <1>3. BelowLimit'
    BY DEF BelowLimit, TypeOK, Snapshots, Rows
  <1>4. CompletedIsStored'
    BY DEF CompletedIsStored, TypeOK, Snapshots, Rows
  <1>5. FileKeptUntilStored'
    BY DEF FileKeptUntilStored, TypeOK, Snapshots, Rows
  <1>6. CopiesAccounted'
    BY DEF CopiesAccounted, ToSend, InPass, One, Causes, TypeOK, Snapshots, Rows
  <1>7. (RemovalsOfRows /\ OnePass /\ SentIsStored)'
    BY DEF RemovalsOfRows, OnePass, SentIsStored
  <1> QED BY <1>1, <1>2, <1>3, <1>4, <1>5, <1>6, <1>7

(* The restart accounts for the copy of a request under way, or for a row  *)
(* that a pass was about to complete.                                      *)
LEMMA RestartStep ==
  ASSUME IInv, Restart
  PROVE  IInv'
  <1> USE DEF IInv, Restart, userVars, counters
  <1>1. TypeOK'
    BY DEF TypeOK, Snapshots
  <1>2. RemovalsOfRows'
    BY DEF RemovalsOfRows, TypeOK
  <1>3. RowsTaken'
    BY DEF RowsTaken, TypeOK, Snapshots, Rows
  <1>4. BelowLimit'
    BY DEF BelowLimit, TypeOK, Snapshots, Rows
  <1>5. OnePass'
    BY DEF OnePass, TypeOK, Snapshots, Rows
  <1>6. SentIsStored'
    BY DEF SentIsStored, TypeOK, Snapshots, Rows
  <1>7. CompletedIsStored'
    BY DEF CompletedIsStored, TypeOK, Snapshots, Rows
  <1>8. FileKeptUntilStored'
    BY DEF FileKeptUntilStored, TypeOK, Snapshots, Rows
  <1>9. CopiesAccounted'
    BY DEF CopiesAccounted, ToSend, InPass, One, Causes, OnePass, TypeOK, Snapshots, Rows
  <1> QED BY <1>1, <1>2, <1>3, <1>4, <1>5, <1>6, <1>7, <1>8, <1>9

-----------------------------------------------------------------------------
LEMMA InitIInv == Init => IInv
  BY BoundsAssumption
  DEF Init, IInv, TypeOK, Row, Rows, Statuses, Snapshots, RemovalsOfRows, RowsTaken,
      BelowLimit, OnePass, SentIsStored, CompletedIsStored, FileKeptUntilStored,
      CopiesAccounted, ToSend, InPass, One, Causes

LEMMA StepIInv == IInv /\ [Next]_vars => IInv'
  <1> SUFFICES ASSUME IInv, [Next]_vars PROVE IInv'
    OBVIOUS
  <1>1. CASE Pass
    <2>1. ASSUME NEW s \in current,
                 \/ Uploaded(s) \/ NotUploaded(s) \/ AnswerLost(s)
                 \/ Completed(s) \/ Cleaned(s) \/ Failed(s)
          PROVE  IInv'
      BY <2>1, UploadedStep, NotUploadedStep, AnswerLostStep, CompletedStep,
         CleanedStep, FailedStep
    <2> QED BY <1>1, <2>1, StartStep, FindStep, BeginStep DEF Pass
  <1>2. CASE User
    BY <1>2, EnqueueStep, RetryStep, RetryAllStep, RemoveStep, ClearCompletedStep DEF User
  <1>3. CASE Settle
    BY <1>3, RetriedStep, RemovedStep DEF Settle
  <1>4. CASE Restart
    BY <1>4, RestartStep
  <1>5. CASE UNCHANGED vars
    BY <1>5
    DEF vars, IInv, TypeOK, RemovalsOfRows, RowsTaken, BelowLimit, OnePass, SentIsStored,
        CompletedIsStored, FileKeptUntilStored, CopiesAccounted, ToSend, InPass, One, Causes
  <1> QED BY <1>1, <1>2, <1>3, <1>4, <1>5 DEF Next

LEMMA Invariance == Spec => []IInv
  BY InitIInv, StepIInv, PTL DEF Spec

-----------------------------------------------------------------------------
(* The rows, the pass and the requests of the user stay within their types.*)
THEOREM TypeCorrect == Spec => []TypeOK
  <1>1. IInv => TypeOK
    BY DEF IInv
  <1> QED BY <1>1, Invariance, PTL

(* No failure, retry, removal or restart deletes a file the server does    *)
(* not have, unless the user asked for its removal.                        *)
THEOREM FilesAreKept == Spec => []FileKeptUntilStored
  <1>1. IInv => FileKeptUntilStored
    BY DEF IInv
  <1> QED BY <1>1, Invariance, PTL

(* A row shown as completed has been stored by the server.                 *)
THEOREM CompletedRowsAreStored == Spec => []CompletedIsStored
  <1>1. IInv => CompletedIsStored
    BY DEF IInv
  <1> QED BY <1>1, Invariance, PTL

(* The retry count never passes the limit, though a pass writes it from a  *)
(* snapshot that a retry may have overtaken.                               *)
THEOREM RetriesEnd == Spec => []RetriesBounded
  <1>1. IInv => RetriesBounded
    BY DEF IInv, BelowLimit, RetriesBounded
  <1> QED BY <1>1, Invariance, PTL

(* Every copy of a file beyond the first is accounted for by a lost answer,*)
(* a restart or a click.                                                   *)
THEOREM EveryCopyExplained == Spec => []CopiesExplained
  <1>1. IInv => CopiesExplained
    BY DEF IInv, TypeOK, CopiesAccounted, CopiesExplained, One, Causes
  <1> QED BY <1>1, Invariance, PTL

-----------------------------------------------------------------------------
(* The queue implements FileDelivery.                                      *)

(* A removal under way was asked for, and not of a row that is absent; so  *)
(* was a retry.                                                            *)
RequestsKnown ==
  /\ \A r \in removing : r[1] \in discarded
  /\ \A i \in retrying : row[i].status # "absent"

(* A pass does not hold a completed row, but the one it has completed.     *)
NotYetSynced ==
  /\ \A s \in todo : row[s.id].status # "completed"
  /\ step \in {"send", "ok", "failed"} =>
       \A s \in current : row[s.id].status # "completed"

DInv == IInv /\ RequestsKnown /\ NotYetSynced

Delivers == [Delivery!Next]_(Delivery!vars)

(* Writing a row changes what is shown of it.                              *)
LEMMA RowWritten ==
  ASSUME TypeOK, NEW i \in Items, NEW status, NEW n, row' = [row EXCEPT ![i] = Row(status, n)]
  PROVE  Shown' = [Shown EXCEPT ![i] = See(status)]
  BY DEF Shown, Row, TypeOK

(* Without a step of the rows, files and requests nothing happens.         *)
LEMMA NothingDelivered ==
  ASSUME Shown' = Shown, UNCHANGED <<file, copies, discarded, retrying, losses, restarts, clicks>>
  PROVE  Delivers
  BY DEF Delivers, Delivery!vars

LEMMA PassBeginsDelivery ==
  ASSUME DInv, Start \/ Find
  PROVE  RequestsKnown' /\ NotYetSynced' /\ Delivers
  <1> USE DEF DInv, Start, Find, userVars, counters
  <1>1. RequestsKnown'
    BY DEF RequestsKnown
  <1>2. NotYetSynced'
    BY DEF IInv, OnePass, NotYetSynced, TypeOK, Retryable, Snapshots
  <1>3. Shown' = Shown
    BY DEF Shown
  <1> QED BY <1>1, <1>2, <1>3, NothingDelivered

LEMMA BeginDelivery ==
  ASSUME DInv, NEW s \in todo, Begin(s)
  PROVE  RequestsKnown' /\ NotYetSynced' /\ Delivers
  <1> DEFINE r == Row("uploading", row[s.id].retryCount)
  <1>1. s.id \in Items /\ TypeOK /\ row[s.id].status \in Statuses
    BY DEF DInv, IInv, TypeOK, Snapshots, Rows
  <1>2. row' = IF Queued(s.id) THEN [row EXCEPT ![s.id] = r] ELSE row
    BY DEF Begin, Patch
  <1>3. RequestsKnown'
    BY <1>1, <1>2 DEF Begin, userVars, DInv, RequestsKnown, Row, TypeOK
  <1>4. NotYetSynced'
    BY <1>1, <1>2 DEF Begin, DInv, NotYetSynced, Row, TypeOK, Snapshots
  <1>5. Shown' = Shown
    BY <1>1, <1>2 DEF DInv, NotYetSynced, Shown, See, Row, Queued, TypeOK, Statuses
  <1> QED BY <1>3, <1>4, <1>5, NothingDelivered DEF Begin, userVars, counters

(* The file is on the device, and what may still be sent is accounted for. *)
LEMMA StoreDelivery ==
  ASSUME DInv, NEW s \in current, Uploaded(s) \/ AnswerLost(s)
  PROVE  RequestsKnown' /\ NotYetSynced' /\ Delivers
  <1>1. s.id \in Items /\ TypeOK
    BY DEF DInv, IInv, TypeOK, Snapshots
  <1>2. copies[s.id] <= losses + restarts + clicks
    BY <1>1 DEF DInv, IInv, CopiesAccounted, ToSend, InPass, One, Causes, TypeOK,
                Uploaded, AnswerLost
  <1>3. RequestsKnown' /\ NotYetSynced'
    BY DEF Uploaded, AnswerLost, userVars, counters, DInv, RequestsKnown, NotYetSynced
  <1>4. Shown' = Shown
    BY DEF Uploaded, AnswerLost, Shown
  <1>5. (losses + restarts + clicks)' \in
          {losses + restarts + clicks, losses + restarts + clicks + 1}
    BY <1>1 DEF Uploaded, AnswerLost, counters, TypeOK
  <1>6. Delivery!Store(s.id)
    BY <1>1, <1>2, <1>4, <1>5
    DEF Delivery!Store, Delivery!StoredOnceMore, Delivery!Excuse,
        Uploaded, AnswerLost, userVars
  <1> QED BY <1>1, <1>3, <1>6 DEF Delivers, Delivery!Next

LEMMA NotUploadedDelivery ==
  ASSUME DInv, NEW s \in current, NotUploaded(s)
  PROVE  RequestsKnown' /\ NotYetSynced' /\ Delivers
  <1> USE DEF DInv, NotUploaded, AfterRefusal, userVars, counters
  <1>1. RequestsKnown' /\ NotYetSynced'
    BY DEF RequestsKnown, NotYetSynced
  <1>2. Shown' = Shown
    BY DEF Shown
  <1> QED BY <1>1, <1>2, NothingDelivered

LEMMA CompletedDelivery ==
  ASSUME DInv, NEW s \in current, Completed(s)
  PROVE  RequestsKnown' /\ NotYetSynced' /\ Delivers
  <1> DEFINE r == Row("completed", row[s.id].retryCount)
  <1>1. s.id \in Items /\ TypeOK /\ row[s.id].status \in Statuses
    BY DEF DInv, IInv, TypeOK, Snapshots, Rows
  <1>2. row' = IF Queued(s.id) THEN [row EXCEPT ![s.id] = r] ELSE row
    BY DEF Completed, Patch
  <1>3. RequestsKnown'
    BY <1>1, <1>2 DEF Completed, userVars, DInv, RequestsKnown, Row, TypeOK
  <1>4. NotYetSynced'
    BY <1>1, <1>2 DEF Completed, DInv, IInv, OnePass, NotYetSynced, Row, TypeOK, Snapshots
  <1>5. CASE ~Queued(s.id)
    <2>1. Shown' = Shown
      BY <1>2, <1>5 DEF Shown
    <2> QED BY <1>3, <1>4, <2>1, NothingDelivered DEF Completed, userVars, counters
  <1>6. CASE Queued(s.id)
    <2>1. Shown' = [Shown EXCEPT ![s.id] = "synced"]
      <3>1. Shown' = [Shown EXCEPT ![s.id] = See("completed")]
        BY <1>1, <1>2, <1>6, RowWritten
      <3> QED BY <3>1 DEF See
    <2>2. Shown[s.id] = "waiting" /\ copies[s.id] > 0
      BY <1>1, <1>6 DEF Completed, Queued, DInv, IInv, SentIsStored, NotYetSynced, Shown, See
    <2>3. Delivery!Sync(s.id)
      BY <2>1, <2>2 DEF Delivery!Sync, Completed, userVars, counters
    <2> QED BY <1>1, <1>3, <1>4, <2>3 DEF Delivers, Delivery!Next
  <1> QED BY <1>5, <1>6

LEMMA CleanedDelivery ==
  ASSUME DInv, NEW s \in current, Cleaned(s)
  PROVE  RequestsKnown' /\ NotYetSynced' /\ Delivers
  <1>1. s.id \in Items /\ copies[s.id] > 0
    BY DEF DInv, IInv, TypeOK, Snapshots, SentIsStored, Cleaned
  <1>2. RequestsKnown' /\ NotYetSynced'
    BY DEF Cleaned, Advance, userVars, counters, DInv, RequestsKnown, NotYetSynced
  <1>3. Shown' = Shown
    BY DEF Cleaned, Shown
  <1>4. CASE UNCHANGED file
    BY <1>2, <1>3, <1>4, NothingDelivered DEF Cleaned, userVars, counters
  <1>5. CASE file' = [file EXCEPT ![s.id] = FALSE]
    <2>1. Delivery!Discard(s.id)
      BY <1>1, <1>3, <1>5 DEF Delivery!Discard, Cleaned, userVars, counters
    <2> QED BY <1>1, <1>2, <2>1 DEF Delivers, Delivery!Next
  <1> QED BY <1>4, <1>5 DEF Cleaned

LEMMA FailedDelivery ==
  ASSUME DInv, NEW s \in current, Failed(s)
  PROVE  RequestsKnown' /\ NotYetSynced' /\ Delivers
  <1>1. s.id \in Items /\ TypeOK /\ row[s.id].status \in Statuses
    BY DEF DInv, IInv, TypeOK, Snapshots, Rows
  <1>2. row' = IF Queued(s.id) THEN [row EXCEPT ![s.id] = AfterError(s)] ELSE row
    BY DEF Failed, Patch
  <1>3. RequestsKnown'
    BY <1>1, <1>2 DEF Failed, userVars, DInv, RequestsKnown, Row, AfterError, TypeOK
  <1>4. NotYetSynced'
    BY <1>1, <1>2 DEF Failed, Advance, DInv, NotYetSynced, Row, AfterError, TypeOK, Snapshots
  <1>5. Shown' = Shown
    BY <1>1, <1>2
    DEF Failed, DInv, NotYetSynced, Shown, See, Row, AfterError, Queued, TypeOK, Statuses
  <1> QED BY <1>3, <1>4, <1>5, NothingDelivered DEF Failed, userVars, counters

LEMMA EnqueueDelivery ==
  ASSUME DInv, NEW i \in Items, Enqueue(i)
  PROVE  RequestsKnown' /\ NotYetSynced' /\ Delivers
  <1>1. TypeOK /\ row' = [row EXCEPT ![i] = Row("pending", 0)]
    BY DEF DInv, IInv, Enqueue
  <1>2. RequestsKnown' /\ NotYetSynced'
    BY <1>1 DEF Enqueue, userVars, DInv, RequestsKnown, NotYetSynced, Row, TypeOK, Snapshots
  <1>3. Shown' = [Shown EXCEPT ![i] = "waiting"] /\ Shown[i] = "none"
    <2>1. Shown' = [Shown EXCEPT ![i] = See("pending")]
      BY <1>1, RowWritten
    <2> QED BY <2>1 DEF Enqueue, Shown, See
  <1>4. Delivery!Pick(i)
    BY <1>3 DEF Delivery!Pick, Enqueue, userVars, counters
  <1> QED BY <1>2, <1>4 DEF Delivers, Delivery!Next

LEMMA AskDelivery ==
  ASSUME DInv, RetryAll \/ \E i \in Items : Retry(i)
  PROVE  RequestsKnown' /\ NotYetSynced' /\ Delivers
  <1>1. PICK again \in SUBSET {i \in Items : row[i].status = "error"} :
          retrying' = retrying \union again
    BY DEF Retry, RetryAll
  <1>2. UNCHANGED <<row, file, copies, step, todo, current, removing, discarded,
                    restarts, losses>>
        /\ clicks' = clicks + 1 /\ clicks \in Nat /\ restarts \in Nat /\ losses \in Nat
    BY DEF Retry, RetryAll, Click, DInv, IInv, TypeOK
  <1>3. RequestsKnown' /\ NotYetSynced'
    BY <1>1, <1>2 DEF DInv, RequestsKnown, NotYetSynced
  <1>4. Shown' = Shown /\ again \in SUBSET {i \in Items : Shown[i] = "waiting"}
    BY <1>1, <1>2 DEF Shown, See
  <1>5. Delivery!AskAgain
    BY <1>1, <1>2, <1>4 DEF Delivery!AskAgain, Delivery!Excuse
  <1> QED BY <1>3, <1>5 DEF Delivers, Delivery!Next

LEMMA RetriedDelivery ==
  ASSUME DInv, NEW i \in Items, Retried(i)
  PROVE  RequestsKnown' /\ NotYetSynced' /\ Delivers
  <1>1. TypeOK /\ row[i].status \in Statuses
    BY DEF DInv, IInv, TypeOK, Rows
  <1>2. row' = IF Queued(i) THEN [row EXCEPT ![i] = Row("pending", 0)] ELSE row
    BY DEF Retried, Patch
  <1>3. RequestsKnown' /\ NotYetSynced'
    BY <1>1, <1>2
    DEF Retried, DInv, RequestsKnown, NotYetSynced, Row, TypeOK, Snapshots
  <1>4. CASE Queued(i)
    <2>1. Shown' = [Shown EXCEPT ![i] = "waiting"] /\ Shown[i] # "gone"
      <3>1. Shown' = [Shown EXCEPT ![i] = See("pending")]
        BY <1>1, <1>2, <1>4, RowWritten
      <3>2. Shown[i] # "gone"
        BY <1>1, <1>4 DEF Shown, See, Queued
      <3> QED BY <3>1, <3>2 DEF See
    <2>2. Delivery!Requeue(i)
      BY <2>1 DEF Delivery!Requeue, Retried, counters
    <2> QED BY <1>3, <2>2 DEF Delivers, Delivery!Next
  <1>5. CASE ~Queued(i)
    <2>1. Shown' = Shown /\ Shown[i] = "gone"
      BY <1>1, <1>2, <1>5 DEF Shown, See, Queued, Retried, DInv, RequestsKnown
    <2>2. Delivery!Requeue(i)
      BY <2>1 DEF Delivery!Requeue, Retried, counters
    <2> QED BY <1>3, <2>2 DEF Delivers, Delivery!Next
  <1> QED BY <1>4, <1>5

LEMMA RemoveDelivery ==
  ASSUME DInv, NEW i \in Items, Remove(i)
  PROVE  RequestsKnown' /\ NotYetSynced' /\ Delivers
  <1>1. TypeOK /\ row[i].status \in Statuses
    BY DEF DInv, IInv, TypeOK, Rows
  <1>2. RequestsKnown' /\ NotYetSynced'
    BY DEF Remove, DInv, RequestsKnown, NotYetSynced
  <1>3. Shown' = Shown /\ Shown[i] \in {"waiting", "synced"}
    BY <1>1 DEF Remove, Queued, Shown, See
  <1>4. (losses + restarts + clicks)' = losses + restarts + clicks + 1
    BY <1>1 DEF Remove, Click, TypeOK
  <1>5. Delivery!Withdraw(i)
    BY <1>3, <1>4 DEF Delivery!Withdraw, Delivery!Excuse, Remove
  <1> QED BY <1>2, <1>5 DEF Delivers, Delivery!Next

LEMMA RemovedDelivery ==
  ASSUME DInv, NEW r \in removing, Removed(r[1], r[2])
  PROVE  RequestsKnown' /\ NotYetSynced' /\ Delivers
  <1>1. TypeOK /\ r[1] \in Items /\ r[1] \in discarded
    BY DEF DInv, IInv, TypeOK, RequestsKnown
  <1>2. RequestsKnown' /\ NotYetSynced'
    BY <1>1 DEF Removed, DInv, RequestsKnown, NotYetSynced, TypeOK, Snapshots, Rows
  <1>3. CASE UNCHANGED row
    <2>1. Shown' = Shown
      BY <1>3 DEF Shown
    <2> QED BY <1>2, <2>1, NothingDelivered DEF Removed, counters
  <1>4. CASE row' = [row EXCEPT ![r[1]].status = "removed"]
    <2>1. Shown' = [Shown EXCEPT ![r[1]] = "gone"]
      BY <1>1, <1>4 DEF Shown, See, TypeOK, Rows
    <2>2. Delivery!Forget(r[1])
      BY <1>1, <2>1 DEF Delivery!Forget, Removed, counters
    <2> QED BY <1>1, <1>2, <2>2 DEF Delivers, Delivery!Next
  <1> QED BY <1>3, <1>4 DEF Removed

LEMMA ClearCompletedDelivery ==
  ASSUME DInv, NEW i \in Items, ClearCompleted(i)
  PROVE  RequestsKnown' /\ NotYetSynced' /\ Delivers
  <1>1. TypeOK
    BY DEF DInv, IInv
  <1>2. RequestsKnown' /\ NotYetSynced'
    BY <1>1
    DEF ClearCompleted, userVars, DInv, RequestsKnown, NotYetSynced, TypeOK, Snapshots, Rows
  <1>3. Shown[i] = "synced" /\ Shown' = [Shown EXCEPT ![i] = "gone"]
    BY <1>1 DEF ClearCompleted, Shown, See, TypeOK, Rows
  <1>4. Delivery!Forget(i)
    BY <1>3 DEF Delivery!Forget, ClearCompleted, userVars, counters
  <1> QED BY <1>2, <1>4 DEF Delivers, Delivery!Next

LEMMA RestartDelivery ==
  ASSUME DInv, Restart
  PROVE  RequestsKnown' /\ NotYetSynced' /\ Delivers
  <1>1. RequestsKnown' /\ NotYetSynced'
    BY DEF Restart, RequestsKnown, NotYetSynced
  <1>2. Shown' = Shown
    BY DEF Restart, Shown
  <1>3. (losses + restarts + clicks)' = losses + restarts + clicks + 1
    BY DEF Restart, DInv, IInv, TypeOK
  <1>4. UNCHANGED copies \/ \E f \in Items : Delivery!StoredOnceMore(f)
    <2>1. ASSUME NEW s \in current, step = "send", file[s.id],
                 copies' = [copies EXCEPT ![s.id] = @ + 1]
          PROVE  s.id \in Items /\ Delivery!StoredOnceMore(s.id)
      <3>1. s.id \in Items
        BY DEF DInv, IInv, TypeOK, Snapshots
      <3>2. copies[s.id] <= losses + restarts + clicks
        BY <2>1, <3>1 DEF DInv, IInv, CopiesAccounted, ToSend, InPass, One, Causes, TypeOK
      <3> QED BY <2>1, <3>1, <3>2 DEF Delivery!StoredOnceMore
    <2> QED BY <2>1 DEF Restart
  <1>5. Delivery!Stop
    BY <1>2, <1>3, <1>4 DEF Delivery!Stop, Delivery!Excuse, Restart
  <1> QED BY <1>1, <1>5 DEF Delivers, Delivery!Next

(* Every step of the queue is a step of FileDelivery, or none of its own.  *)
LEMMA StepDelivery ==
  ASSUME DInv, [Next]_vars
  PROVE  RequestsKnown' /\ NotYetSynced' /\ Delivers
  <1>1. CASE Pass
    <2>1. ASSUME NEW s \in current,
                 \/ Uploaded(s) \/ NotUploaded(s) \/ AnswerLost(s)
                 \/ Completed(s) \/ Cleaned(s) \/ Failed(s)
          PROVE  RequestsKnown' /\ NotYetSynced' /\ Delivers
      BY <2>1, StoreDelivery, NotUploadedDelivery, CompletedDelivery, CleanedDelivery,
         FailedDelivery
    <2> QED BY <1>1, <2>1, PassBeginsDelivery, BeginDelivery DEF Pass
  <1>2. CASE User
    BY <1>2, EnqueueDelivery, AskDelivery, RemoveDelivery, ClearCompletedDelivery DEF User
  <1>3. CASE Settle
    BY <1>3, RetriedDelivery, RemovedDelivery DEF Settle
  <1>4. CASE Restart
    BY <1>4, RestartDelivery
  <1>5. CASE UNCHANGED vars
    <2>1. Shown' = Shown
      BY <1>5 DEF vars, Shown
    <2> QED BY <1>5, <2>1, NothingDelivered DEF vars, DInv, RequestsKnown, NotYetSynced
  <1> QED BY <1>1, <1>2, <1>3, <1>4, <1>5 DEF Next

(* The queue keeps the promise of FileDelivery: a file waits until the     *)
(* server has it, stays synced unless a retry was asked for, and neither   *)
(* the file nor its row disappears before it is stored or withdrawn.       *)
THEOREM ImplementsFileDelivery == Spec => Promise
  <1>1. Init => DInv /\ Delivery!Init
    <2>1. Init => RequestsKnown /\ NotYetSynced
      BY DEF Init, RequestsKnown, NotYetSynced
    <2>2. Init => Delivery!Init
      BY DEF Init, Delivery!Init, Shown, See, Row
    <2> QED BY <2>1, <2>2, InitIInv DEF DInv
  <1>2. DInv /\ [Next]_vars => DInv'
    BY StepIInv, StepDelivery DEF DInv
  <1>3. DInv /\ [Next]_vars => [Delivery!Next]_(Delivery!vars)
    BY StepDelivery DEF Delivers
  <1> QED BY <1>1, <1>2, <1>3, PTL DEF Spec, Promise, Delivery!Spec

=============================================================================
