--------------------------- MODULE SqliteInstance ---------------------------
(***************************************************************************)
(* One collection's SQLite storage instance (storage/instance.ts): the     *)
(* writes in progress, the counter close() waits for, and the flag that    *)
(* refuses or rolls back what comes too late.  The npm library's           *)
(* sqliteTransaction is external: it runs one transaction of a database at *)
(* a time and undoes one whose callback throws.                            *)
(***************************************************************************)

CONSTANTS Writes   \* the calls of bulkWrite, each of rows of its own

VARIABLES
  stage,     \* where each call is
  counted,   \* the calls openWriteCount$ counts
  closing,   \* where close() is
  ahead,     \* the calls whose transactions close() awaits before it starts
  table,     \* the calls whose rows are committed
  dropped,   \* the DROP of remove(): "no", "pending" in an open transaction, "yes"
  overtaken  \* history: calls in their callback when closed was set

vars == <<stage, counted, closing, ahead, table, dropped, overtaken>>

Stages == {"idle", "counted", "queued", "running", "committing", "undoing",
           "done", "refused", "broken"}

(* closed is set when close() begins to drain.                             *)
Closed == closing \in {"draining", "flushing", "closed"}

(* The callback is executing; the transaction ends a COMMIT or ROLLBACK    *)
(* later.                                                                  *)
Running == {w \in Writes : stage[w] = "running"}

InTransaction == {w \in Writes : stage[w] \in {"running", "committing", "undoing"}}

InQueue == InTransaction \union {w \in Writes : stage[w] = "queued"}

Init ==
  /\ stage = [w \in Writes |-> "idle"]
  /\ counted = {} /\ closing = "open" /\ ahead = {}
  /\ table = {} /\ dropped = "no" /\ overtaken = {}

Goto(w, s) == stage' = [stage EXCEPT ![w] = s]

-----------------------------------------------------------------------------
(* bulkWrite counts before it awaits anything, closed or not.              *)
BulkWrite(w) ==
  /\ stage[w] = "idle" /\ Goto(w, "counted")
  /\ counted' = counted \union {w}
  /\ UNCHANGED <<closing, ahead, table, dropped, overtaken>>

Enqueue(w) ==
  /\ stage[w] = "counted" /\ Goto(w, "queued")
  /\ UNCHANGED <<counted, closing, ahead, table, dropped, overtaken>>

(* The transaction begins: refused when the instance is closed.            *)
Begin(w) ==
  /\ stage[w] = "queued" /\ InTransaction = {}
  /\ \/ Closed /\ Goto(w, "refused") /\ counted' = counted \ {w}
     \/ ~Closed /\ Goto(w, "running") /\ UNCHANGED counted
  /\ UNCHANGED <<closing, ahead, table, dropped, overtaken>>

(* The statements are done, before the table was dropped or in the same    *)
(* transaction.  The counter goes down, and closed decides what follows.   *)
Finish(w) ==
  /\ stage[w] = "running" /\ dropped # "yes"
  /\ Goto(w, IF Closed THEN "undoing" ELSE "committing")
  /\ counted' = counted \ {w}
  /\ UNCHANGED <<closing, ahead, table, dropped, overtaken>>

(* COMMIT, with a DROP that fell into the transaction.                     *)
Commit(w) ==
  /\ stage[w] = "committing" /\ Goto(w, "done")
  /\ dropped' = IF dropped = "pending" THEN "yes" ELSE dropped
  /\ table' = IF dropped = "no" THEN table \union {w} ELSE {}
  /\ UNCHANGED <<counted, closing, ahead, overtaken>>

(* The transaction is undone, and a DROP with it.                          *)
Undone(w) == dropped' = IF w \in InTransaction /\ dropped = "pending" THEN "no" ELSE dropped

(* ROLLBACK: the caller is told of no error, and of the events, as if the  *)
(* rows had been written.                                                  *)
Rollback(w) ==
  /\ stage[w] = "undoing" /\ Goto(w, "done")
  /\ Undone(w)
  /\ UNCHANGED <<counted, closing, ahead, table, overtaken>>

(* bulkWrite throws: databasePromise rejects, BEGIN fails when its turn    *)
(* comes, a statement fails, or COMMIT does.  A call that was counted stays*)
(* counted.                                                                *)
Break(w) ==
  /\ \/ stage[w] = "counted" \/ w \in InTransaction
     \/ stage[w] = "queued" /\ InTransaction = {}
  /\ Goto(w, "broken")
  /\ Undone(w)
  /\ UNCHANGED <<counted, closing, ahead, table, overtaken>>

-----------------------------------------------------------------------------
(* close() awaits the transactions that are queued when it is called.      *)
Close ==
  /\ closing = "open" /\ closing' = "waiting"
  /\ ahead' = InQueue
  /\ UNCHANGED <<stage, counted, table, dropped, overtaken>>

(* The queue it awaits rejects, as a transaction of it may have: close()   *)
(* throws, and may be called again.                                        *)
CloseThrows ==
  /\ closing = "waiting" /\ \E w \in ahead : stage[w] = "broken"
  /\ closing' = "open"
  /\ UNCHANGED <<stage, counted, ahead, table, dropped, overtaken>>

(* remove() drops the table and closes.  It begins before closed is set,   *)
(* but the DROP comes two awaits later, on the connection of whatever      *)
(* transaction is open then.                                               *)
Remove ==
  /\ closing # "closed"
  /\ closing' = IF closing = "open" THEN "waiting" ELSE closing
  /\ ahead' = IF closing = "open" THEN InQueue ELSE ahead
  /\ IF InTransaction = {} THEN dropped' = "yes" /\ table' = {}
     ELSE dropped' = (IF dropped = "yes" THEN "yes" ELSE "pending") /\ UNCHANGED table
  /\ UNCHANGED <<stage, counted, overtaken>>

Drain ==
  /\ closing = "waiting" /\ ahead \intersect InQueue = {}
  /\ closing' = "draining"
  /\ overtaken' = Running
  /\ UNCHANGED <<stage, counted, ahead, table, dropped>>

Flush ==
  /\ closing = "draining" /\ counted = {}
  /\ closing' = "flushing"
  /\ UNCHANGED <<stage, counted, ahead, table, dropped, overtaken>>

(* After an empty transaction of its own, which waits for its turn, the    *)
(* connection is closed.                                                   *)
CloseDone ==
  /\ closing = "flushing" /\ InTransaction = {}
  /\ closing' = "closed"
  /\ UNCHANGED <<stage, counted, ahead, table, dropped, overtaken>>

Write(w) ==
  \/ BulkWrite(w) \/ Enqueue(w) \/ Begin(w) \/ Finish(w)
  \/ Commit(w) \/ Rollback(w) \/ Break(w)

Closer == Close \/ CloseThrows \/ Remove \/ Drain \/ Flush \/ CloseDone

Next == (\E w \in Writes : Write(w)) \/ Closer

Spec == Init /\ [][Next]_vars

-----------------------------------------------------------------------------
TypeOK ==
  /\ stage \in [Writes -> Stages]
  /\ counted \in SUBSET Writes /\ ahead \in SUBSET Writes
  /\ closing \in {"open", "waiting", "draining", "flushing", "closed"}
  /\ table \in SUBSET Writes /\ overtaken \in SUBSET Writes
  /\ dropped \in {"no", "pending", "yes"}

(* A write reported as done is in the table, unless the table was dropped  *)
(* or close() set closed while its callback was running: then bulkWrite    *)
(* rolls it back and still reports success (instance.ts:155).              *)
ReturnedIsStored ==
  \A w \in Writes : stage[w] = "done" => w \in table \union overtaken \/ dropped = "yes"

(* Nothing is written through a connection that close() has closed, and no *)
(* transaction is cut off by it, however late bulkWrite is called; no      *)
(* callback goes on once the counter has let close() pass.                 *)
ClosedIsQuiet ==
  /\ closing = "closed" => InTransaction = {}
  /\ closing = "flushing" => Running = {}
  /\ \A w \in Running : Closed => w \in overtaken

ClosedIsFinal == [][closing = "closed" => UNCHANGED <<table, dropped, closing>>]_vars

(* What close() waits for is still on its way, or broke before the counter *)
(* went down: only the latter can keep it from ending.                     *)
OnlyBrokenBlocksClose ==
  \A w \in counted : stage[w] \in {"counted", "queued", "running", "broken"}

=============================================================================
