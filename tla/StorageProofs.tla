----------------------------- MODULE StorageProofs --------------------------
(***************************************************************************)
(* The storage: one instance of it, and the queries put to it.             *)
(*                                                                         *)
(* Safety of bulkWrite against close(), for any number of concurrent       *)
(* writes.  The counter is the key: every call between its first line and  *)
(* the end of its callback is counted, so a close() that has seen zero has *)
(* no callback running, what comes later is refused, and the COMMIT that   *)
(* may still be under way is waited for in the queue of transactions.      *)
(*                                                                         *)
(* When the SQL that mango-to-sql.ts makes of a selector selects the right *)
(* documents.  The translation is recursive; its soundness is stated for   *)
(* one condition of a field and for each combinator over sound parts, the  *)
(* steps of an induction over the selector.                                *)
(***************************************************************************)
EXTENDS SqliteInstance, MangoToSQL, TLAPS

InProgress == {"counted", "queued", "running"}

ProgressIsCounted == \A w \in Writes : stage[w] \in InProgress => w \in counted

DoneIsStored ==
  \A w \in Writes : stage[w] = "done" => w \in table \union overtaken \/ dropped = "yes"

RunningIsOvertaken == \A w \in Running : Closed => w \in overtaken

UndoingIsOvertaken == \A w \in Writes : stage[w] = "undoing" => w \in overtaken

QuietWhenDrained ==
  /\ closing \in {"flushing", "closed"} => Running = {}
  /\ closing = "closed" => InTransaction = {}

NoneOvertakenYet == closing \in {"open", "waiting"} => overtaken = {}

IInv ==
  /\ TypeOK
  /\ ProgressIsCounted
  /\ DoneIsStored
  /\ RunningIsOvertaken
  /\ UndoingIsOvertaken
  /\ QuietWhenDrained
  /\ NoneOvertakenYet
  /\ OnlyBrokenBlocksClose

(* A call moves from one stage to the next.                                *)
LEMMA GotoStage ==
  ASSUME TypeOK, NEW w \in Writes, NEW s \in Stages, Goto(w, s)
  PROVE  /\ stage' \in [Writes -> Stages]
         /\ stage'[w] = s /\ \A v \in Writes \ {w} : stage'[v] = stage[v]
  BY DEF TypeOK, Goto

(* A step of one call.  Only Begin adds a running callback, and only Finish*)
(* one that is being undone.                                               *)
LEMMA WriteIInv ==
  ASSUME IInv, NEW w \in Writes, Write(w)
  PROVE  IInv'
  <1> USE DEF IInv, InProgress
  <1>1. CASE BulkWrite(w)
    <2>1. /\ stage' \in [Writes -> Stages]
          /\ stage'[w] = "counted" /\ \A v \in Writes \ {w} : stage'[v] = stage[v]
      BY <1>1, GotoStage DEF BulkWrite, Stages
    <2>2. /\ counted' = counted \union {w} /\ stage[w] = "idle"
          /\ UNCHANGED <<closing, ahead, table, dropped, overtaken>>
      BY <1>1 DEF BulkWrite
    <2>3. Running' \subseteq Running /\ InTransaction' \subseteq InTransaction /\ Closed' = Closed
      BY <2>1, <2>2 DEF Running, InTransaction, Closed
    <2>4. TypeOK'
      BY <2>1, <2>2 DEF TypeOK
    <2>5. ProgressIsCounted' /\ OnlyBrokenBlocksClose'
      BY <2>1, <2>2 DEF ProgressIsCounted, OnlyBrokenBlocksClose, TypeOK
    <2>6. DoneIsStored'
      BY <2>1, <2>2 DEF DoneIsStored, UndoingIsOvertaken
    <2>7. RunningIsOvertaken' /\ QuietWhenDrained' /\ NoneOvertakenYet'
      BY <2>1, <2>2, <2>3 DEF RunningIsOvertaken, QuietWhenDrained, NoneOvertakenYet
    <2>8. UndoingIsOvertaken'
      BY <2>1, <2>2, <2>3 DEF UndoingIsOvertaken, RunningIsOvertaken, Running
    <2> QED BY <2>4, <2>5, <2>6, <2>7, <2>8
  <1>2. CASE Enqueue(w)
    <2>1. /\ stage' \in [Writes -> Stages]
          /\ stage'[w] = "queued" /\ \A v \in Writes \ {w} : stage'[v] = stage[v]
      BY <1>2, GotoStage DEF Enqueue, Stages
    <2>2. /\ stage[w] = "counted"
          /\ UNCHANGED <<counted, closing, ahead, table, dropped, overtaken>>
      BY <1>2 DEF Enqueue
    <2>3. Running' \subseteq Running /\ InTransaction' \subseteq InTransaction /\ Closed' = Closed
      BY <2>1, <2>2 DEF Running, InTransaction, Closed
    <2>4. TypeOK'
      BY <2>1, <2>2 DEF TypeOK
    <2>5. ProgressIsCounted' /\ OnlyBrokenBlocksClose'
      BY <2>1, <2>2 DEF ProgressIsCounted, OnlyBrokenBlocksClose, TypeOK
    <2>6. DoneIsStored'
      BY <2>1, <2>2 DEF DoneIsStored, UndoingIsOvertaken
    <2>7. RunningIsOvertaken' /\ QuietWhenDrained' /\ NoneOvertakenYet'
      BY <2>1, <2>2, <2>3 DEF RunningIsOvertaken, QuietWhenDrained, NoneOvertakenYet
    <2>8. UndoingIsOvertaken'
      BY <2>1, <2>2, <2>3 DEF UndoingIsOvertaken, RunningIsOvertaken, Running
    <2> QED BY <2>4, <2>5, <2>6, <2>7, <2>8
  <1>3. CASE Begin(w) /\ Closed
    <2>2. /\ Goto(w, "refused") /\ counted' = counted \ {w} /\ stage[w] = "queued"
          /\ UNCHANGED <<closing, ahead, table, dropped, overtaken>>
      BY <1>3 DEF Begin
    <2>1. /\ stage' \in [Writes -> Stages]
          /\ stage'[w] = "refused" /\ \A v \in Writes \ {w} : stage'[v] = stage[v]
      BY <2>2, GotoStage DEF Stages
    <2>3. Running' \subseteq Running /\ InTransaction' \subseteq InTransaction /\ Closed' = Closed
      BY <2>1, <2>2 DEF Running, InTransaction, Closed
    <2>4. TypeOK'
      BY <2>1, <2>2 DEF TypeOK
    <2>5. ProgressIsCounted' /\ OnlyBrokenBlocksClose'
      BY <2>1, <2>2 DEF ProgressIsCounted, OnlyBrokenBlocksClose, TypeOK
    <2>6. DoneIsStored'
      BY <2>1, <2>2 DEF DoneIsStored, UndoingIsOvertaken
    <2>7. RunningIsOvertaken' /\ QuietWhenDrained' /\ NoneOvertakenYet'
      BY <2>1, <2>2, <2>3 DEF RunningIsOvertaken, QuietWhenDrained, NoneOvertakenYet
    <2>8. UndoingIsOvertaken'
      BY <2>1, <2>2, <2>3 DEF UndoingIsOvertaken, RunningIsOvertaken, Running
    <2> QED BY <2>4, <2>5, <2>6, <2>7, <2>8
  <1>4. CASE Begin(w) /\ ~Closed
    <2>2. /\ Goto(w, "running") /\ stage[w] = "queued"
          /\ UNCHANGED <<counted, closing, ahead, table, dropped, overtaken>>
      BY <1>4 DEF Begin
    <2>1. /\ stage' \in [Writes -> Stages]
          /\ stage'[w] = "running" /\ \A v \in Writes \ {w} : stage'[v] = stage[v]
      BY <2>2, GotoStage DEF Stages
    <2>3. ~Closed'
      BY <1>4, <2>2 DEF Closed
    <2>4. TypeOK'
      BY <2>1, <2>2 DEF TypeOK
    <2>5. ProgressIsCounted' /\ OnlyBrokenBlocksClose'
      BY <2>1, <2>2 DEF ProgressIsCounted, OnlyBrokenBlocksClose, TypeOK
    <2>6. DoneIsStored' /\ UndoingIsOvertaken'
      BY <2>1, <2>2 DEF DoneIsStored, UndoingIsOvertaken
    <2>7. RunningIsOvertaken' /\ QuietWhenDrained' /\ NoneOvertakenYet'
      BY <2>2, <2>3 DEF RunningIsOvertaken, QuietWhenDrained, NoneOvertakenYet, Closed
    <2> QED BY <2>4, <2>5, <2>6, <2>7
  <1>5. CASE Finish(w)
    <2> DEFINE next == IF Closed THEN "undoing" ELSE "committing"
    <2>1. /\ stage' \in [Writes -> Stages]
          /\ stage'[w] \in {"undoing", "committing"}
          /\ stage'[w] = "undoing" => Closed
          /\ \A v \in Writes \ {w} : stage'[v] = stage[v]
      <3>1. next \in Stages /\ Goto(w, next)
        BY <1>5 DEF Finish, Stages
      <3>2. next \in {"undoing", "committing"} /\ (next = "undoing" => Closed)
        OBVIOUS
      <3> HIDE DEF next
      <3> QED BY <3>1, <3>2, GotoStage
    <2>2. /\ counted' = counted \ {w} /\ stage[w] = "running"
          /\ UNCHANGED <<closing, ahead, table, dropped, overtaken>>
      BY <1>5 DEF Finish
    <2>3. Running' \subseteq Running /\ InTransaction' \subseteq InTransaction /\ Closed' = Closed
      BY <2>1, <2>2 DEF Running, InTransaction, Closed
    <2>4. TypeOK'
      BY <2>1, <2>2 DEF TypeOK
    <2>5. ProgressIsCounted' /\ OnlyBrokenBlocksClose'
      BY <2>1, <2>2 DEF ProgressIsCounted, OnlyBrokenBlocksClose, TypeOK
    <2>6. DoneIsStored'
      BY <2>1, <2>2 DEF DoneIsStored, UndoingIsOvertaken
    <2>7. RunningIsOvertaken' /\ QuietWhenDrained' /\ NoneOvertakenYet'
      BY <2>1, <2>2, <2>3 DEF RunningIsOvertaken, QuietWhenDrained, NoneOvertakenYet
    <2>8. UndoingIsOvertaken'
      BY <2>1, <2>2, <2>3 DEF UndoingIsOvertaken, RunningIsOvertaken, Running
    <2> QED BY <2>4, <2>5, <2>6, <2>7, <2>8
  <1>6. CASE Commit(w)
    <2>1. /\ stage' \in [Writes -> Stages]
          /\ stage'[w] = "done" /\ \A v \in Writes \ {w} : stage'[v] = stage[v]
      BY <1>6, GotoStage DEF Commit, Stages
    <2>2. /\ stage[w] = "committing" /\ w \notin counted
          /\ UNCHANGED <<counted, closing, ahead, overtaken>>
          /\ dropped' = IF dropped = "pending" THEN "yes" ELSE dropped
          /\ table' = IF dropped = "no" THEN table \union {w} ELSE {}
      BY <1>6 DEF Commit, OnlyBrokenBlocksClose
    <2>3. Running' \subseteq Running /\ InTransaction' \subseteq InTransaction /\ Closed' = Closed
      BY <2>1, <2>2 DEF Running, InTransaction, Closed
    <2>4. TypeOK'
      BY <2>1, <2>2 DEF TypeOK
    <2>5. ProgressIsCounted' /\ OnlyBrokenBlocksClose'
      BY <2>1, <2>2 DEF ProgressIsCounted, OnlyBrokenBlocksClose, TypeOK
    <2>6. DoneIsStored'
      BY <2>1, <2>2 DEF DoneIsStored, TypeOK
    <2>7. RunningIsOvertaken' /\ QuietWhenDrained' /\ NoneOvertakenYet'
      BY <2>1, <2>2, <2>3 DEF RunningIsOvertaken, QuietWhenDrained, NoneOvertakenYet
    <2>8. UndoingIsOvertaken'
      BY <2>1, <2>2, <2>3 DEF UndoingIsOvertaken, RunningIsOvertaken, Running
    <2> QED BY <2>4, <2>5, <2>6, <2>7, <2>8
  <1>7. CASE Rollback(w)
    <2>1. /\ stage' \in [Writes -> Stages]
          /\ stage'[w] = "done" /\ \A v \in Writes \ {w} : stage'[v] = stage[v]
      BY <1>7, GotoStage DEF Rollback, Stages
    <2>2. /\ stage[w] = "undoing" /\ w \notin counted
          /\ UNCHANGED <<counted, closing, ahead, table, overtaken>>
          /\ dropped' = dropped \/ (dropped = "pending" /\ dropped' = "no")
      BY <1>7 DEF Rollback, Undone, OnlyBrokenBlocksClose
    <2>3. Running' \subseteq Running /\ InTransaction' \subseteq InTransaction /\ Closed' = Closed
      BY <2>1, <2>2 DEF Running, InTransaction, Closed
    <2>4. TypeOK'
      BY <2>1, <2>2 DEF TypeOK
    <2>5. ProgressIsCounted' /\ OnlyBrokenBlocksClose'
      BY <2>1, <2>2 DEF ProgressIsCounted, OnlyBrokenBlocksClose, TypeOK
    <2>6. DoneIsStored'
      BY <2>1, <2>2 DEF DoneIsStored, UndoingIsOvertaken
    <2>7. RunningIsOvertaken' /\ QuietWhenDrained' /\ NoneOvertakenYet'
      BY <2>1, <2>2, <2>3 DEF RunningIsOvertaken, QuietWhenDrained, NoneOvertakenYet
    <2>8. UndoingIsOvertaken'
      BY <2>1, <2>2, <2>3 DEF UndoingIsOvertaken, RunningIsOvertaken, Running
    <2> QED BY <2>4, <2>5, <2>6, <2>7, <2>8
  <1>8. CASE Break(w)
    <2>1. /\ stage' \in [Writes -> Stages]
          /\ stage'[w] = "broken" /\ \A v \in Writes \ {w} : stage'[v] = stage[v]
      BY <1>8, GotoStage DEF Break, Stages
    <2>2. /\ stage[w] \in {"counted", "queued", "running", "committing", "undoing"}
          /\ UNCHANGED <<counted, closing, ahead, table, overtaken>>
          /\ dropped' = dropped \/ (dropped = "pending" /\ dropped' = "no")
      BY <1>8 DEF Break, Undone, InTransaction
    <2>3. Running' \subseteq Running /\ InTransaction' \subseteq InTransaction /\ Closed' = Closed
      BY <2>1, <2>2 DEF Running, InTransaction, Closed
    <2>4. TypeOK'
      BY <2>1, <2>2 DEF TypeOK
    <2>5. ProgressIsCounted' /\ OnlyBrokenBlocksClose'
      BY <2>1, <2>2 DEF ProgressIsCounted, OnlyBrokenBlocksClose, TypeOK
    <2>6. DoneIsStored'
      BY <2>1, <2>2 DEF DoneIsStored, UndoingIsOvertaken
    <2>7. RunningIsOvertaken' /\ QuietWhenDrained' /\ NoneOvertakenYet'
      BY <2>1, <2>2, <2>3 DEF RunningIsOvertaken, QuietWhenDrained, NoneOvertakenYet
    <2>8. UndoingIsOvertaken'
      BY <2>1, <2>2, <2>3 DEF UndoingIsOvertaken, RunningIsOvertaken, Running
    <2> QED BY <2>4, <2>5, <2>6, <2>7, <2>8
  <1> QED BY <1>1, <1>2, <1>3, <1>4, <1>5, <1>6, <1>7, <1>8 DEF Write

(* The steps of close() and remove() move no call.                         *)
LEMMA CloserIInv ==
  ASSUME IInv, Closer
  PROVE  IInv'
  <1> USE DEF IInv
  <1>1. UNCHANGED <<stage, counted>> /\ Running' = Running /\ InTransaction' = InTransaction
    BY DEF Closer, Close, CloseThrows, Remove, Drain, Flush, CloseDone, Running, InTransaction
  <1>2. TypeOK'
    BY <1>1 DEF Closer, Close, CloseThrows, Remove, Drain, Flush, CloseDone, TypeOK,
                InQueue, InTransaction, Running
  <1>3. ProgressIsCounted' /\ OnlyBrokenBlocksClose'
    BY <1>1 DEF ProgressIsCounted, OnlyBrokenBlocksClose
  <1>4. CASE Close \/ CloseThrows
    <2>1. /\ closing \in {"open", "waiting"} /\ closing' \in {"open", "waiting"}
          /\ UNCHANGED <<table, dropped, overtaken>>
      BY <1>4 DEF Close, CloseThrows
    <2> QED BY <1>1, <1>2, <1>3, <2>1 DEF DoneIsStored, RunningIsOvertaken,
                UndoingIsOvertaken, QuietWhenDrained, NoneOvertakenYet, Closed
  <1>5. CASE Remove
    <2>1. /\ closing' = IF closing = "open" THEN "waiting" ELSE closing
          /\ closing # "closed" /\ overtaken' = overtaken
          /\ dropped' = "yes" \/ (dropped # "yes" /\ table' = table)
      BY <1>5 DEF Remove
    <2>2. DoneIsStored'
      BY <1>1, <2>1 DEF DoneIsStored
    <2> QED BY <1>1, <1>2, <1>3, <2>1, <2>2 DEF RunningIsOvertaken, UndoingIsOvertaken,
                QuietWhenDrained, NoneOvertakenYet, Closed
  <1>6. CASE Drain
    <2>1. closing' = "draining" /\ overtaken' = Running /\ UNCHANGED <<table, dropped>>
      BY <1>6 DEF Drain
    <2>2. overtaken = {}
      BY <1>6 DEF Drain, NoneOvertakenYet
    <2> QED BY <1>1, <1>2, <1>3, <2>1, <2>2 DEF DoneIsStored, RunningIsOvertaken,
                UndoingIsOvertaken, QuietWhenDrained, NoneOvertakenYet, Closed
  <1>7. CASE Flush
    <2>1. /\ counted = {} /\ closing' = "flushing" /\ Closed
          /\ UNCHANGED <<table, dropped, overtaken>>
      BY <1>7 DEF Flush, Closed
    <2>2. Running = {}
      BY <2>1 DEF ProgressIsCounted, InProgress, Running
    <2> QED BY <1>1, <1>2, <1>3, <2>1, <2>2 DEF DoneIsStored, RunningIsOvertaken,
                UndoingIsOvertaken, QuietWhenDrained, NoneOvertakenYet, Closed
  <1>8. CASE CloseDone
    <2>1. /\ InTransaction = {} /\ closing' = "closed" /\ Closed
          /\ UNCHANGED <<table, dropped, overtaken>>
      BY <1>8 DEF CloseDone, Closed
    <2>2. Running = {}
      BY <2>1 DEF Running, InTransaction
    <2> QED BY <1>1, <1>2, <1>3, <2>1, <2>2 DEF DoneIsStored, RunningIsOvertaken,
                UndoingIsOvertaken, QuietWhenDrained, NoneOvertakenYet, Closed
  <1> QED BY <1>4, <1>5, <1>6, <1>7, <1>8 DEF Closer

(* The counter, the flag and the table agree in every reachable state.     *)
THEOREM Inductive == Spec => []IInv
  <1>1. Init => IInv
    BY DEF Init, IInv, TypeOK, Stages, ProgressIsCounted, DoneIsStored, RunningIsOvertaken,
           UndoingIsOvertaken, QuietWhenDrained, NoneOvertakenYet, OnlyBrokenBlocksClose,
           InProgress, Running, InTransaction
  <1>2. IInv /\ [Next]_vars => IInv'
    <2>1. IInv /\ UNCHANGED vars => IInv'
      BY DEF vars, IInv, TypeOK, ProgressIsCounted, DoneIsStored, RunningIsOvertaken,
             UndoingIsOvertaken, QuietWhenDrained, NoneOvertakenYet, OnlyBrokenBlocksClose,
             InProgress, Running, InTransaction, Closed
    <2> QED BY <2>1, WriteIInv, CloserIInv DEF Next
  <1> QED BY <1>1, <1>2, PTL DEF Spec

(* A write that was reported as done is stored, unless close() came in the *)
(* middle of its callback or remove() dropped the table (instance.ts).     *)
THEOREM DoneIsInTheTable == Spec => []ReturnedIsStored
  <1>1. IInv => ReturnedIsStored
    BY DEF IInv, DoneIsStored, ReturnedIsStored
  <1> QED BY <1>1, Inductive, PTL

(* close() cuts no transaction off, though COMMIT comes after the counter  *)
(* has gone down, and lets none begin afterwards.                          *)
THEOREM CloseIsClean == Spec => []ClosedIsQuiet
  <1>1. IInv => ClosedIsQuiet
    BY DEF IInv, QuietWhenDrained, RunningIsOvertaken, ClosedIsQuiet, Running
  <1> QED BY <1>1, Inductive, PTL

(* After close() nothing is written, whoever still calls bulkWrite.        *)
THEOREM ClosedStaysClosed == Spec => ClosedIsFinal
  <1>1. IInv /\ [Next]_vars => [closing = "closed" => UNCHANGED <<table, dropped, closing>>]_vars
    <2> SUFFICES ASSUME IInv, Next, closing = "closed"
                 PROVE  UNCHANGED <<table, dropped, closing>>
      OBVIOUS
    <2>1. InTransaction = {}
      BY DEF IInv, QuietWhenDrained
    <2>2. ASSUME NEW w \in Writes, Write(w) PROVE UNCHANGED <<table, dropped, closing>>
      <3>1. stage[w] \notin {"committing", "undoing"} /\ w \notin InTransaction
        BY <2>1 DEF InTransaction
      <3> QED BY <2>2, <3>1 DEF Write, BulkWrite, Enqueue, Begin, Finish, Commit,
                                Rollback, Break, Undone
    <2>3. CASE Closer
      BY <2>3 DEF Closer, Close, CloseThrows, Remove, Drain, Flush, CloseDone
    <2> QED BY <2>2, <2>3 DEF Next
  <1> QED BY <1>1, Inductive, PTL DEF Spec, ClosedIsFinal

(* close() waits for nothing but calls on their way and calls that broke   *)
(* before the counter went down, which are counted for ever.               *)
THEOREM CloseWaitsForWrites == Spec => []OnlyBrokenBlocksClose
  <1>1. IInv => OnlyBrokenBlocksClose
    BY DEF IInv
  <1> QED BY <1>1, Inductive, PTL

-----------------------------------------------------------------------------
(* Queries.                                                                *)

Operators == {"$eq", "$ne"} \union Orders

(* The values for which a condition is translated faithfully: one type, no *)
(* list, and, where SQL's NULL would swallow a match, a value at all.      *)
Faithful(op, v, w) ==
  \/ v.type = w.type /\ Plain(v)
  \/ Empty(v) /\ Plain(w) /\ op # "$ne"
  \/ v.type # "list" /\ w.type = "null" /\ op \in {"$eq", "$ne"}

-----------------------------------------------------------------------------
(* A condition on a field selects exactly the documents that match, when   *)
(* the value is faithful: so a "$ne" loses documents without the field,    *)
(* and no condition looks into a list.                                     *)
THEOREM ConditionIsExact ==
  ASSUME NEW v \in FieldValues, NEW w \in Scalars, NEW op \in Operators, Faithful(op, v, w)
  PROVE  (Condition(op, v, w) = "true") <=> Matches(op, v, w)
  <1> USE DEF FieldValues, Scalars, ScalarTypes
  <1>1. v.type # "list" /\ Items(v) = {v}
    BY DEF Faithful, Items, Plain, Empty
  <1>2. Matches(op, v, w) <=>
          \/ op = "$eq" /\ Equal(v, w)
          \/ op = "$ne" /\ ~Equal(v, w)
          \/ op \in Orders /\ v.type = w.type /\ InOrder(op, v.rank, w.rank)
    BY <1>1 DEF Matches
  <1>3. CASE v.type = w.type /\ Plain(v)
    BY <1>2, <1>3 DEF Condition, Compare, Bool3, SameColumn, ColumnInOrder, Class, Equal,
                      Plain, Empty, Operators, Orders
  <1>4. CASE Empty(v) /\ Plain(w) /\ op # "$ne"
    BY <1>2, <1>4 DEF Condition, Compare, Bool3, Equal, Plain, Empty, Operators, Orders
  <1>5. CASE v.type # "list" /\ w.type = "null" /\ op \in {"$eq", "$ne"}
    BY <1>2, <1>5 DEF Condition, Bool3, Equal, Empty, Operators, Orders
  <1> QED BY <1>3, <1>4, <1>5 DEF Faithful

(* $in, for operands whose equality is faithful.                           *)
THEOREM InIsExact ==
  ASSUME NEW v \in FieldValues, NEW ws \in SUBSET Scalars,
         \A w \in ws : Plain(w) /\ Faithful("$eq", v, w)
  PROVE  (In(v, ws) = "true") <=> MatchesIn(v, ws)
  <1>1. \A w \in ws : (Compare("$eq", v, w) = "true") <=> Matches("$eq", v, w)
    <2> SUFFICES ASSUME NEW w \in ws
                 PROVE  (Compare("$eq", v, w) = "true") <=> Matches("$eq", v, w)
      OBVIOUS
    <2>1. Condition("$eq", v, w) = Compare("$eq", v, w)
      BY DEF Condition, Plain
    <2> QED BY <2>1, ConditionIsExact DEF Operators
  <1> QED BY <1>1 DEF In, MatchesIn

(* $nin, for a value that is there.                                        *)
THEOREM NotInIsExact ==
  ASSUME NEW v \in FieldValues, NEW ws \in SUBSET Scalars, Plain(v),
         \A w \in ws : w.type = v.type
  PROVE  NotIn(v, ws) \in {"none", "true"} <=> ~MatchesIn(v, ws)
  <1>1. \A w \in ws : Plain(w) /\ Faithful("$eq", v, w) /\ Compare("$eq", v, w) # "null"
    BY DEF Plain, Faithful, Compare, Empty, Bool3
  <1>2. In(v, ws) \in {"true", "false"}
    BY <1>1 DEF In
  <1>3. (In(v, ws) = "true") <=> MatchesIn(v, ws)
    BY <1>1, InIsExact
  <1>4. CASE ws = {}
    BY <1>4 DEF NotIn, MatchesIn
  <1>5. CASE ws # {}
    BY <1>2, <1>3, <1>5 DEF NotIn, Not3, Bool3
  <1> QED BY <1>4, <1>5

(* $exists, unless the field holds an explicit null.                       *)
THEOREM ExistsIsExact ==
  ASSUME NEW v \in FieldValues, NEW yes \in BOOLEAN, v.type # "null"
  PROVE  (Exists(v, yes) = "true") <=> MatchesExists(v, yes)
  BY DEF Exists, MatchesExists, Bool3, Empty

-----------------------------------------------------------------------------
LEMMA ClausesOf ==
  ASSUME NEW subs \in SUBSET Results
  PROVE  /\ \A s \in subs : s.where # "none" => s.where \in Clauses(subs)
         /\ \A c \in Clauses(subs) : c # "none" /\ \E s \in subs : s.where = c
  BY DEF Clauses

(* $and, and a selector with several entries, of sound parts is sound.     *)
THEOREM AllIsSound ==
  ASSUME NEW subs \in SUBSET Results, \A s \in subs : Sound(s)
  PROVE  Sound(All(subs))
  <1>1. ASSUME All(subs).matches PROVE Selects(All(subs))
    <2>1. \A s \in subs : s.where \in {"none", "true"}
      BY <1>1 DEF All, Combined, Sound, Selects
    <2>2. \A c \in Clauses(subs) : c = "true"
      BY <2>1, ClausesOf
    <2> QED BY <2>2 DEF All, Combined, Selects, And3
  <1>2. ASSUME Selects(All(subs)), ~All(subs).post PROVE All(subs).matches
    <2> SUFFICES ASSUME NEW s \in subs PROVE s.matches
      BY DEF All, Combined
    <2>1. ~s.post
      BY <1>2 DEF All, Combined
    <2>2. s.where \in {"none", "true", "false", "null"}
      BY DEF Results
    <2>3. CASE s.where = "none"
      BY <2>1, <2>3 DEF Sound, Selects
    <2>4. CASE s.where # "none"
      <3>1. s.where \in Clauses(subs)
        BY <2>4, ClausesOf
      <3>2. And3(Clauses(subs)) = "true"
        BY <1>2, <3>1 DEF All, Combined, Selects, And3
      <3>3. s.where = "true"
        BY <2>2, <2>4, <3>1, <3>2 DEF And3
      <3> QED BY <2>1, <3>3 DEF Sound, Selects
    <2> QED BY <2>3, <2>4
  <1> QED BY <1>1, <1>2 DEF Sound

(* $or of sound parts is sound when each has a clause, or none has: a part *)
(* without a clause, like one $regex, is dropped from the disjunction, and *)
(* the documents only it matches are never fetched.                        *)
THEOREM OrIsSound ==
  ASSUME NEW subs \in SUBSET Results, subs # {}, \A s \in subs : Sound(s),
         (\E s \in subs : s.where = "none") => \A s \in subs : s.where = "none"
  PROVE  Sound(Or(subs))
  <1>1. CASE \A s \in subs : s.where = "none"
    <2>1. Clauses(subs) = {}
      BY <1>1 DEF Clauses
    <2>2. \A s \in subs : ~s.post => s.matches
      BY <1>1 DEF Sound, Selects
    <2> QED BY <2>1, <2>2 DEF Or, Combined, Sound, Selects
  <1>2. CASE \A s \in subs : s.where # "none"
    <2>1. Clauses(subs) # {}
      BY <1>2, ClausesOf
    <2>2. ASSUME Or(subs).matches PROVE Selects(Or(subs))
      <3>1. PICK s \in subs : s.matches
        BY <2>2 DEF Or, Combined
      <3>2. s.where = "true"
        BY <1>2, <3>1 DEF Sound, Selects
      <3>3. "true" \in Clauses(subs)
        BY <3>2, ClausesOf
      <3> QED BY <3>3 DEF Or, Combined, Selects, Or3
    <2>3. ASSUME Selects(Or(subs)), ~Or(subs).post PROVE Or(subs).matches
      <3>1. "true" \in Clauses(subs)
        BY <2>1, <2>3 DEF Or, Combined, Selects, Or3
      <3>2. PICK s \in subs : s.where = "true"
        BY <3>1, ClausesOf
      <3>3. ~s.post
        BY <2>3 DEF Or, Combined
      <3>4. s.matches
        BY <3>2, <3>3 DEF Sound, Selects
      <3> QED BY <3>4 DEF Or, Combined
    <2> QED BY <2>2, <2>3 DEF Sound
  <1> QED BY <1>1, <1>2

(* $nor needs more: what SQL does not know, or only bounds from above, its *)
(* negation loses.                                                         *)
THEOREM NorIsSound ==
  ASSUME NEW subs \in SUBSET Results, \A s \in subs : Sound(s) /\ Decided(s)
  PROVE  Sound(Nor(subs)) /\ (subs # {} => Decided(Nor(subs)))
  <1>1. \A s \in subs : s.matches <=> s.where = "true"
    BY DEF Sound, Decided, Selects
  <1>2. \A s \in subs : s.where \in Clauses(subs)
    BY ClausesOf DEF Decided
  <1>3. Clauses(subs) \subseteq {"true", "false"}
    BY ClausesOf DEF Decided
  <1>4. ~Nor(subs).post
    BY DEF Nor, Combined, Decided
  <1>5. "true" \in Clauses(subs) <=> \E s \in subs : s.matches
    BY <1>1, <1>2, ClausesOf
  <1>6. CASE subs = {}
    <2>1. Clauses(subs) = {}
      BY <1>6 DEF Clauses
    <2> QED BY <1>6, <2>1 DEF Nor, Combined, Sound, Selects
  <1>7. CASE subs # {}
    <2>1. Clauses(subs) # {}
      BY <1>2, <1>7
    <2>2. Nor(subs).where = IF "true" \in Clauses(subs) THEN "false" ELSE "true"
      BY <1>3, <2>1 DEF Nor, Combined, Not3, Or3, Bool3
    <2>3. Nor(subs).matches <=> ~("true" \in Clauses(subs))
      BY <1>5 DEF Nor, Combined
    <2> QED BY <1>4, <2>2, <2>3 DEF Sound, Selects, Decided
  <1> QED BY <1>6, <1>7

-----------------------------------------------------------------------------
(* query returns the matching documents when the translation is sound for  *)
(* each of them, filtered again or not, and so does count.                 *)
THEOREM QueryReturnsMatches ==
  ASSUME NEW D, NEW r \in [D -> Results], \A d \in D : Sound(r[d])
  PROVE  Query(r) = {d \in D : r[d].matches}
  BY DEF Query, Sound

(* The upload queue finds the rows it means to: pending ones, and failed   *)
(* ones with retries left.                                                 *)
THEOREM ProcessQueueFindsItsRows ==
  ASSUME NEW status \in FieldValues, NEW retryCount \in FieldValues,
         NEW pending \in Scalars, NEW error \in Scalars, NEW maxRetries \in Scalars,
         status.type = "string", retryCount.type = "number",
         pending.type = "string", error.type = "string", maxRetries.type = "number"
  PROVE  LET r == Processable(status, retryCount, pending, error, maxRetries)
         IN  /\ Sound(r) /\ ~r.post
             /\ r.matches <=> \/ status.rank = pending.rank
                              \/ status.rank = error.rank /\ retryCount.rank < maxRetries.rank
  <1> DEFINE p == Clause(Condition("$eq", status, pending), Matches("$eq", status, pending))
             e == Clause(Condition("$eq", status, error), Matches("$eq", status, error))
             l == Clause(Condition("$lt", retryCount, maxRetries),
                         Matches("$lt", retryCount, maxRetries))
  <1>1. /\ Matches("$eq", status, pending) <=> status.rank = pending.rank
        /\ Matches("$eq", status, error) <=> status.rank = error.rank
        /\ Matches("$lt", retryCount, maxRetries) <=> retryCount.rank < maxRetries.rank
    BY DEF Matches, Items, Equal, Empty, Orders, InOrder, FieldValues, Scalars
  <1>2. /\ Condition("$eq", status, pending) \in {"true", "false"}
        /\ Condition("$eq", status, error) \in {"true", "false"}
        /\ Condition("$lt", retryCount, maxRetries) \in {"true", "false"}
    BY DEF Condition, Compare, Empty, Bool3
  <1>3. {p, e, l} \subseteq Results
    BY <1>2 DEF Clause, Results, Matches
  <1>4. Sound(p) /\ Sound(e) /\ Sound(l)
    BY <1>2, ConditionIsExact DEF Sound, Selects, Clause, Faithful, Plain, Operators, Orders
  <1> DEFINE failed == All({e, l})
             r == Or({All({p}), failed})
  <1>5. /\ Sound(All({p})) /\ Sound(failed)
        /\ {p} \subseteq Results /\ {e, l} \subseteq Results
    <2> HIDE DEF p, e, l
    <2> QED BY <1>3, <1>4, AllIsSound
  <1>6. ~p.post /\ ~e.post /\ ~l.post
    BY DEF Clause
  <1>7. /\ Clauses({p}) = {p.where} /\ Clauses({e, l}) = {e.where, l.where}
    BY <1>2 DEF Clauses, Clause
  <1>8. \A s \in {All({p}), failed} :
          s \in Results /\ s.where # "none" /\ ~s.post /\ Sound(s)
    <2>1. p.where # "none" /\ e.where # "none"
      BY <1>2 DEF Clause
    <2> HIDE DEF p, e, l
    <2>2. /\ All({p}) \in Results /\ All({p}).where # "none" /\ ~All({p}).post
      BY <1>6, <1>7 DEF All, Combined, And3, Results
    <2>3. /\ failed \in Results /\ failed.where # "none" /\ ~failed.post
      BY <1>6, <1>7 DEF All, Combined, And3, Results
    <2> QED BY <1>5, <2>2, <2>3
  <1>9. Sound(r) /\ ~r.post
    <2>1. Sound(r)
      <3> HIDE DEF failed
      <3>1. {All({p}), failed} \in SUBSET Results
        BY <1>8
      <3> QED BY <1>8, <3>1, OrIsSound
    <2>2. ~r.post
      BY <1>8 DEF Or, Combined
    <2> QED BY <2>1, <2>2
  <1>10. r.matches <=> p.matches \/ (e.matches /\ l.matches)
    <2> HIDE DEF p, e, l
    <2> QED BY DEF Or, All, Combined
  <1>11. r = Processable(status, retryCount, pending, error, maxRetries)
    BY DEF Processable
  <1>12. r.matches <=> \/ status.rank = pending.rank
                       \/ status.rank = error.rank /\ retryCount.rank < maxRetries.rank
    BY <1>1, <1>10 DEF Clause
  <1> QED
    <2> HIDE DEF r
    <2> QED BY <1>9, <1>11, <1>12

=============================================================================
