------------------------------ MODULE SyncPush ------------------------------
(***************************************************************************)
(* The server's push endpoint (syncPush.ts) on one document: writes that   *)
(* carry the state they started from are merged field by field.  Requests  *)
(* of several clients interleave at the awaits between findByID and the    *)
(* update.  Fields are the ones outside SKIP_FIELDS; values are compared   *)
(* as their JSON, and what JSON does not tell apart is one value here.     *)
(***************************************************************************)
CONSTANTS
  Fields,    \* the fields that are merged
  Values,    \* what a field may hold, Absent and Null among it
  Absent,    \* a key the document does not have
  Null,      \* an explicit null
  Stamps,    \* the milliseconds a clock may show
  Requests,  \* the writes being handled, of one or several calls
  None       \* no state: no base, or not read yet

VARIABLES
  server,    \* the document: whether it exists, its fields and updatedAt
  req,       \* where each write is, the entry it handles and what it read
  written,   \* history: the documents clients have sent, with their stamps
  past       \* history: the states the server's document has had

vars == <<server, req, written, past>>

Docs == [Fields -> Values]

States == [doc : Docs, upd : Stamps]

Stages == {"waiting", "find", "update", "create", "delete"}

Entries == [stage : Stages, client : States \union {None},
            base : States \union {None}, read : States \union {None}]

-----------------------------------------------------------------------------
(* threeWayMerge.                                                          *)

(* x ?? null                                                               *)
OrNull(v) == IF v = Absent THEN Null ELSE v

Changed(base, d, k) == OrNull(d[k]) # OrNull(base[k])

MergedFields(base, client, s) ==
  {k \in Fields : Changed(base, client, k) /\ ~Changed(base, s, k)}

ConflictFields(base, client, s) ==
  {k \in Fields : /\ Changed(base, client, k) /\ Changed(base, s, k)
                  /\ OrNull(client[k]) # OrNull(s[k])}

ThreeWayMerge(base, client, s) ==
  [k \in Fields |->
     IF k \in MergedFields(base, client, s) \union ConflictFields(base, client, s)
       THEN client[k] ELSE s[k]]

(* payload.update leaves a field alone that the data does not have.        *)
Stored(s, data) == [k \in Fields |-> IF data[k] = Absent THEN s[k] ELSE data[k]]

-----------------------------------------------------------------------------
(* The handler.                                                            *)

Waiting == [stage |-> "waiting", client |-> None, base |-> None, read |-> None]

Asked(client, base) ==
  [stage |-> "find", client |-> client, base |-> base, read |-> None]

Current == [doc |-> server.doc, upd |-> server.upd]

Init ==
  /\ \E x \in States : server = [alive |-> TRUE, doc |-> x.doc, upd |-> x.upd]
  /\ past = {Current}
  /\ req = [r \in Requests |-> Waiting]
  /\ written = {}

Become(x) ==
  /\ server' = [alive |-> TRUE, doc |-> x.doc, upd |-> x.upd]
  /\ past' = past \union {x}

Stay == UNCHANGED <<server, past>>

Goto(r, entry) == req' = [req EXCEPT ![r] = entry]

(* A client sends a document, stamped by its own clock, or sends again one *)
(* whose answer it did not get; base is a state it once pulled or sent.    *)
(* Nothing orders the clocks of the clients and the server, and two writes *)
(* may fall into one millisecond.                                          *)
Receive(r) ==
  /\ req[r] = Waiting
  /\ \E client \in States, base \in past \union written \union {None} :
       /\ written' = written \union {client}
       /\ Goto(r, Asked(client, base))
  /\ Stay

ReceiveDelete(r) ==
  /\ req[r] = Waiting
  /\ Goto(r, [Waiting EXCEPT !.stage = "delete"])
  /\ Stay /\ UNCHANGED written

(* findByID: an error of any kind is taken for a document that is not      *)
(* there.                                                                  *)
Find(r) ==
  /\ req[r].stage = "find"
  /\ \/ server.alive /\ Goto(r, [req[r] EXCEPT !.stage = "update", !.read = Current])
     \/ Goto(r, [req[r] EXCEPT !.stage = "create"])
  /\ Stay /\ UNCHANGED written

(* create keeps the client's updatedAt.                                    *)
Create(r) ==
  /\ req[r].stage = "create"
  /\ ~server.alive /\ Become(req[r].client)
  /\ Goto(r, Waiting)
  /\ UNCHANGED written

(* Merged when the server has changed since the client's last sync, else   *)
(* the client's document as it is.                                         *)
Data(r) ==
  IF req[r].base # None /\ req[r].read.upd # req[r].base.upd
    THEN ThreeWayMerge(req[r].base.doc, req[r].client.doc, req[r].read.doc)
    ELSE req[r].client.doc

(* update: the fields of the data replace the server's, whatever became of *)
(* them since they were read.                                              *)
Update(r) ==
  /\ req[r].stage = "update"
  /\ server.alive
  /\ \E t \in Stamps : Become([doc |-> Stored(server.doc, Data(r)), upd |-> t])
  /\ Goto(r, Waiting)
  /\ UNCHANGED written

(* delete, with its tombstone.                                             *)
Delete(r) ==
  /\ req[r].stage = "delete"
  /\ server.alive
  /\ server' = [server EXCEPT !.alive = FALSE]
  /\ Goto(r, Waiting)
  /\ UNCHANGED <<written, past>>

(* An operation throws: an id that exists, a document that does not, data  *)
(* that does not validate.  The write's result is an error.                *)
Failed(r) ==
  /\ req[r].stage \in {"create", "update", "delete"}
  /\ Goto(r, Waiting)
  /\ Stay /\ UNCHANGED written

(* Any other write to the document: the admin UI, or a client's PATCH.     *)
OtherWrite ==
  /\ server.alive
  /\ \E x \in States : Become(x)
  /\ UNCHANGED <<req, written>>

Handle(r) == Find(r) \/ Create(r) \/ Update(r) \/ Delete(r) \/ Failed(r)

Next == (\E r \in Requests : Receive(r) \/ ReceiveDelete(r) \/ Handle(r)) \/ OtherWrite

Spec == Init /\ [][Next]_vars

-----------------------------------------------------------------------------
TypeOK ==
  /\ server \in [alive : BOOLEAN, doc : Docs, upd : Stamps]
  /\ req \in [Requests -> Entries]
  /\ written \in SUBSET States /\ past \in SUBSET States

Same(v, w) == OrNull(v) = OrNull(w)

(* No other write fell between findByID and the update.                    *)
Undisturbed(r) == req[r].base # None /\ req[r].read = Current

(* The base does not carry the stamp of what was read and differ from it:  *)
(* the test that skips the merge compares updatedAt only, and two writes   *)
(* of one millisecond look alike to it.                                    *)
ToldApart(r) == req[r].read.upd = req[r].base.upd => req[r].read = req[r].base

Kept(base, client, k) ==
  IF Changed(base, client, k)
    THEN client[k] # Absent => Same(server'.doc[k], client[k])
    ELSE Same(server'.doc[k], server.doc[k])

(* Non-conflicting field changes from both sides are merged, and in true   *)
(* conflicts the client wins (syncPush.ts): unless another write fell in   *)
(* between, or a millisecond was shared, or the client has no such key.    *)
BothSidesKept ==
  [][\A r \in Requests :
       Update(r) /\ Undisturbed(r) /\ ToldApart(r) =>
         \A k \in Fields : Kept(req[r].base.doc, req[r].client.doc, k)]_vars

(* And whatever else happened, a value the client has changed is stored.   *)
ClientPrevails ==
  [][\A r \in Requests :
       Update(r) /\ req[r].base # None =>
         \A k \in Fields :
           LET v == req[r].client.doc[k]
           IN  Changed(req[r].base.doc, req[r].client.doc, k) /\ OrNull(v) # Null
                 => server'.doc[k] = v]_vars

=============================================================================
