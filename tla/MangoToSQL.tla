----------------------------- MODULE MangoToSQL -----------------------------
(***************************************************************************)
(* The translation of Mango selectors to SQL (storage/mango-to-sql.ts) and *)
(* the queries that use it (storage/instance.ts), as seen by one document: *)
(* what its WHERE clause evaluates to in SQL's three-valued logic, whether *)
(* rows are filtered again in JavaScript, and whether RxDB's own matcher,  *)
(* which is external, accepts the document.                                *)
(***************************************************************************)
EXTENDS Integers

(* The value of a field, and the operand of an operator: a type and where  *)
(* it lies in that type's order (false is 0, true is 1).  A list has       *)
(* scalar elements; its rank is that of its JSON text.                     *)
ScalarTypes == {"missing", "null", "bool", "number", "string"}

Scalars == [type : ScalarTypes, rank : Int]

FieldValues == [type : ScalarTypes \union {"list"}, rank : Int, elems : SUBSET Scalars]

Empty(v) == v.type \in {"missing", "null"}

Plain(v) == v.type \in {"bool", "number", "string"}

-----------------------------------------------------------------------------
(* RxDB's matcher.  Null equals what is missing, an order holds within one *)
(* type, and a list is matched by its elements.                            *)
Items(v) == IF v.type = "list" THEN v.elems ELSE {v}

Equal(v, w) == (Empty(v) /\ Empty(w)) \/ (v.type = w.type /\ v.rank = w.rank)

Orders == {"$gt", "$gte", "$lt", "$lte"}

InOrder(op, a, b) ==
  \/ op = "$gt" /\ a > b
  \/ op = "$gte" /\ a >= b
  \/ op = "$lt" /\ a < b
  \/ op = "$lte" /\ a <= b

Matches(op, v, w) ==
  \/ op = "$eq" /\ \E x \in Items(v) : Equal(x, w)
  \/ op = "$ne" /\ \A x \in Items(v) : ~Equal(x, w)
  \/ op \in Orders /\ \E x \in Items(v) : x.type = w.type /\ InOrder(op, x.rank, w.rank)

MatchesIn(v, ws) == \E w \in ws : Matches("$eq", v, w)

MatchesExists(v, yes) == (v.type # "missing") = yes

-----------------------------------------------------------------------------
(* SQL's side: json_extract gives NULL for null and for what is missing,   *)
(* 0 or 1 for a boolean, text for a list; toParam does alike.              *)
Class(v) ==
  IF Empty(v) THEN "NULL" ELSE IF v.type \in {"bool", "number"} THEN "number" ELSE "text"

Bool3(p) == IF p THEN "true" ELSE "false"

Not3(b) == IF b = "null" THEN "null" ELSE Bool3(b = "false")

SameColumn(v, w) == Class(v) = Class(w) /\ v.rank = w.rank

(* SQLite puts numbers before text.                                        *)
ColumnInOrder(op, v, w) ==
  IF Class(v) = Class(w) THEN InOrder(op, v.rank, w.rank)
  ELSE (op \in {"$lt", "$lte"}) = (Class(v) = "number")

Compare(op, v, w) ==
  IF Empty(v) \/ Empty(w) THEN "null"
  ELSE Bool3(\/ op = "$eq" /\ SameColumn(v, w)
             \/ op = "$ne" /\ ~SameColumn(v, w)
             \/ op \in Orders /\ ColumnInOrder(op, v, w))

(* One condition of a field.  A plain value is $eq; only $eq and $ne know  *)
(* null.                                                                   *)
Condition(op, v, w) ==
  IF w.type = "null" /\ op = "$eq" THEN Bool3(Empty(v))
  ELSE IF w.type = "null" /\ op = "$ne" THEN Bool3(~Empty(v))
  ELSE Compare(op, v, w)

(* IN; an empty list is the constant 0.                                    *)
In(v, ws) ==
  IF \E w \in ws : Compare("$eq", v, w) = "true" THEN "true"
  ELSE IF \E w \in ws : Compare("$eq", v, w) = "null" THEN "null" ELSE "false"

(* NOT IN; an empty list adds no clause.                                   *)
NotIn(v, ws) == IF ws = {} THEN "none" ELSE Not3(In(v, ws))

Exists(v, yes) == Bool3(Empty(v) # yes)

-----------------------------------------------------------------------------
(* What a selector becomes for the document: its clause, "none" when it is *)
(* the empty string, and needsPostFilter.                                  *)
Results == [where : {"none", "true", "false", "null"}, post : BOOLEAN, matches : BOOLEAN]

Clause(where, matches) == [where |-> where, post |-> FALSE, matches |-> matches]

(* An operator SQL does not have, $regex among them.                       *)
JsOnly(matches) == [where |-> "none", post |-> TRUE, matches |-> matches]

Clauses(subs) == {s.where : s \in subs} \ {"none"}

And3(bs) == IF "false" \in bs THEN "false" ELSE IF "null" \in bs THEN "null" ELSE "true"

Or3(bs) == IF "true" \in bs THEN "true" ELSE IF "null" \in bs THEN "null" ELSE "false"

Combined(subs, where, matches) ==
  [where |-> IF Clauses(subs) = {} THEN "none" ELSE where,
   post |-> \E s \in subs : s.post,
   matches |-> matches]

(* $and, and the entries of one selector.                                  *)
All(subs) == Combined(subs, And3(Clauses(subs)), \A s \in subs : s.matches)

Or(subs) == Combined(subs, Or3(Clauses(subs)), \E s \in subs : s.matches)

Nor(subs) == Combined(subs, Not3(Or3(Clauses(subs))), \A s \in subs : ~s.matches)

-----------------------------------------------------------------------------
(* query and count: r is what the selector becomes for each document.      *)
Selects(r) == r.where \in {"none", "true"}

Query(r) ==
  LET rows == {d \in DOMAIN r : Selects(r[d])}
  IN  {d \in rows : r[d].post => r[d].matches}

(* The selector of processQueue (uploadQueue.ts).                          *)
Processable(status, retryCount, pending, error, maxRetries) ==
  Or({All({Clause(Condition("$eq", status, pending), Matches("$eq", status, pending))}),
      All({Clause(Condition("$eq", status, error), Matches("$eq", status, error)),
           Clause(Condition("$lt", retryCount, maxRetries),
                  Matches("$lt", retryCount, maxRetries))})})

-----------------------------------------------------------------------------
(* What mango-to-sql.ts:15-17 promises: the rows are a superset of the     *)
(* matching documents, and without a post-filter they are those.           *)
Sound(r) ==
  /\ r.matches => Selects(r)
  /\ Selects(r) /\ ~r.post => r.matches

(* NOT turns what is unknown or too much into too little.                  *)
Decided(r) == r.where \in {"true", "false"} /\ ~r.post

=============================================================================
