------------------------- MODULE PullCursorProofs -------------------------
(***************************************************************************)
(* Safety of the pull handler's cursor, for every set of documents, every  *)
(* page size and every number of writes, deletions and failures.           *)
(***************************************************************************)
EXTENDS PullCursor, FiniteSetTheorems, WellFoundedInduction, TLAPS

(* A document as the cursor sees it.                                       *)
Entry(i) == [upd |-> srv[i].upd, id |-> i]

(* Pages and tombstones are finite, so a last element is one of them.      *)
Finite ==
  /\ IsFiniteSet(dying) /\ IsFiniteSet(tombs)
  /\ IsFiniteSet(page) /\ IsFiniteSet(buried)

(* Without deletions there are no tombstones.                              *)
NoTombstones == deletes = 0 => dying = {} /\ tombs = {} /\ buried = {}

(* No stamp is of the future.                                              *)
StampsPast ==
  /\ cp.upd <= clock
  /\ \A i \in Ids : srv[i].upd <= clock
  /\ \A e \in dying \union tombs \union page \union buried : e.upd <= clock

(* A page shows each document at most once, and no version that the server *)
(* does not have yet.                                                      *)
PageOfServer ==
  /\ \A p \in page : p.id \in Ids
  /\ \A p, q \in page : p.id = q.id => p = q
  /\ InOrder => \A p \in page : p.upd <= srv[p.id].upd

(* Between the checkpoint and any document of the page, the page has every *)
(* document that was not written since; the others have later stamps.      *)
PageComplete ==
  InOrder /\ stage \in {"tombs", "apply"} =>
    \A i \in Ids, p \in page :
      srv[i].alive /\ Before(cp, Entry(i)) /\ ~Before(p, Entry(i)) => Entry(i) \in page

IInv ==
  /\ TypeOK /\ Finite /\ NoTombstones /\ StampsPast /\ PageOfServer /\ PageComplete
  /\ CheckpointCovers

-----------------------------------------------------------------------------
(* The cursor's order is strict and total.                                 *)
LEMMA BeforeIsOrder ==
  /\ \A a, b \in Entries : a = b \/ Before(a, b) \/ Before(b, a)
  /\ \A a, b \in Entries : ~(Before(a, b) /\ Before(b, a))
  /\ \A a, b, c \in Entries : Before(a, b) /\ Before(b, c) => Before(a, c)
  BY DEF Entries, Before

(* Last picks an element of a finite set of entries: an element with the   *)
(* fewest entries after it has none.                                       *)
LEMMA LastIsLast ==
  ASSUME NEW S \in SUBSET Entries, IsFiniteSet(S), S # {}
  PROVE  Last(S) \in S /\ \A f \in S : f = Last(S) \/ Before(f, Last(S))
  <1> DEFINE After(e) == {f \in S : Before(e, f)}
             Tails == {After(e) : e \in S}
  <1>1. IsWellFoundedOn(StrictSubsetOrdering(S), SUBSET S)
    BY FS_StrictSubsetOrderingWellFounded, FS_FiniteSubsetsOfFinite
  <1>2. Tails \subseteq SUBSET S /\ Tails # {}
    OBVIOUS
  <1>3. PICK T \in Tails : \A U \in Tails : ~ (<<U, T>> \in StrictSubsetOrdering(S))
    <2> HIDE DEF Tails
    <2> QED BY <1>1, <1>2, WFMin
  <1>4. PICK e \in S : T = After(e)
    OBVIOUS
  <1>5. \A f \in S : ~Before(e, f)
    <2> SUFFICES ASSUME NEW f \in S, Before(e, f) PROVE FALSE
      OBVIOUS
    <2>1. After(f) \subseteq After(e) /\ f \in After(e) /\ f \notin After(f)
      BY BeforeIsOrder
    <2>2. After(f) \in Tails
      OBVIOUS
    <2>3. <<After(f), After(e)>> \in StrictSubsetOrdering(S)
      BY <2>1, <1>2 DEF StrictSubsetOrdering
    <2> QED BY <1>3, <1>4, <2>2, <2>3
  <1>6. e \in S /\ \A f \in S \ {e} : Before(f, e)
    BY <1>5, BeforeIsOrder
  <1>7. Last(S) \in S /\ \A f \in S \ {Last(S)} : Before(f, Last(S))
    BY <1>6 DEF Last
  <1> QED BY <1>7

(* A page has with each of its entries the earlier ones.                   *)
LEMMA FirstOfIsPrefix ==
  ASSUME NEW S \in SUBSET Entries, IsFiniteSet(S), NEW n \in Nat,
         NEW e \in FirstOf(n, S), NEW f \in S, Before(f, e)
  PROVE  f \in FirstOf(n, S)
  <1> DEFINE Earlier(x) == {g \in S : Before(g, x)}
  <1>1. IsFiniteSet(Earlier(e)) /\ Earlier(f) \in SUBSET Earlier(e)
    <2>1. Earlier(f) \subseteq Earlier(e)
      BY BeforeIsOrder DEF FirstOf
    <2> QED BY <2>1, FS_Subset
  <1>2. Cardinality(Earlier(f)) <= Cardinality(Earlier(e))
    BY <1>1, FS_Subset
  <1>3. IsFiniteSet(Earlier(f))
    BY <1>1, FS_Subset
  <1>4. Cardinality(Earlier(f)) \in Nat /\ Cardinality(Earlier(e)) \in Nat
    BY <1>1, <1>3, FS_CardinalityType
  <1>5. Cardinality(Earlier(e)) < n
    BY DEF FirstOf
  <1> HIDE DEF Earlier
  <1>6. Cardinality(Earlier(f)) < n
    BY <1>2, <1>4, <1>5
  <1> QED BY <1>6 DEF FirstOf, Earlier

(* The documents that match are entries, one for each id, and finite.      *)
LEMMA MatchingIsFinite ==
  ASSUME TypeOK
  PROVE  Matching \in SUBSET Entries /\ IsFiniteSet(Matching)
  <1> DEFINE Served == {j \in Ids : srv[j].alive /\ srv[j].upd >= cp.upd}
             f == [i \in Served |-> [upd |-> srv[i].upd, id |-> i]]
  <1>1. Matching \in SUBSET Entries
    BY IdsAssumption DEF TypeOK, Matching, Entries
  <1>2. IsFiniteSet(Served)
    BY IdsAssumption, FS_Subset
  <1>3. f \in Surjection(Served, Matching)
    BY DEF Surjection, Matching
  <1> HIDE DEF f, Served
  <1>4. IsFiniteSet(Matching)
    BY <1>2, <1>3, FS_Surjection
  <1> QED BY <1>1, <1>4

(* What is fresh in a finite set of entries, and its last element.         *)
LEMMA FreshIsFinite ==
  ASSUME NEW S \in SUBSET Entries, IsFiniteSet(S)
  PROVE  /\ Fresh(S) \in SUBSET Entries /\ IsFiniteSet(Fresh(S)) /\ Fresh(S) \subseteq S
         /\ Fresh(S) # {} => Last(Fresh(S)) \in Entries /\ Before(cp, Last(Fresh(S)))
  <1>1. Fresh(S) \subseteq S
    BY DEF Fresh
  <1>2. IsFiniteSet(Fresh(S))
    BY <1>1, FS_Subset
  <1>3. Fresh(S) # {} => Last(Fresh(S)) \in Fresh(S)
    BY <1>1, <1>2, LastIsLast
  <1> QED BY <1>1, <1>2, <1>3 DEF Fresh

-----------------------------------------------------------------------------
LEMMA InitIInv == Init => IInv
  BY FS_EmptySet
  DEF Init, IInv, TypeOK, Entries, Start, Finite, NoTombstones, StampsPast,
      PageOfServer, PageComplete, CheckpointCovers

(* A write is later than the checkpoint and every entry of the page under  *)
(* way.                                                                    *)
LEMMA WriteStep ==
  ASSUME IInv, NEW S \in SUBSET Ids, Write(S)
  PROVE  IInv'
  <1> USE DEF IInv, TypeOK, Write, clientVars, Entries
  <1>1. TypeOK' /\ Finite' /\ NoTombstones'
    BY DEF Finite, NoTombstones
  <1>2. StampsPast'
    BY DEF StampsPast
  <1>3. PageOfServer'
    BY DEF PageOfServer, StampsPast, InOrder
  <1>4. PageComplete'
    BY DEF PageComplete, StampsPast, InOrder, Entry, Before
  <1>5. CheckpointCovers'
    BY DEF CheckpointCovers, StampsPast, InOrder, Before
  <1> QED BY <1>1, <1>2, <1>3, <1>4, <1>5

(* From here on the order of the stamps is lost, and nothing is claimed of *)
(* the documents.                                                          *)
LEMMA PushCreatedStep ==
  ASSUME IInv, NEW i \in Ids, NEW stamp \in 1..clock, PushCreated(i, stamp)
  PROVE  IInv'
  <1> USE DEF IInv, TypeOK, PushCreated, clientVars, Entries
  <1>1. TypeOK' /\ Finite' /\ NoTombstones'
    BY DEF Finite, NoTombstones
  <1>2. StampsPast'
    BY DEF StampsPast
  <1>3. ~InOrder'
    BY DEF InOrder
  <1> QED BY <1>1, <1>2, <1>3 DEF PageOfServer, PageComplete, CheckpointCovers

LEMMA DeleteStep ==
  ASSUME IInv, NEW i \in Ids, Delete(i)
  PROVE  IInv'
  <1> USE DEF IInv, TypeOK, Delete, clientVars, Entries
  <1>1. TypeOK'
    <2>1. [upd |-> clock + 1, id |-> i] \in Entries
      BY IdsAssumption
    <2>2. srv' \in [Ids -> [upd : Nat, alive : BOOLEAN]]
      OBVIOUS
    <2> QED BY <2>1, <2>2
  <1>2. Finite'
    BY FS_AddElement, Zenon DEF Finite
  <1>3. NoTombstones'
    BY DEF NoTombstones
  <1>4. StampsPast'
    BY DEF StampsPast
  <1>5. ~InOrder'
    BY DEF InOrder
  <1> QED BY <1>1, <1>2, <1>3, <1>4, <1>5 DEF PageOfServer, PageComplete, CheckpointCovers

LEMMA TombstoneStep ==
  ASSUME IInv, NEW t \in dying, TombstoneInserted(t) \/ TombstoneFailed(t)
  PROVE  IInv'
  <1> USE DEF IInv, TypeOK, TombstoneInserted, TombstoneFailed, clientVars, Entries
  <1>1. TypeOK' /\ NoTombstones' /\ StampsPast'
    BY DEF NoTombstones, StampsPast
  <1>2. Finite'
    BY FS_AddElement, FS_RemoveElement DEF Finite
  <1>3. PageOfServer' /\ PageComplete' /\ CheckpointCovers'
    BY DEF PageOfServer, PageComplete, CheckpointCovers, InOrder, Entry, Before
  <1> QED BY <1>1, <1>2, <1>3

-----------------------------------------------------------------------------
LEMMA TickStep ==
  ASSUME IInv, Tick
  PROVE  IInv'
  BY DEF IInv, TypeOK, Tick, serverVars, Finite, NoTombstones, StampsPast,
         PageOfServer, PageComplete, CheckpointCovers, InOrder, Entry, Before

(* The page is a prefix of what matches.                                   *)
LEMMA FetchDocsStep ==
  ASSUME IInv, FetchDocs
  PROVE  IInv'
  <1> USE DEF IInv, FetchDocs, serverVars
  <1>1. Matching \in SUBSET Entries /\ IsFiniteSet(Matching) /\ page' \subseteq Matching
    BY MatchingIsFinite DEF FirstOf
  <1>2. \A p \in page' : p.id \in Ids /\ p.upd = srv[p.id].upd
    BY <1>1 DEF Matching
  <1>3. TypeOK'
    BY <1>1 DEF TypeOK
  <1>4. Finite' /\ NoTombstones'
    BY <1>1, FS_Subset DEF Finite, NoTombstones
  <1>5. StampsPast'
    BY <1>2 DEF StampsPast
  <1>6. PageOfServer'
    <2>1. \A p, q \in page' : p.id = q.id => p = q
      BY <1>1 DEF Matching
    <2> QED BY <1>2, <2>1 DEF PageOfServer, TypeOK
  <1>7. PageComplete'
    <2> SUFFICES ASSUME NEW i \in Ids, NEW p \in page', srv[i].alive,
                        Before(cp, Entry(i)), ~Before(p, Entry(i))
                 PROVE  Entry(i) \in page'
      BY DEF PageComplete, Entry, Before
    <2>1. Entry(i) \in Matching
      BY DEF Matching, Entry, Before, TypeOK, Entries
    <2>2. p = Entry(i) \/ Before(Entry(i), p)
      BY <1>1, <2>1, BeforeIsOrder
    <2> QED BY <1>1, <2>1, <2>2, FirstOfIsPrefix, LimitsAssumption
  <1>8. CheckpointCovers'
    BY DEF CheckpointCovers, InOrder, Before
  <1> QED BY <1>3, <1>4, <1>5, <1>6, <1>7, <1>8

LEMMA FetchTombstonesStep ==
  ASSUME IInv, FetchTombstones \/ FetchTombstonesFailed
  PROVE  IInv'
  <1> USE DEF IInv, TypeOK, FetchTombstones, FetchTombstonesFailed, serverVars
  <1>1. buried' \subseteq tombs
    BY DEF FirstOf
  <1>2. TypeOK' /\ NoTombstones' /\ StampsPast'
    BY <1>1 DEF NoTombstones, StampsPast
  <1>3. Finite'
    BY <1>1, FS_Subset DEF Finite
  <1>4. PageOfServer' /\ PageComplete' /\ CheckpointCovers'
    BY DEF PageOfServer, PageComplete, CheckpointCovers, InOrder, Entry, Before
  <1> QED BY <1>2, <1>3, <1>4

LEMMA RestartStep ==
  ASSUME IInv, Restart
  PROVE  IInv'
  <1> USE DEF IInv, TypeOK, Restart, serverVars
  <1>1. TypeOK' /\ NoTombstones' /\ StampsPast'
    BY DEF NoTombstones, StampsPast
  <1>2. Finite'
    BY FS_EmptySet DEF Finite
  <1>3. PageOfServer' /\ PageComplete' /\ CheckpointCovers'
    BY DEF PageOfServer, PageComplete, CheckpointCovers, InOrder, Entry, Before
  <1> QED BY <1>1, <1>2, <1>3

-----------------------------------------------------------------------------
(* The checkpoint of a batch is of the batch, or the old one.              *)
LEMMA CheckpointMoves ==
  ASSUME TypeOK, Finite
  PROVE  LET next == NextCheckpoint(Fresh(page), Fresh(buried))
         IN  /\ next \in Entries
             /\ next = cp \/ (Before(cp, next) /\ next \in page \union buried)
  <1>1. page \in SUBSET Entries /\ buried \in SUBSET Entries
    BY DEF TypeOK
  <1>2. IsFiniteSet(page) /\ IsFiniteSet(buried)
    BY DEF Finite
  <1>3. \A S \in {page, buried} : 
          Fresh(S) # {} => Last(Fresh(S)) \in S /\ Before(cp, Last(Fresh(S)))
    BY <1>1, <1>2, FreshIsFinite, LastIsLast
  <1> QED BY <1>1, <1>3 DEF NextCheckpoint, TypeOK

(* What the batch brings of a document.                                    *)
LEMMA DeliveredIsTyped ==
  ASSUME TypeOK, Finite
  PROVE  Delivered(Fresh(page), Fresh(buried)) \in [Ids -> [upd : Nat, live : BOOLEAN]]
  <1>1. ASSUME NEW S \in {page, buried}, NEW i \in Ids, {e \in Fresh(S) : e.id = i} # {}
        PROVE  Last({e \in Fresh(S) : e.id = i}).upd \in Nat
    <2>1. Fresh(S) \in SUBSET Entries /\ IsFiniteSet(Fresh(S))
      BY FreshIsFinite DEF TypeOK, Finite
    <2>2. IsFiniteSet({e \in Fresh(S) : e.id = i})
      BY <2>1, FS_Subset
    <2> QED BY <1>1, <2>1, <2>2, LastIsLast DEF Entries
  <1> QED BY <1>1 DEF Delivered, TypeOK

(* A document the checkpoint passes was on the page, and is current.       *)
LEMMA ApplyStep ==
  ASSUME IInv, Apply
  PROVE  IInv'
  <1> USE DEF IInv, serverVars
  <1> DEFINE P == Fresh(page)
             T == Fresh(buried)
  <1>0. /\ cp' = NextCheckpoint(P, T) /\ local' = Delivered(P, T)
        /\ stage' \in {"docs", "idle"}
        /\ page' = {} /\ buried' = {} /\ UNCHANGED <<serverVars, fails>>
    BY DEF Apply
  <1>1. TypeOK'
    BY <1>0, CheckpointMoves, DeliveredIsTyped DEF TypeOK
  <1>2. Finite' /\ NoTombstones'
    BY <1>0, FS_EmptySet DEF Finite, NoTombstones
  <1>3. StampsPast'
    BY <1>0, CheckpointMoves DEF StampsPast
  <1>4. PageOfServer' /\ PageComplete'
    BY <1>0 DEF PageOfServer, PageComplete
  <1>5. CheckpointCovers'
    <2> SUFFICES ASSUME InOrder, NEW i \in Ids, srv[i].alive, ~Before(cp', Entry(i))
                 PROVE  local'[i] = [upd |-> srv[i].upd, live |-> TRUE]
      BY <1>0 DEF CheckpointCovers, InOrder, Entry
    <2>1. T = {}
      BY DEF InOrder, NoTombstones, Fresh
    <2>2. Entry(i) \in Entries /\ cp \in Entries /\ page \in SUBSET Entries
      BY IdsAssumption DEF TypeOK, Entry, Entries
    <2>3. P \in SUBSET page /\ \A p \in P : Before(cp, p)
      BY DEF Fresh
    <2>4. CASE ~Before(cp, Entry(i))
      <3>1. local[i] = [upd |-> srv[i].upd, live |-> TRUE]
        BY <2>4 DEF CheckpointCovers, Entry
      <3>2. \A p \in P : p.id # i
        BY <2>2, <2>3, <2>4 DEF PageOfServer, Entry, Entries, Before
      <3> QED BY <1>0, <2>1, <3>1, <3>2 DEF Delivered
    <2>5. CASE Before(cp, Entry(i))
      <3>1. P # {} /\ cp' = Last(P) /\ cp' \in P
        <4>1. P # {} /\ cp' = Last(P)
          BY <1>0, <2>1, <2>5 DEF NextCheckpoint
        <4>2. IsFiniteSet(P)
          BY <2>3, FS_Subset DEF Finite
        <4> QED BY <4>1, <4>2, <2>2, <2>3, LastIsLast
      <3>2. stage = "apply"
        BY DEF Apply
      <3>3. Entry(i) \in P
        BY <2>3, <2>5, <3>1, <3>2 DEF PageComplete, Fresh
      <3>4. {p \in P : p.id = i} = {Entry(i)}
        BY <2>3, <3>3 DEF PageOfServer, Entry
      <3>5. Last({Entry(i)}).upd = srv[i].upd
        <4>1. {Entry(i)} \in SUBSET Entries /\ IsFiniteSet({Entry(i)})
          BY <2>2, FS_Singleton
        <4>2. Last({Entry(i)}) = Entry(i)
          BY <4>1, LastIsLast
        <4>3. Entry(i).upd = srv[i].upd
          BY DEF Entry
        <4> QED BY <4>2, <4>3
      <3>6. local'[i] = [upd |-> Last({Entry(i)}).upd, live |-> TRUE]
        BY <1>0, <2>1, <3>4 DEF Delivered
      <3> QED BY <3>5, <3>6
    <2> QED BY <2>4, <2>5
  <1> QED BY <1>1, <1>2, <1>3, <1>4, <1>5

-----------------------------------------------------------------------------
LEMMA StepIInv == IInv /\ [Next]_vars => IInv'
  <1> SUFFICES ASSUME IInv, [Next]_vars PROVE IInv'
    OBVIOUS
  <1>1. CASE Server
    BY <1>1, WriteStep, PushCreatedStep, DeleteStep, TombstoneStep DEF Server
  <1>2. CASE Pull
    BY <1>2, TickStep, FetchDocsStep, FetchTombstonesStep, ApplyStep DEF Pull
  <1>3. CASE Restart
    BY <1>3, RestartStep
  <1>4. CASE UNCHANGED vars
    BY <1>4
    DEF vars, serverVars, clientVars, IInv, TypeOK, Finite, NoTombstones, StampsPast,
        PageOfServer, PageComplete, CheckpointCovers, InOrder, Entry, Before
  <1> QED BY <1>1, <1>2, <1>3, <1>4 DEF Next

LEMMA Invariance == Spec => []IInv
  BY InitIInv, StepIInv, PTL DEF Spec

(* The documents, tombstones and the cursor stay within their types.       *)
THEOREM TypeCorrect == Spec => []TypeOK
  <1>1. IInv => TypeOK
    BY DEF IInv
  <1> QED BY <1>1, Invariance, PTL

(* Nothing is skipped between pages: while stamps come in order, every     *)
(* document at or before the checkpoint is on the client in its current    *)
(* version, whatever is written or restarted between the fetches.          *)
THEOREM NothingSkipped == Spec => []CheckpointCovers
  <1>1. IInv => CheckpointCovers
    BY DEF IInv
  <1> QED BY <1>1, Invariance, PTL

(* The checkpoint only moves forward, late tombstones and documents with   *)
(* stamps of the past included.                                            *)
THEOREM CursorAdvances == Spec => CheckpointAdvances
  <1>1. IInv /\ [Next]_vars => [cp' = cp \/ Before(cp, cp')]_vars
    <2> SUFFICES ASSUME IInv, Next PROVE cp' = cp \/ Before(cp, cp')
      BY DEF vars, clientVars
    <2>1. CASE Apply
      BY <2>1, CheckpointMoves DEF Apply, IInv
    <2>2. CASE ~Apply
      BY <2>2
      DEF Next, Server, Pull, Write, PushCreated, Delete, TombstoneInserted,
          TombstoneFailed, Tick, FetchDocs, FetchTombstones, FetchTombstonesFailed,
          Restart, clientVars
    <2> QED BY <2>1, <2>2
  <1> QED BY <1>1, Invariance, PTL DEF Spec, CheckpointAdvances

=============================================================================
