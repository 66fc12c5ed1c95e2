----------------------- MODULE CollectionSlotsProofs -----------------------
(***************************************************************************)
(* Safety of lazy opening and eviction, for any number of collections,     *)
(* caps and concurrent calls.  A victim goes through two phases: until its *)
(* replication is cancelled it is still in the map, then it is closing.    *)
(* Each safety property is inductive once it names the phase.              *)
(***************************************************************************)
EXTENDS CollectionSlots, SequenceTheorems, FiniteSetTheorems,
        WellFoundedInduction, TLAPS

(* s is being evicted by the call for c, which is at the given await.      *)
EvictedBy(c, s, await) == ensuring[c].at = await /\ ensuring[c].victim = s

Cancelling(s) == \E c \in Slugs : EvictedBy(c, s, "cancel")
CloseAwaited(s) == \E c \in Slugs : EvictedBy(c, s, "close")

(* Only a collection that is still in the map may be off the LRU order or  *)
(* without replication while its replication is being cancelled.           *)
EvictableOrCancelling ==
  \A s \in collections : s \in Elems(lruOrder) \/ Cancelling(s)

ReplicatesOrCancelling ==
  \A s \in collections : s \in replications \/ Cancelling(s)

(* Out of the map means closed and openable, or closing, or still in the   *)
(* order from a startup at which it failed to open.                        *)
RxAgrees ==
  \A s \in Slugs :
    /\ rx[s] = "open" <=> s \in collections
    /\ rx[s] = "closing" => CloseAwaited(s)

OpenableOrClosing ==
  \A s \in Slugs \ collections :
    \/ s \in pendingDefs \/ CloseAwaited(s)
    \/ s \in Elems(lruOrder) \/ Cancelling(s)

(* A call that awaits cancel or close has a victim.                        *)
VictimsAreSlugs ==
  \A c \in Slugs : ensuring[c].at \in {"cancel", "close"} => ensuring[c].victim \in Slugs

IInv ==
  /\ TypeOK
  /\ VictimsAreSlugs
  /\ EvictableOrCancelling
  /\ ReplicatesOrCancelling
  /\ RxAgrees
  /\ OpenableOrClosing

-----------------------------------------------------------------------------
(* The sequence operations of the LRU order.                               *)

LEMMA AppendElems ==
  ASSUME NEW S, NEW seq \in Seq(S), NEW e \in S
  PROVE  Append(seq, e) \in Seq(S) /\ Elems(Append(seq, e)) = Elems(seq) \union {e}
  <1>1. /\ Append(seq, e) \in Seq(S)
        /\ Len(Append(seq, e)) = Len(seq) + 1
        /\ \A i \in 1..Len(seq) : Append(seq, e)[i] = seq[i]
        /\ Append(seq, e)[Len(seq) + 1] = e
    BY AppendProperties
  <1>2. /\ DOMAIN seq = 1..Len(seq) /\ Len(seq) \in Nat
        /\ DOMAIN Append(seq, e) = 1..(Len(seq) + 1)
    BY <1>1, LenProperties
  <1>3. ASSUME NEW x \in Elems(Append(seq, e)) PROVE x \in Elems(seq) \union {e}
    BY <1>1, <1>2 DEF Elems
  <1>4. ASSUME NEW x \in Elems(seq) PROVE x \in Elems(Append(seq, e))
    BY <1>1, <1>2 DEF Elems
  <1>5. e \in Elems(Append(seq, e))
    BY <1>1, <1>2 DEF Elems
  <1> QED BY <1>1, <1>3, <1>4, <1>5

LEMMA TailElems ==
  ASSUME NEW S, NEW seq \in Seq(S), Len(seq) > 0
  PROVE  /\ Tail(seq) \in Seq(S) /\ Head(seq) \in S
         /\ Elems(seq) = Elems(Tail(seq)) \union {Head(seq)}
  <1>1. seq # << >>
    BY EmptySeq
  <1>2. /\ Head(seq) \in S /\ Tail(seq) \in Seq(S)
        /\ Len(Tail(seq)) = Len(seq) - 1
        /\ \A i \in 1..Len(Tail(seq)) : Tail(seq)[i] = seq[i + 1]
    BY <1>1, HeadTailProperties
  <1>3. /\ DOMAIN seq = 1..Len(seq) /\ Len(seq) \in Nat
        /\ DOMAIN Tail(seq) = 1..(Len(seq) - 1)
    BY <1>2, LenProperties
  <1>4. Head(seq) = seq[1]
    OBVIOUS
  <1>5. ASSUME NEW i \in DOMAIN seq PROVE seq[i] \in Elems(Tail(seq)) \union {Head(seq)}
    <2>1. CASE i = 1
      BY <2>1, <1>4
    <2>2. CASE i # 1
      <3>1. i - 1 \in 1..Len(Tail(seq)) /\ Tail(seq)[i - 1] = seq[i]
        BY <2>2, <1>2, <1>3
      <3> QED BY <3>1, <1>2, <1>3 DEF Elems
    <2> QED BY <2>1, <2>2
  <1>6. ASSUME NEW i \in DOMAIN Tail(seq) PROVE Tail(seq)[i] \in Elems(seq)
    BY <1>2, <1>3 DEF Elems
  <1>7. Head(seq) \in Elems(seq)
    BY <1>3, <1>4 DEF Elems
  <1> QED BY <1>2, <1>5, <1>6, <1>7 DEF Elems

(* A slug of the order has a first occurrence: the shortest prefix that    *)
(* ends with it.                                                           *)
LEMMA FirstOccurrence ==
  ASSUME NEW S, NEW seq \in Seq(S), NEW s \in Elems(seq)
  PROVE  \E k \in DOMAIN seq : seq[k] = s /\ \A j \in 1..(k - 1) : seq[j] # s
  <1> DEFINE Ends == {k \in DOMAIN seq : seq[k] = s}
             Prefixes == {1..k : k \in Ends}
  <1>1. DOMAIN seq = 1..Len(seq) /\ Len(seq) \in Nat
    BY LenProperties
  <1>2. Ends # {} /\ Ends \subseteq 1..Len(seq)
    BY <1>1 DEF Elems
  <1>3. Prefixes # {} /\ Prefixes \subseteq FiniteSubsetsOf(Nat)
    <2>1. ASSUME NEW k \in Ends PROVE 1..k \in FiniteSubsetsOf(Nat)
      <3>1. k \in Nat /\ 1 \in Int /\ k \in Int
        BY <1>1, <1>2
      <3>2. IsFiniteSet(1..k)
        BY <3>1, FS_Interval
      <3> QED BY <3>1, <3>2 DEF FiniteSubsetsOf
    <2> QED BY <1>2, <2>1
  <1>4. PICK P \in Prefixes : \A Q \in Prefixes : <<Q, P>> \notin StrictSubsetOrdering(Nat)
    <2> HIDE DEF Prefixes
    <2> QED BY <1>3, FS_StrictSubsetOrderingWellFounded, WFMin
  <1>5. PICK k \in Ends : P = 1..k
    OBVIOUS
  <1>6. ASSUME NEW j \in 1..(k - 1) PROVE seq[j] # s
    <2>1. k \in Nat /\ j \in 1..Len(seq) /\ j < k
      BY <1>1, <1>2
    <2> SUFFICES ASSUME j \in Ends PROVE FALSE
      BY <2>1, <1>1
    <2>2. 1..j \in Prefixes
      OBVIOUS
    <2>3. 1..j \subseteq 1..k /\ 1..j # 1..k /\ 1..k \subseteq Nat
      <3>1. k \in 1..k /\ k \notin 1..j
        BY <2>1
      <3> QED BY <2>1, <3>1
    <2>4. <<1..j, 1..k>> \in StrictSubsetOrdering(Nat)
      BY <2>3 DEF StrictSubsetOrdering
    <2> QED BY <1>4, <1>5, <2>2, <2>4
  <1> QED BY <1>6

LEMMA ConcatElems ==
  ASSUME NEW S, NEW s \in Seq(S), NEW t \in Seq(S)
  PROVE  s \o t \in Seq(S) /\ Elems(s) \union Elems(t) \subseteq Elems(s \o t)
  <1>1. /\ s \o t \in Seq(S) /\ Len(s \o t) = Len(s) + Len(t)
        /\ \A k \in 1..(Len(s) + Len(t)) :
             (s \o t)[k] = IF k <= Len(s) THEN s[k] ELSE t[k - Len(s)]
    BY ConcatProperties
  <1>2. /\ Len(s) \in Nat /\ Len(t) \in Nat
        /\ DOMAIN s = 1..Len(s) /\ DOMAIN t = 1..Len(t)
        /\ DOMAIN (s \o t) = 1..(Len(s) + Len(t))
    BY <1>1, LenProperties
  <1>3. ASSUME NEW k \in 1..Len(s) PROVE s[k] \in Elems(s \o t)
    <2>1. k \in 1..(Len(s) + Len(t)) /\ (s \o t)[k] = s[k]
      BY <1>1, <1>2
    <2> QED BY <2>1, <1>2 DEF Elems
  <1>4. ASSUME NEW k \in 1..Len(t) PROVE t[k] \in Elems(s \o t)
    <2>1. /\ k + Len(s) \in 1..(Len(s) + Len(t)) /\ ~ (k + Len(s) <= Len(s))
          /\ (k + Len(s)) - Len(s) = k
      BY <1>2
    <2>2. (s \o t)[k + Len(s)] = t[k]
      BY <1>1, <2>1
    <2> QED BY <2>1, <2>2, <1>2 DEF Elems
  <1> QED BY <1>1, <1>2, <1>3, <1>4 DEF Elems

LEMMA SubSeqElems ==
  ASSUME NEW S, NEW seq \in Seq(S), NEW m \in 1..(Len(seq) + 1), NEW n \in 0..Len(seq)
  PROVE  /\ SubSeq(seq, m, n) \in Seq(S)
         /\ \A k \in m..n : seq[k] \in Elems(SubSeq(seq, m, n))
  <1>1. Len(seq) \in Nat /\ \A k \in 1..Len(seq) : seq[k] \in S
    BY LenProperties, ElementOfSeq
  <1>2. m \in Int /\ n \in Int /\ \A k \in m..n : seq[k] \in S
    BY <1>1
  <1>3. /\ SubSeq(seq, m, n) \in Seq(S)
        /\ Len(SubSeq(seq, m, n)) = IF m <= n THEN n - m + 1 ELSE 0
        /\ \A k \in 1..(n - m + 1) : SubSeq(seq, m, n)[k] = seq[m + k - 1]
    BY <1>2, SubSeqProperties
  <1>4. ASSUME NEW k \in m..n PROVE seq[k] \in Elems(SubSeq(seq, m, n))
    <2>1. k - m + 1 \in 1..(n - m + 1) /\ m + (k - m + 1) - 1 = k /\ m <= n
      BY <1>2
    <2>2. SubSeq(seq, m, n)[k - m + 1] = seq[k]
      BY <1>3, <2>1
    <2>3. k - m + 1 \in DOMAIN SubSeq(seq, m, n)
      BY <1>3, <2>1, LenProperties
    <2> QED BY <2>2, <2>3 DEF Elems
  <1> QED BY <1>3, <1>4

LEMMA TouchElems ==
  ASSUME lruOrder \in Seq(Slugs), NEW s \in Slugs
  PROVE  Touch(s) \in Seq(Slugs) /\ Elems(lruOrder) \subseteq Elems(Touch(s))
  <1>1. CASE s \notin Elems(lruOrder)
    BY <1>1, AppendElems DEF Touch
  <1>2. CASE s \in Elems(lruOrder)
    <2> DEFINE n == Len(lruOrder)
               i == CHOOSE k \in DOMAIN lruOrder :
                      lruOrder[k] = s /\ \A j \in 1..(k - 1) : lruOrder[j] # s
               before == SubSeq(lruOrder, 1, i - 1)
               after == SubSeq(lruOrder, i + 1, n)
    <2>1. n \in Nat /\ DOMAIN lruOrder = 1..n
      BY LenProperties
    <2>2. i \in 1..n /\ lruOrder[i] = s
      <3>1. \E k \in DOMAIN lruOrder :
              lruOrder[k] = s /\ \A j \in 1..(k - 1) : lruOrder[j] # s
        BY <1>2, FirstOccurrence
      <3> QED BY <3>1, <2>1
    <2>3. Touch(s) = before \o after \o <<s>>
      BY <1>2 DEF Touch
    <2> HIDE DEF i
    <2>4. before \in Seq(Slugs) /\ \A k \in 1..(i - 1) : lruOrder[k] \in Elems(before)
      <3>1. 1 \in 1..(n + 1) /\ i - 1 \in 0..n
        BY <2>1, <2>2
      <3> QED BY <3>1, SubSeqElems
    <2>5. after \in Seq(Slugs) /\ \A k \in (i + 1)..n : lruOrder[k] \in Elems(after)
      <3>1. i + 1 \in 1..(n + 1) /\ n \in 0..n
        BY <2>1, <2>2
      <3> QED BY <3>1, SubSeqElems
    <2> HIDE DEF before, after
    <2>6. /\ before \o after \in Seq(Slugs)
          /\ Elems(before) \union Elems(after) \subseteq Elems(before \o after)
      BY <2>4, <2>5, ConcatElems
    <2>7. /\ before \o after \o <<s>> = Append(before \o after, s)
          /\ Append(before \o after, s) \in Seq(Slugs)
          /\ Elems(Append(before \o after, s)) = Elems(before \o after) \union {s}
      <3> DEFINE rest == before \o after
      <3> HIDE DEF rest
      <3>1. rest \in Seq(Slugs)
        BY <2>6 DEF rest
      <3>2. Append(rest, s) = rest \o <<s>>
        BY <3>1, AppendIsConcat
      <3>3. Append(rest, s) \in Seq(Slugs) /\ Elems(Append(rest, s)) = Elems(rest) \union {s}
        BY <3>1, AppendElems
      <3> QED BY <3>2, <3>3 DEF rest
    <2>8. ASSUME NEW k \in 1..n
          PROVE  lruOrder[k] \in Elems(before) \union Elems(after) \union {s}
      <3>1. k = i \/ k \in 1..(i - 1) \/ k \in (i + 1)..n
        BY <2>1, <2>2
      <3> QED BY <3>1, <2>2, <2>4, <2>5
    <2>9. Elems(lruOrder) \subseteq Elems(before) \union Elems(after) \union {s}
      BY <2>1, <2>8 DEF Elems
    <2> QED BY <2>3, <2>6, <2>7, <2>9
  <1> QED BY <1>1, <1>2

-----------------------------------------------------------------------------
(* The initial states and each action.                                     *)

LEMMA InitIInv == Init => IInv
  <1> SUFFICES ASSUME Init PROVE IInv
    OBVIOUS
  <1>0. PICK head \in [1..Cap -> Slugs], failed \in SUBSET Slugs :
          /\ lruOrder = head
          /\ collections = Elems(head) \ failed
          /\ replications = collections
          /\ rx = [s \in Slugs |-> IF s \in collections THEN "open" ELSE "closed"]
          /\ pendingDefs = Slugs \ Elems(head)
          /\ ensuring = [s \in Slugs |-> [at |-> "idle", victim |-> None]]
          /\ mounted = {} /\ toNotify = {}
          /\ refused = (failed # {})
    BY DEF Init, Opened, Resting
  <1>1. lruOrder \in Seq(Slugs) /\ Elems(lruOrder) \subseteq Slugs
    <2>1. Cap \in Nat
      BY CapsAssumption
    <2> QED BY <1>0, <2>1 DEF Elems
  <1>2. /\ collections \subseteq Elems(lruOrder)
        /\ Slugs \ pendingDefs \subseteq Elems(lruOrder)
    BY <1>0
  <1>3. TypeOK
    <2>1. /\ collections \in SUBSET Slugs /\ replications \in SUBSET Slugs
          /\ pendingDefs \in SUBSET Slugs /\ mounted \in SUBSET Slugs
          /\ toNotify \in SUBSET Slugs /\ refused \in BOOLEAN
      BY <1>0, <1>1, <1>2
    <2>2. rx \in [Slugs -> {"open", "closing", "closed"}]
      BY <1>0
    <2>3. ensuring \in [Slugs -> [at : {"idle", "cancel", "close", "add"},
                                  victim : Slugs \union {None}]]
      <3>1. [at |-> "idle", victim |-> None]
              \in [at : {"idle", "cancel", "close", "add"}, victim : Slugs \union {None}]
        OBVIOUS
      <3> QED BY <1>0, <3>1
    <2> QED BY <1>1, <2>1, <2>2, <2>3 DEF TypeOK
  <1>4. VictimsAreSlugs
    BY <1>0 DEF VictimsAreSlugs
  <1>5. EvictableOrCancelling /\ ReplicatesOrCancelling
    BY <1>0, <1>2 DEF EvictableOrCancelling, ReplicatesOrCancelling
  <1>6. RxAgrees
    BY <1>0 DEF RxAgrees
  <1>7. OpenableOrClosing
    BY <1>2 DEF OpenableOrClosing
  <1> QED BY <1>3, <1>4, <1>5, <1>6, <1>7 DEF IInv

(* The head of the eviction loop: whoever leaves the order or stops        *)
(* replicating is the victim, and every other call is where it was.        *)
LEMMA LoopEffect ==
  ASSUME TypeOK, VictimsAreSlugs, NEW s \in Slugs, Loop(s)
  PROVE  /\ lruOrder' \in Seq(Slugs) /\ replications' \in SUBSET Slugs
         /\ ensuring' \in [Slugs -> [at : {"idle", "cancel", "close", "add"},
                                     victim : Slugs \union {None}]]
         /\ VictimsAreSlugs'
         /\ \A c \in Slugs \ {s} : ensuring'[c] = ensuring[c]
         /\ \A x \in Elems(lruOrder) : x \in Elems(lruOrder') \/ EvictedBy(s, x, "cancel")'
         /\ \A x \in replications : x \in replications' \/ EvictedBy(s, x, "cancel")'
  <1>1. CASE Len(lruOrder) >= Cap
    <2>1. PICK victim \in Slugs :
            /\ Elems(lruOrder) = Elems(Tail(lruOrder)) \union {victim}
            /\ victim = Head(lruOrder)
      <3>1. Len(lruOrder) > 0
        BY <1>1, CapsAssumption, LenProperties DEF TypeOK
      <3> QED BY <3>1, TailElems DEF TypeOK
    <2>2. /\ lruOrder' = Tail(lruOrder) /\ Tail(lruOrder) \in Seq(Slugs)
          /\ replications' = replications \ {victim}
          /\ ensuring' = [ensuring EXCEPT ![s] = [at |-> "cancel", victim |-> victim]]
      <3>1. Len(lruOrder) > 0
        BY <1>1, CapsAssumption, LenProperties DEF TypeOK
      <3>2. Tail(lruOrder) \in Seq(Slugs)
        BY <3>1, TailElems DEF TypeOK
      <3> QED BY <1>1, <2>1, <3>2 DEF Loop
    <2>3. /\ ensuring'[s] = [at |-> "cancel", victim |-> victim]
          /\ \A c \in Slugs \ {s} : ensuring'[c] = ensuring[c]
      BY <2>2 DEF TypeOK
    <2>4. EvictedBy(s, victim, "cancel")'
      BY <2>3 DEF EvictedBy
    <2>5. VictimsAreSlugs'
      BY <2>3 DEF VictimsAreSlugs
    <2> QED BY <2>1, <2>2, <2>3, <2>4, <2>5 DEF TypeOK
  <1>2. CASE ~(Len(lruOrder) >= Cap)
    <2>1. /\ ensuring' = [ensuring EXCEPT ![s] = [at |-> "add", victim |-> None]]
          /\ UNCHANGED <<lruOrder, replications>>
      BY <1>2 DEF Loop
    <2>2. VictimsAreSlugs'
      BY <2>1 DEF TypeOK, VictimsAreSlugs
    <2> QED BY <2>1, <2>2 DEF TypeOK
  <1> QED BY <1>1, <1>2

(* A call of ensureCollection, whoever makes it.                           *)
LEMMA EnsureIInv ==
  ASSUME IInv, NEW s \in Slugs, Ensure(s),
         mounted' \in SUBSET Slugs, toNotify' \in SUBSET Slugs
  PROVE  IInv'
  <1> USE DEF IInv
  <1>0. UNCHANGED <<collections, rx, pendingDefs, refused>>
    BY DEF Ensure
  <1>1. CASE s \in collections
    <2>1. lruOrder' = Touch(s) /\ UNCHANGED <<replications, ensuring>>
      BY <1>1 DEF Ensure
    <2>2. lruOrder' \in Seq(Slugs) /\ Elems(lruOrder) \subseteq Elems(lruOrder')
      BY <2>1, TouchElems DEF TypeOK
    <2>3. TypeOK'
      BY <1>0, <2>1, <2>2 DEF TypeOK
    <2> QED BY <1>0, <2>1, <2>2, <2>3 DEF VictimsAreSlugs, EvictableOrCancelling,
              ReplicatesOrCancelling, RxAgrees, OpenableOrClosing, Cancelling,
              CloseAwaited, EvictedBy
  <1>2. CASE s \notin collections /\ (s \in InFlight \/ s \notin pendingDefs)
    <2>1. UNCHANGED <<lruOrder, replications, ensuring>>
      BY <1>2 DEF Ensure
    <2>2. TypeOK'
      BY <1>0, <2>1 DEF TypeOK
    <2> QED BY <1>0, <2>1, <2>2 DEF VictimsAreSlugs, EvictableOrCancelling,
              ReplicatesOrCancelling, RxAgrees, OpenableOrClosing, Cancelling,
              CloseAwaited, EvictedBy
  <1>3. CASE s \notin collections /\ s \notin InFlight /\ s \in pendingDefs
    <2>1. Loop(s) /\ ensuring[s].at = "idle"
      BY <1>3 DEF Ensure, InFlight
    <2>2. TypeOK'
      BY <1>0, <2>1, LoopEffect DEF TypeOK
    <2>3. /\ \A x \in Slugs : Cancelling(x) => Cancelling(x)'
          /\ \A x \in Slugs : CloseAwaited(x) => CloseAwaited(x)'
      BY <2>1, LoopEffect DEF Cancelling, CloseAwaited, EvictedBy
    <2>4. \A x \in Slugs : EvictedBy(s, x, "cancel")' => Cancelling(x)'
      BY DEF Cancelling
    <2>5. EvictableOrCancelling' /\ ReplicatesOrCancelling'
      BY <1>0, <2>1, <2>3, <2>4, LoopEffect
         DEF EvictableOrCancelling, ReplicatesOrCancelling, TypeOK
    <2>6. RxAgrees'
      BY <1>0, <2>3 DEF RxAgrees
    <2>7. OpenableOrClosing'
      BY <1>0, <2>1, <2>3, <2>4, LoopEffect DEF OpenableOrClosing
    <2> QED BY <2>1, <2>2, <2>5, <2>6, <2>7, LoopEffect
  <1> QED BY <1>1, <1>2, <1>3

(* After await cancel(): the victim leaves the map.                        *)
LEMMA CancelDoneIInv ==
  ASSUME IInv, NEW s \in Slugs, CancelDone(s)
  PROVE  IInv'
  <1> USE DEF IInv
  <1>1. PICK victim \in Slugs : victim = ensuring[s].victim
    BY DEF CancelDone, VictimsAreSlugs
  <1>2. /\ ensuring[s].at = "cancel"
        /\ collections' = collections \ {victim}
        /\ rx' = IF victim \in collections THEN [rx EXCEPT ![victim] = "closing"] ELSE rx
        /\ ensuring' = [ensuring EXCEPT ![s] = [at |-> "close", victim |-> victim]]
        /\ UNCHANGED <<replications, lruOrder, pendingDefs, mounted, toNotify, refused>>
    BY <1>1 DEF CancelDone, Closing
  <1>3. /\ ensuring'[s].at = "close" /\ ensuring'[s].victim = victim
        /\ \A c \in Slugs \ {s} : ensuring'[c] = ensuring[c]
    BY <1>2, <1>1 DEF TypeOK
  <1>4. ensuring' \in [Slugs -> [at : {"idle", "cancel", "close", "add"},
                                 victim : Slugs \union {None}]]
    BY <1>2 DEF TypeOK
  <1>5. TypeOK'
    BY <1>2, <1>1, <1>4 DEF TypeOK
  <1>6. VictimsAreSlugs'
    BY <1>1, <1>3 DEF VictimsAreSlugs
  <1>7. \A x \in Slugs : CloseAwaited(x) => CloseAwaited(x)'
    BY <1>2, <1>3 DEF CloseAwaited, EvictedBy
  <1>8. CloseAwaited(victim)'
    BY <1>3 DEF CloseAwaited, EvictedBy
  <1>9. \A x \in Slugs \ {victim} : Cancelling(x) => Cancelling(x)'
    BY <1>1, <1>3 DEF Cancelling, EvictedBy
  <1>10. EvictableOrCancelling' /\ ReplicatesOrCancelling'
    BY <1>2, <1>9 DEF EvictableOrCancelling, ReplicatesOrCancelling, TypeOK
  <1>11. RxAgrees'
    BY <1>2, <1>1, <1>7, <1>8 DEF RxAgrees, TypeOK
  <1>12. OpenableOrClosing'
    BY <1>2, <1>7, <1>8, <1>9 DEF OpenableOrClosing
  <1> QED BY <1>5, <1>6, <1>10, <1>11, <1>12

(* After await close(): the victim is closed, and openable again.          *)
LEMMA CloseDoneIInv ==
  ASSUME IInv, NEW s \in Slugs, CloseDone(s)
  PROVE  IInv'
  <1> USE DEF IInv
  <1> DEFINE victim == ensuring[s].victim
  <1>1. /\ ensuring[s].at = "close"
        /\ rx' = IF rx[victim] = "closing" THEN [rx EXCEPT ![victim] = "closed"] ELSE rx
        /\ pendingDefs' = pendingDefs \union {victim}
        /\ Loop(s)
        /\ UNCHANGED <<collections, mounted, toNotify, refused>>
    BY DEF CloseDone, Reopenable
  <1>2. victim \in Slugs
    BY <1>1 DEF VictimsAreSlugs
  <1>3. \A x \in Slugs : EvictedBy(s, x, "close") => x = victim
    BY DEF EvictedBy
  <1> HIDE DEF victim
  <1>4. TypeOK'
    BY <1>1, <1>2, LoopEffect DEF TypeOK
  <1>5. \A x \in Slugs : Cancelling(x) => Cancelling(x)'
    BY <1>1, LoopEffect DEF Cancelling, EvictedBy
  <1>6. \A x \in Slugs \ {victim} : CloseAwaited(x) => CloseAwaited(x)'
    BY <1>1, <1>3, LoopEffect DEF CloseAwaited, EvictedBy
  <1>7. \A x \in Slugs : EvictedBy(s, x, "cancel")' => Cancelling(x)'
    BY DEF Cancelling
  <1>8. EvictableOrCancelling' /\ ReplicatesOrCancelling'
    BY <1>1, <1>5, <1>7, LoopEffect
       DEF EvictableOrCancelling, ReplicatesOrCancelling, TypeOK
  <1>9. RxAgrees'
    BY <1>1, <1>2, <1>6 DEF RxAgrees, TypeOK
  <1>10. OpenableOrClosing'
    BY <1>1, <1>5, <1>6, <1>7, LoopEffect DEF OpenableOrClosing, TypeOK
  <1> QED BY <1>1, <1>4, <1>8, <1>9, <1>10, LoopEffect

(* addCollections succeeded.                                               *)
LEMMA AddDoneIInv ==
  ASSUME IInv, NEW s \in Slugs, AddDone(s)
  PROVE  IInv'
  <1> USE DEF IInv
  <1>1. /\ ensuring[s].at = "add"
        /\ collections' = collections \union {s}
        /\ rx' = [rx EXCEPT ![s] = "open"]
        /\ pendingDefs' = pendingDefs \ {s}
        /\ lruOrder' = Append(lruOrder, s)
        /\ replications' = replications \union {s}
        /\ ensuring' = [ensuring EXCEPT ![s] = [at |-> "idle", victim |-> None]]
        /\ toNotify' = mounted \ (collections \union {s})
        /\ UNCHANGED <<mounted, refused>>
    BY DEF AddDone, Replicating, Waiting, Resting
  <1>2. lruOrder' \in Seq(Slugs) /\ Elems(lruOrder') = Elems(lruOrder) \union {s}
    BY <1>1, AppendElems DEF TypeOK
  <1>3. /\ ensuring'[s].at = "idle"
        /\ \A c \in Slugs \ {s} : ensuring'[c] = ensuring[c]
    BY <1>1 DEF TypeOK
  <1>4. TypeOK'
    BY <1>1, <1>2 DEF TypeOK
  <1>5. VictimsAreSlugs'
    BY <1>3 DEF VictimsAreSlugs
  <1>6. /\ \A x \in Slugs : Cancelling(x) => Cancelling(x)'
        /\ \A x \in Slugs : CloseAwaited(x) => CloseAwaited(x)'
    BY <1>1, <1>3 DEF Cancelling, CloseAwaited, EvictedBy
  <1>7. EvictableOrCancelling' /\ ReplicatesOrCancelling'
    BY <1>1, <1>2, <1>6 DEF EvictableOrCancelling, ReplicatesOrCancelling, TypeOK
  <1>8. RxAgrees' /\ OpenableOrClosing'
    BY <1>1, <1>2, <1>6 DEF RxAgrees, OpenableOrClosing, TypeOK
  <1> QED BY <1>4, <1>5, <1>7, <1>8

(* addCollections threw.                                                   *)
LEMMA AddFailedIInv ==
  ASSUME IInv, NEW s \in Slugs, AddFailed(s)
  PROVE  IInv'
  <1> USE DEF IInv
  <1>1. /\ ensuring[s].at = "add"
        /\ refused' = TRUE
        /\ ensuring' = [ensuring EXCEPT ![s] = [at |-> "idle", victim |-> None]]
        /\ UNCHANGED <<collections, replications, rx, lruOrder, pendingDefs,
                       mounted, toNotify>>
    BY DEF AddFailed, Resting
  <1>2. /\ ensuring'[s].at = "idle"
        /\ \A c \in Slugs \ {s} : ensuring'[c] = ensuring[c]
    BY <1>1 DEF TypeOK
  <1>3. TypeOK'
    BY <1>1 DEF TypeOK
  <1>4. VictimsAreSlugs'
    BY <1>2 DEF VictimsAreSlugs
  <1>5. /\ \A x \in Slugs : Cancelling(x) => Cancelling(x)'
        /\ \A x \in Slugs : CloseAwaited(x) => CloseAwaited(x)'
    BY <1>1, <1>2 DEF Cancelling, CloseAwaited, EvictedBy
  <1>6. EvictableOrCancelling' /\ ReplicatesOrCancelling'
    BY <1>1, <1>5 DEF EvictableOrCancelling, ReplicatesOrCancelling, TypeOK
  <1>7. RxAgrees' /\ OpenableOrClosing'
    BY <1>1, <1>5 DEF RxAgrees, OpenableOrClosing
  <1> QED BY <1>3, <1>4, <1>6, <1>7

(* Steps that touch no collection.                                         *)
LEMMA FrameIInv ==
  ASSUME IInv, mounted' \in SUBSET Slugs, toNotify' \in SUBSET Slugs,
         UNCHANGED <<collections, replications, rx, lruOrder, pendingDefs,
                     ensuring, refused>>
  PROVE  IInv'
  BY DEF IInv, TypeOK, VictimsAreSlugs, EvictableOrCancelling, ReplicatesOrCancelling,
         RxAgrees, OpenableOrClosing, Cancelling, CloseAwaited, EvictedBy

-----------------------------------------------------------------------------
(* The inductive invariant holds of every reachable state of ensureCollection. *)
THEOREM Inductive == Spec => []IInv
  <1>1. IInv /\ [Next]_vars => IInv'
    <2> SUFFICES ASSUME IInv, [Next]_vars PROVE IInv'
      OBVIOUS
    <2>0. mounted \in SUBSET Slugs /\ toNotify \in SUBSET Slugs
      BY DEF IInv, TypeOK
    <2>1. CASE UNCHANGED vars
      BY <2>0, <2>1, FrameIInv DEF vars
    <2>2. ASSUME NEW s \in Slugs, Notified(s) PROVE IInv'
      BY <2>0, <2>2, EnsureIInv DEF Notified
    <2>3. ASSUME NEW s \in Slugs, Mount(s) PROVE IInv'
      <3>1. mounted' \in SUBSET Slugs /\ toNotify' \in SUBSET Slugs
        BY <2>0, <2>3 DEF Mount
      <3>2. CASE s \in collections
        BY <2>3, <3>1, <3>2, FrameIInv DEF Mount
      <3>3. CASE s \notin collections
        BY <2>3, <3>1, <3>3, EnsureIInv DEF Mount
      <3> QED BY <3>2, <3>3
    <2>4. ASSUME NEW s \in Slugs, Unmount(s) PROVE IInv'
      BY <2>0, <2>4, FrameIInv DEF Unmount
    <2>5. ASSUME NEW s \in Slugs, Use(s) PROVE IInv'
      BY <2>0, <2>5, EnsureIInv DEF Use
    <2>6. ASSUME NEW s \in Slugs, Resume(s) PROVE IInv'
      BY <2>2, <2>6, CancelDoneIInv, CloseDoneIInv, AddDoneIInv, AddFailedIInv DEF Resume
    <2> QED BY <2>1, <2>3, <2>4, <2>5, <2>6 DEF Next
  <1> QED BY <1>1, InitIInv, PTL DEF Spec

(* Every variable keeps its type.                                          *)
THEOREM TypeCorrect == Spec => []TypeOK
  <1>1. IInv => TypeOK
    BY DEF IInv
  <1> QED BY <1>1, Inductive, PTL

(* A call that evicts is in flight, so a collection in either phase of its *)
(* eviction is among the victims.                                          *)
LEMMA EvictedAreVictims ==
  \A s \in Slugs : Cancelling(s) \/ CloseAwaited(s) => s \in Victims
  BY DEF Cancelling, CloseAwaited, EvictedBy, Victims, InFlight

(* No open collection is lost from the LRU order: its slot can be had      *)
(* again (database.ts, lruOrder).                                          *)
THEOREM SlotsCanBeReclaimed == Spec => []OpenIsEvictable
  <1>1. IInv => OpenIsEvictable
    BY EvictedAreVictims DEF IInv, TypeOK, EvictableOrCancelling, OpenIsEvictable
  <1> QED BY <1>1, Inductive, PTL

(* An open collection that nobody evicts replicates.                       *)
THEOREM OpenCollectionsReplicate == Spec => []OpenReplicates
  <1>1. IInv => OpenReplicates
    BY EvictedAreVictims DEF IInv, TypeOK, ReplicatesOrCancelling, OpenReplicates
  <1> QED BY <1>1, Inductive, PTL

(* The map and RxDB agree on what is open, and only a victim is closing:   *)
(* no slot leaks, whatever the number of concurrent calls.                 *)
THEOREM NoSlotLeaks == Spec => []SlotsAccountedFor
  <1>1. IInv => SlotsAccountedFor
    BY EvictedAreVictims DEF IInv, RxAgrees, SlotsAccountedFor
  <1> QED BY <1>1, Inductive, PTL

(* A collection that is not open can be opened, or is being evicted and    *)
(* will be, or awaits its turn in the LRU order.                           *)
THEOREM NoneBecomesUnopenable == Spec => []ClosedIsReopenable
  <1>1. IInv => ClosedIsReopenable
    BY EvictedAreVictims DEF IInv, OpenableOrClosing, ClosedIsReopenable
  <1> QED BY <1>1, Inductive, PTL

=============================================================================
