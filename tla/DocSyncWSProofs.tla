-------------------------- MODULE DocSyncWSProofs --------------------------
(***************************************************************************)
(* Safety of the WebSocket client beside polling, for any number of edits, *)
(* events, concurrent handlers and faults.                                 *)
(***************************************************************************)
EXTENDS DocSyncWS, SequenceTheorems, TLAPS

(* Contents are numbered as they are written.                              *)
BodiesSeen ==
  /\ srv.body <= bodies /\ fork.body <= bodies /\ meta.body <= bodies
  /\ push.doc.body <= bodies /\ push.got.body <= bodies
  /\ \A h \in Slots : handler[h].got.body <= bodies

(* The protected edit is what the client holds, flagged, no acknowledged   *)
(* state is it, and no handler is past its last look.                      *)
EditHeld ==
  owed # NoDoc => fork = owed /\ meta # owed /\ owed.lm /\ ~owed.del /\ ~Committed

(* What a conflict brings is not flagged.                                  *)
ConflictIsServed == ~push.got.lm

Has(w, ev) == \E j \in 1..Len(w) : w[j] = ev

(* The newest change was told, or the event that tells of it is on the     *)
(* wire, or the catch-up under way will tell, or could not.                *)
HeardOrAsked ==
  up /\ events <= MaxEvents /\ ~told /\ ~skipped => Has(wire, Newest) \/ asked # <<>>

LocalInv == TypeOK /\ BodiesSeen /\ EditHeld /\ ConflictIsServed

IInv == LocalInv /\ HeardOrAsked

-----------------------------------------------------------------------------
(* Sequences of events.                                                    *)

LEMMA Appended ==
  ASSUME NEW v \in Seq(Events), NEW w \in Seq(Events), NEW ev
  PROVE  v \o w \in Seq(Events) /\ (Has(v, ev) \/ Has(w, ev) => Has(v \o w, ev))
  <1>1. /\ v \o w \in Seq(Events) /\ Len(v \o w) = Len(v) + Len(w)
        /\ Len(v) \in Nat /\ Len(w) \in Nat
        /\ \A j \in 1..Len(v) : (v \o w)[j] = v[j]
        /\ \A j \in 1..Len(w) : (v \o w)[Len(v) + j] = w[j]
    OBVIOUS
  <1> DEFINE vw == v \o w
  <1> HIDE DEF vw
  <1>2. ASSUME NEW j \in 1..Len(v), v[j] = ev PROVE Has(vw, ev)
    <2>1. j \in 1..Len(vw) /\ vw[j] = ev
      BY <1>1, <1>2 DEF vw
    <2> QED BY <2>1 DEF Has
  <1>3. ASSUME NEW j \in 1..Len(w), w[j] = ev PROVE Has(vw, ev)
    <2>1. Len(v) + j \in 1..Len(vw) /\ vw[Len(v) + j] = ev
      BY <1>1, <1>3 DEF vw
    <2> QED BY <2>1 DEF Has
  <1> QED BY <1>1, <1>2, <1>3 DEF Has, vw

LEMMA OneHas ==
  ASSUME NEW ev \in Events
  PROVE  <<ev>> \in Seq(Events) /\ Has(<<ev>>, ev)
  <1>1. <<ev>> \in Seq(Events) /\ 1 \in 1..Len(<<ev>>) /\ <<ev>>[1] = ev
    OBVIOUS
  <1> QED BY <1>1 DEF Has

LEMMA SinceHas ==
  ASSUME NEW c \in Nat, NEW ev \in Events
  PROVE  Since(c, ev) \in Seq(Events) /\ (ev.upd > c => Has(Since(c, ev), ev))
  BY OneHas DEF Since

LEMMA HeadHeard ==
  ASSUME NEW w \in Seq(Events), w # <<>>, NEW ev
  PROVE  /\ Head(w) \in Events /\ Tail(w) \in Seq(Events)
         /\ Has(w, ev) => Head(w) = ev \/ Has(Tail(w), ev)
  <1> DEFINE t == Tail(w)
  <1>1. /\ Head(w) \in Events /\ Head(w) = w[1]
        /\ t \in Seq(Events) /\ Len(t) \in Nat /\ Len(w) = Len(t) + 1
        /\ \A j \in 1..Len(t) : t[j] = w[j + 1]
    OBVIOUS
  <1> HIDE DEF t
  <1>2. \A j \in 1..Len(w) : j = 1 \/ (j - 1 \in 1..Len(t) /\ t[j - 1] = w[j])
    BY <1>1
  <1> QED BY <1>1, <1>2 DEF Has, t

-----------------------------------------------------------------------------
(* The wire.                                                               *)

LEMMA NothingTyped == <<>> \in Seq(Events) /\ <<>> \in Seq(Nat)
  BY EmptySeq

LEMMA BoundIsNatural == MaxEvents \in Nat
  BY BoundsAssumption, Zenon

LEMMA Sent ==
  ASSUME TypeOK, NEW evs \in Seq(Events), Send(evs)
  PROVE  /\ events' \in 0..(MaxEvents + 1) /\ wire' \in Seq(Events)
         /\ events' <= MaxEvents => events <= MaxEvents /\ wire' = wire \o evs
  <1>1. Len(evs) \in Nat /\ wire \o evs \in Seq(Events) /\ wire \in Seq(Events)
    BY DEF TypeOK
  <1>2. MaxEvents \in Nat /\ events \in 0..(MaxEvents + 1)
    BY BoundIsNatural DEF TypeOK
  <1>3. CASE events + Len(evs) <= MaxEvents
    <2>1. wire' = wire \o evs /\ events' = events + Len(evs)
      BY <1>3 DEF Send
    <2> QED BY <1>1, <1>2, <1>3, <2>1
  <1>4. CASE ~(events + Len(evs) <= MaxEvents)
    BY <1>1, <1>2, <1>4 DEF Send
  <1> QED BY <1>3, <1>4

LEMMA EventTyped ==
  \A upd \in Nat, del, mine \in BOOLEAN :
    Event(upd, del, mine) \in Events /\ (Event(upd, del, mine).mine <=> mine)
      /\ Event(upd, del, mine).upd = upd
  BY DEF Event, Events

LEMMA DocTyped == NoDoc \in Docs /\ (TypeOK => Served(srv) \in Docs)
  BY DEF NoDoc, Docs, Served, TypeOK

(* What the catch-up finds, and what it does not miss.                     *)
LEMMA CatchUpTells ==
  ASSUME TypeOK, NEW c \in Nat
  PROVE  /\ DocsSince(c) \in Seq(Events) /\ TombsSince(c) \in Seq(Events)
         /\ Missed(c) \in Seq(Events)
         /\ srv.upd > c /\ ~Unburied => Has(Missed(c), Newest)
  <1>1. /\ Mine \in Events /\ Mine.upd = srv.upd
        /\ Theirs \in Events /\ Event(tomb, TRUE, TRUE) \in Events
        /\ Event(tomb, TRUE, TRUE).upd = tomb
    BY DEF TypeOK, Mine, Theirs, Event, Events
  <1>2. /\ Since(c, Theirs) \in Seq(Events) /\ Since(c, Mine) \in Seq(Events)
        /\ TombsSince(c) \in Seq(Events)
        /\ srv.upd > c => Has(Since(c, Mine), Mine)
        /\ tomb > c => Has(TombsSince(c), Event(tomb, TRUE, TRUE))
    BY <1>1, SinceHas DEF TombsSince
  <1>3. /\ DocsSince(c) \in Seq(Events)
        /\ srv.alive /\ srv.upd > c => Has(DocsSince(c), Mine)
    <2>1. /\ Since(c, Theirs) \o Since(c, Mine) \in Seq(Events)
          /\ Since(c, Mine) \o Since(c, Theirs) \in Seq(Events)
          /\ Has(Since(c, Mine), Mine) =>
               /\ Has(Since(c, Theirs) \o Since(c, Mine), Mine)
               /\ Has(Since(c, Mine) \o Since(c, Theirs), Mine)
      BY <1>2, Appended
    <2> QED BY <1>2, <2>1 DEF DocsSince
  <1>4. Missed(c) \in Seq(Events)
    BY <1>2, <1>3, Appended DEF Missed
  <1>5. ASSUME srv.upd > c, ~Unburied PROVE Has(Missed(c), Newest)
    <2>1. CASE srv.alive
      <3>1. Newest = Mine
        BY <2>1 DEF Newest, Mine
      <3> QED BY <1>2, <1>3, <1>5, <2>1, <3>1, Appended DEF Missed
    <2>2. CASE ~srv.alive
      <3>1. tomb = srv.upd
        BY <1>5, <2>2 DEF Unburied
      <3>2. Newest = Event(tomb, TRUE, TRUE)
        BY <2>2, <3>1 DEF Newest
      <3> QED BY <1>2, <1>3, <1>5, <3>1, <3>2, Appended DEF Missed
    <2> QED BY <2>1, <2>2 DEF TypeOK
  <1> QED BY <1>2, <1>3, <1>4, <1>5

LEMMA FaultCounted == TypeOK /\ Fault => faults' \in Nat
  BY DEF TypeOK, Fault

(* A write on the server, whoever makes it.                                *)
LEMMA ServerWriteKeeps ==
  ASSUME TypeOK, NEW alive \in BOOLEAN, NEW body \in Nat, NEW stamp \in Nat,
         ServerWrite(alive, body, stamp), UNCHANGED <<up, asked>>
  PROVE  /\ HeardOrAsked'
         /\ srv' = [alive |-> alive, body |-> body, upd |-> stamp]
         /\ other' = other /\ tomb' \in Nat /\ graves' \subseteq Nat
         /\ wire' \in Seq(Events) /\ events' \in 0..(MaxEvents + 1)
         /\ told' = FALSE /\ skipped' = FALSE /\ faults' \in Nat
  <1> DEFINE ev == Event(stamp, ~alive, TRUE)
  <1>1. ev \in Events
    BY EventTyped
  <1>2. /\ srv' = [alive |-> alive, body |-> body, upd |-> stamp]
        /\ Newest' = ev
        /\ other' = other /\ told' = FALSE /\ skipped' = FALSE
    BY DEF ServerWrite, Newest
  <1>3. tomb' \in Nat /\ graves' \subseteq Nat /\ faults' \in Nat
    <2>1. CASE UNCHANGED <<tomb, graves, faults>>
      BY <2>1 DEF TypeOK
    <2>2. CASE Tombstone(stamp)
      BY <2>2, FaultCounted DEF TypeOK, Tombstone
    <2> QED BY <2>1, <2>2 DEF ServerWrite
  <1>4. CASE up
    <2>1. Send(<<ev>>)
      BY <1>4 DEF ServerWrite
    <2> HIDE DEF ev
    <2>2. /\ events' \in 0..(MaxEvents + 1) /\ wire' \in Seq(Events)
          /\ events' <= MaxEvents => wire' = wire \o <<ev>>
      BY <1>1, <2>1, OneHas, Sent
    <2>3. Has(wire \o <<ev>>, ev)
      BY <1>1, OneHas, Appended DEF TypeOK
    <2> QED BY <1>2, <1>3, <2>2, <2>3 DEF HeardOrAsked
  <1>5. CASE ~up
    <2>1. wire' = wire /\ events' = events
      BY <1>5 DEF ServerWrite
    <2> QED BY <1>2, <1>3, <1>5, <2>1 DEF HeardOrAsked, TypeOK
  <1> QED BY <1>4, <1>5

-----------------------------------------------------------------------------
(* Each step keeps the inductive invariant.                                *)

(* The document is rewritten by another user.                              *)
LEMMA OtherWriteKeeps ==
  ASSUME IInv, OtherWrite
  PROVE  IInv'
  <1>1. bodies \in Nat /\ now \in Nat /\ bodies' = bodies + 1 /\ now' = now + 1
    BY DEF IInv, LocalInv, TypeOK, OtherWrite
  <1>2. /\ HeardOrAsked' /\ srv' = [alive |-> TRUE, body |-> bodies + 1, upd |-> now + 1]
        /\ other' = other /\ tomb' \in Nat /\ graves' \subseteq Nat
        /\ wire' \in Seq(Events) /\ events' \in 0..(MaxEvents + 1)
        /\ told' = FALSE /\ skipped' = FALSE /\ faults' \in Nat
    <2>1. TypeOK /\ TRUE \in BOOLEAN /\ bodies + 1 \in Nat /\ now + 1 \in Nat
      BY <1>1 DEF IInv, LocalInv
    <2>2. ServerWrite(TRUE, bodies + 1, now + 1) /\ UNCHANGED <<up, asked>>
      BY DEF OtherWrite
    <2> QED BY <2>1, <2>2, ServerWriteKeeps, Zenon
  <1>3. TypeOK'
    <2>1. /\ UNCHANGED <<fork, meta, push, owed, up, asked, wcp, handler>>
          /\ bodies' \in Nat /\ now' \in Nat /\ other' \in Nat
      BY <1>1, <1>2 DEF IInv, LocalInv, TypeOK, OtherWrite, localVars
    <2>2. srv' \in [alive : BOOLEAN, body : Nat, upd : Nat]
      BY <1>1, <1>2
    <2>3. told' \in BOOLEAN /\ skipped' \in BOOLEAN
      BY <1>2
    <2> QED BY <1>2, <2>1, <2>2, <2>3 DEF IInv, LocalInv, TypeOK
  <1>4. BodiesSeen'
    <2>1. /\ srv'.body = bodies' /\ bodies' = bodies + 1 /\ bodies \in Nat
          /\ UNCHANGED <<fork, meta, push, handler>>
      BY <1>1, <1>2 DEF OtherWrite, localVars
    <2>2. /\ fork.body \in Nat /\ meta.body \in Nat
          /\ push.doc.body \in Nat /\ push.got.body \in Nat
          /\ \A h \in Slots : handler[h].got.body \in Nat
      BY DEF IInv, Handlers, LocalInv, TypeOK, Docs
    <2> QED BY <2>1, <2>2 DEF IInv, LocalInv, BodiesSeen
  <1>5. EditHeld' /\ ConflictIsServed'
    BY DEF IInv, LocalInv, EditHeld, ConflictIsServed, Committed, OtherWrite, localVars
  <1> QED BY <1>2, <1>3, <1>4, <1>5 DEF IInv, LocalInv

(* Or deleted.                                                             *)
LEMMA OtherDeleteKeeps ==
  ASSUME IInv, OtherDelete
  PROVE  IInv'
  <1>1. bodies \in Nat /\ now \in Nat /\ now' = now + 1
    BY DEF IInv, LocalInv, TypeOK, OtherDelete
  <1>2. /\ HeardOrAsked' /\ srv' = [alive |-> FALSE, body |-> 0, upd |-> now + 1]
        /\ other' = other /\ tomb' \in Nat /\ graves' \subseteq Nat
        /\ wire' \in Seq(Events) /\ events' \in 0..(MaxEvents + 1)
        /\ told' = FALSE /\ skipped' = FALSE /\ faults' \in Nat
    <2>1. TypeOK /\ FALSE \in BOOLEAN /\ 0 \in Nat /\ now + 1 \in Nat
      BY <1>1 DEF IInv, LocalInv
    <2>2. ServerWrite(FALSE, 0, now + 1) /\ UNCHANGED <<up, asked>>
      BY DEF OtherDelete
    <2> QED BY <2>1, <2>2, ServerWriteKeeps, Zenon
  <1>3. TypeOK'
    <2>1. /\ UNCHANGED <<fork, meta, push, owed, up, asked, wcp, handler>>
          /\ bodies' \in Nat /\ now' \in Nat /\ other' \in Nat
      BY <1>1, <1>2 DEF IInv, LocalInv, TypeOK, OtherDelete, localVars
    <2>2. srv' \in [alive : BOOLEAN, body : Nat, upd : Nat]
      BY <1>1, <1>2
    <2>3. told' \in BOOLEAN /\ skipped' \in BOOLEAN
      BY <1>2
    <2> QED BY <1>2, <2>1, <2>2, <2>3 DEF IInv, LocalInv, TypeOK
  <1>4. BodiesSeen'
    BY <1>1, <1>2 DEF IInv, LocalInv, TypeOK, BodiesSeen, OtherDelete, localVars
  <1>5. EditHeld' /\ ConflictIsServed'
    BY DEF IInv, LocalInv, EditHeld, ConflictIsServed, Committed, OtherDelete, localVars
  <1> QED BY <1>2, <1>3, <1>4, <1>5 DEF IInv, LocalInv

(* The tombstone matters to later catch-ups only.                          *)
LEMMA BuryKeeps ==
  ASSUME IInv, NEW t \in graves, Bury(t)
  PROVE  IInv'
  <1>1. TypeOK'
    <2>1. t \in Nat /\ tomb' \in Nat /\ graves' \subseteq Nat
      BY DEF IInv, LocalInv, TypeOK, Bury
    <2> QED BY <2>1 DEF IInv, LocalInv, TypeOK, Bury, localVars, socketVars, tellVars
  <1>2. BodiesSeen' /\ EditHeld' /\ ConflictIsServed'
    BY DEF IInv, LocalInv, BodiesSeen, EditHeld, ConflictIsServed, Committed, Bury,
       localVars, socketVars
  <1>3. HeardOrAsked'
    BY DEF IInv, HeardOrAsked, Newest, Bury, socketVars, tellVars
  <1> QED BY <1>1, <1>2, <1>3 DEF IInv, LocalInv

LEMMA OtherDocumentKeeps ==
  ASSUME IInv, OtherDocument
  PROVE  IInv'
  <1> DEFINE ev == Event(now + 1, FALSE, FALSE)
  <1>1. /\ bodies \in Nat /\ now \in Nat /\ bodies' = bodies + 1 /\ now' = now + 1
        /\ other' = now + 1
    BY DEF IInv, LocalInv, TypeOK, OtherDocument
  <1>2. ev \in Events
    BY <1>1 DEF Event, Events
  <1>3. IF up THEN Send(<<ev>>) ELSE UNCHANGED <<wire, events>>
    BY DEF OtherDocument
  <1> HIDE DEF ev
  <1>4. /\ wire' \in Seq(Events) /\ events' \in 0..(MaxEvents + 1)
        /\ up /\ events' <= MaxEvents => events <= MaxEvents /\ wire' = wire \o <<ev>>
    <2>1. TypeOK /\ <<ev>> \in Seq(Events)
      BY <1>2, OneHas DEF IInv, LocalInv
    <2>2. CASE up
      BY <1>3, <2>1, <2>2, Sent, Zenon
    <2>3. CASE ~up
      BY <1>3, <2>1, <2>3 DEF TypeOK
    <2> QED BY <2>2, <2>3
  <1>5. TypeOK'
    BY <1>1, <1>4 DEF IInv, LocalInv, TypeOK, OtherDocument, localVars, tellVars
  <1>6. BodiesSeen'
    <2>1. bodies' = bodies + 1 /\ UNCHANGED <<srv, fork, meta, push, handler>>
      BY <1>1 DEF OtherDocument, localVars
    <2>2. /\ srv.body \in Nat /\ fork.body \in Nat /\ meta.body \in Nat
          /\ push.doc.body \in Nat /\ push.got.body \in Nat
          /\ \A h \in Slots : handler[h].got.body \in Nat
      BY DEF IInv, Handlers, LocalInv, TypeOK, Docs
    <2> QED BY <1>1, <2>1, <2>2 DEF IInv, LocalInv, BodiesSeen
  <1>7. EditHeld' /\ ConflictIsServed'
    BY DEF IInv, LocalInv, EditHeld, ConflictIsServed, Committed, OtherDocument, localVars
  <1>8. HeardOrAsked'
    <2>1. Has(wire, Newest) => Has(wire \o <<ev>>, Newest)
      BY <1>2, OneHas, Appended DEF IInv, LocalInv, TypeOK
    <2> QED BY <1>4, <2>1 DEF IInv, HeardOrAsked, Newest, OtherDocument, tellVars
  <1> QED BY <1>5, <1>6, <1>7, <1>8 DEF IInv, LocalInv

LEMMA ConnectKeeps ==
  ASSUME IInv, Connect
  PROVE  IInv'
  <1>1. TypeOK' /\ asked' # <<>>
    BY DEF IInv, LocalInv, TypeOK, Connect, localVars, serverVars, tellVars
  <1>2. BodiesSeen' /\ EditHeld' /\ ConflictIsServed'
    BY DEF IInv, LocalInv, BodiesSeen, EditHeld, ConflictIsServed, Committed, Connect,
       localVars, serverVars
  <1> QED BY <1>1, <1>2 DEF IInv, LocalInv, HeardOrAsked

(* The answer of the catch-up has the document's newest state, if that is  *)
(* newer than the checkpoint asked for, and buried if it is deleted.       *)
LEMMA CatchUpKeeps ==
  ASSUME IInv, CatchUp
  PROVE  IInv'
  <1> DEFINE c == asked[1]
  <1>1. TypeOK /\ c \in Nat /\ wire \in Seq(Events) /\ srv.upd \in Nat
    BY DEF IInv, LocalInv, TypeOK, CatchUp
  <1>2. /\ Missed(c) \in Seq(Events)
        /\ srv.upd > c /\ ~Unburied => Has(Missed(c), Newest)
    BY <1>1, CatchUpTells
  <1>3. Send(Missed(c)) /\ skipped' = (~told /\ (srv.upd <= c \/ Unburied))
    BY DEF CatchUp
  <1> HIDE DEF c
  <1>4. /\ wire' \in Seq(Events) /\ events' \in 0..(MaxEvents + 1)
        /\ events' <= MaxEvents => wire' = wire \o Missed(c)
    BY <1>1, <1>2, <1>3, Sent
  <1>5. skipped' \in BOOLEAN
    BY <1>3, Zenon
  <1>6. TypeOK'
    BY <1>1, <1>4, <1>5, NothingTyped DEF TypeOK, CatchUp, localVars, serverVars
  <1>7. BodiesSeen' /\ EditHeld' /\ ConflictIsServed'
    BY DEF IInv, LocalInv, BodiesSeen, EditHeld, ConflictIsServed, Committed, CatchUp,
       localVars, serverVars
  <1>8. HeardOrAsked'
    <2>1. told' = told /\ Newest' = Newest
      BY DEF CatchUp, serverVars, Newest
    <2>2. ASSUME ~told, ~skipped' PROVE Has(Missed(c), Newest)
      <3>1. ~(srv.upd <= c) /\ ~Unburied
        BY <1>3, <2>2, Zenon
      <3>2. srv.upd > c
        BY <1>1, <3>1
      <3> QED BY <1>2, <3>1, <3>2
    <2>3. Has(Missed(c), Newest) => Has(wire \o Missed(c), Newest)
      BY <1>1, <1>2, Appended
    <2> QED BY <1>4, <2>1, <2>2, <2>3 DEF HeardOrAsked
  <1> QED BY <1>6, <1>7, <1>8 DEF IInv, LocalInv

LEMMA CatchUpCutShortKeeps ==
  ASSUME IInv, CatchUpCutShort
  PROVE  IInv'
  <1> DEFINE c == asked[1]
  <1>1. TypeOK /\ c \in Nat
    BY DEF IInv, LocalInv, TypeOK, CatchUpCutShort
  <1>2. DocsSince(c) \in Seq(Events) /\ TombsSince(c) \in Seq(Events)
    BY <1>1, CatchUpTells
  <1>3. PICK n \in 0..Len(DocsSince(c)), ts \in {<<>>, TombsSince(c)} :
          Send(SubSeq(DocsSince(c), 1, n) \o ts)
    BY DEF CatchUpCutShort
  <1> HIDE DEF c
  <1>4. SubSeq(DocsSince(c), 1, n) \o ts \in Seq(Events)
    <2>1. ts \in Seq(Events)
      BY <1>2, NothingTyped
    <2>2. SubSeq(DocsSince(c), 1, n) \in Seq(Events)
      BY <1>2
    <2> QED BY <2>1, <2>2
  <1>5. wire' \in Seq(Events) /\ events' \in 0..(MaxEvents + 1)
    BY <1>1, <1>3, <1>4, Sent
  <1>6. skipped' = ~told /\ skipped' \in BOOLEAN /\ faults' \in Nat
    BY <1>1, FaultCounted DEF CatchUpCutShort
  <1>7. TypeOK'
    BY <1>1, <1>5, <1>6, NothingTyped DEF TypeOK, CatchUpCutShort, localVars, serverVars
  <1>8. BodiesSeen' /\ EditHeld' /\ ConflictIsServed'
    BY DEF IInv, LocalInv, BodiesSeen, EditHeld, ConflictIsServed, Committed,
       CatchUpCutShort, localVars, serverVars
  <1>9. HeardOrAsked'
    BY <1>6 DEF HeardOrAsked, CatchUpCutShort
  <1> QED BY <1>7, <1>8, <1>9 DEF IInv, LocalInv

LEMMA DisconnectKeeps ==
  ASSUME IInv, Disconnect
  PROVE  IInv'
  <1>1. TypeOK'
    BY NothingTyped, FaultCounted DEF IInv, LocalInv, TypeOK, Disconnect, localVars,
       serverVars, tellVars
  <1>2. BodiesSeen' /\ EditHeld' /\ ConflictIsServed'
    BY DEF IInv, LocalInv, BodiesSeen, EditHeld, ConflictIsServed, Committed, Disconnect,
       localVars, serverVars
  <1>3. HeardOrAsked'
    BY DEF HeardOrAsked, Disconnect
  <1> QED BY <1>1, <1>2, <1>3 DEF IInv, LocalInv

(* An edit is new: nobody has its contents yet.                            *)
LEMMA EditKeeps ==
  ASSUME IInv, NEW flag \in BOOLEAN, NEW ok \in BOOLEAN, Edit(flag, ok)
  PROVE  IInv'
  <1>1. /\ bodies \in Nat /\ now \in Nat /\ bodies' = bodies + 1 /\ now' = now + 1
        /\ fork' = [body |-> bodies + 1, upd |-> now + 1, lm |-> flag \/ fork.lm,
                    del |-> FALSE, valid |-> ok]
        /\ owed' = IF Protected(fork') THEN fork' ELSE NoDoc
        /\ UNCHANGED <<srv, tomb, graves, other, meta, push, socketVars, faults>>
    BY DEF IInv, LocalInv, TypeOK, Edit, LocalWrite
  <1>2. fork' \in Docs /\ fork'.body = bodies + 1
    <2>1. (flag \/ fork.lm) \in BOOLEAN
      BY Zenon
    <2>2. bodies + 1 \in Nat /\ now + 1 \in Nat
      BY <1>1
    <2> QED BY <1>1, <2>1, <2>2 DEF Docs
  <1>3. TypeOK'
    BY <1>1, <1>2, DocTyped DEF IInv, LocalInv, TypeOK, socketVars, tellVars
  <1>4. /\ meta.body <= bodies /\ meta.body \in Nat
        /\ push.doc.body \in Nat /\ push.got.body \in Nat
        /\ srv.body \in Nat /\ \A h \in Slots : handler[h].got.body \in Nat
    BY DEF IInv, Handlers, LocalInv, BodiesSeen, TypeOK, Docs
  <1>5. BodiesSeen'
    BY <1>1, <1>2, <1>4 DEF IInv, LocalInv, BodiesSeen, socketVars
  <1>6. EditHeld'
    <2>1. meta' # fork'
      BY <1>1, <1>2, <1>4
    <2>2. Committed' <=> Committed
      BY <1>1 DEF Committed, socketVars
    <2> QED BY <1>1, <2>1, <2>2 DEF EditHeld, Protected
  <1>7. ConflictIsServed'
    BY <1>1 DEF IInv, LocalInv, ConflictIsServed
  <1>8. HeardOrAsked'
    BY <1>1 DEF IInv, HeardOrAsked, Newest, socketVars, tellVars
  <1> QED BY <1>3, <1>5, <1>6, <1>7, <1>8 DEF IInv, LocalInv

(* A removal is not protected.                                             *)
LEMMA RemoveKeeps ==
  ASSUME IInv, NEW flag \in BOOLEAN, Remove(flag)
  PROVE  IInv'
  <1>1. /\ fork' = [fork EXCEPT !.del = TRUE, !.lm = flag \/ fork.lm]
        /\ owed' = IF Protected(fork') THEN fork' ELSE NoDoc
        /\ UNCHANGED <<srv, tomb, graves, now, other, meta, push, socketVars, faults, bodies>>
    BY DEF Remove, LocalWrite
  <1>2. fork' \in Docs /\ fork'.body = fork.body /\ fork'.del
    BY <1>1 DEF IInv, LocalInv, TypeOK, Docs
  <1>3. owed' = NoDoc
    BY <1>1, <1>2 DEF Protected
  <1>4. TypeOK'
    BY <1>1, <1>2, <1>3, DocTyped DEF IInv, LocalInv, TypeOK, socketVars, tellVars
  <1>5. BodiesSeen' /\ EditHeld' /\ ConflictIsServed'
    BY <1>1, <1>2, <1>3 DEF IInv, LocalInv, BodiesSeen, EditHeld, ConflictIsServed,
       socketVars
  <1>6. HeardOrAsked'
    BY <1>1 DEF IInv, HeardOrAsked, Newest, socketVars, tellVars
  <1> QED BY <1>4, <1>5, <1>6 DEF IInv, LocalInv

(* The push takes what the fork holds.                                     *)
LEMMA PushStartKeeps ==
  ASSUME IInv, PushStart
  PROVE  IInv'
  <1>1. TypeOK'
    BY DocTyped DEF IInv, LocalInv, TypeOK, PushStart, PushStages, serverVars, socketVars,
       tellVars
  <1>2. BodiesSeen' /\ ConflictIsServed'
    BY DEF IInv, LocalInv, TypeOK, BodiesSeen, ConflictIsServed, PushStart, NoDoc,
       serverVars, socketVars, tellVars
  <1>3. EditHeld'
    BY DEF IInv, LocalInv, EditHeld, Committed, PushStart, socketVars
  <1>4. HeardOrAsked'
    BY DEF IInv, HeardOrAsked, Newest, PushStart, serverVars, socketVars, tellVars
  <1> QED BY <1>1, <1>2, <1>3, <1>4 DEF IInv, LocalInv

(* The server takes the pushed state, or does not.                         *)
LEMMA PushServedKeeps ==
  ASSUME IInv, PushServed
  PROVE  IInv'
  <1>1. /\ TypeOK /\ HeardOrAsked /\ push.doc \in Docs /\ push.got \in Docs
        /\ now \in Nat /\ bodies \in Nat
        /\ UNCHANGED <<fork, meta, owed, up, asked, wcp, handler, bodies>>
    BY DEF IInv, LocalInv, TypeOK, PushServed
  <1>2. push' \in [stage : PushStages, doc : {push.doc}, got : {push.got}]
    <2>1. ASSUME NEW stage \in PushStages, Told(stage)
          PROVE  push' \in [stage : PushStages, doc : {push.doc}, got : {push.got}]
      BY <1>1, <2>1 DEF Told, TypeOK
    <2>2. {"served", "get"} \subseteq PushStages
      BY DEF PushStages
    <2> QED BY <2>1, <2>2 DEF PushServed, Deleted, Posted, Patched
  <1> DEFINE Typed ==
        /\ HeardOrAsked' /\ now' \in Nat /\ other' = other
        /\ srv' \in [alive : BOOLEAN, body : Nat, upd : Nat]
        /\ srv'.body \in {0, srv.body, push.doc.body}
        /\ tomb' \in Nat /\ graves' \subseteq Nat
        /\ wire' \in Seq(Events) /\ events' \in 0..(MaxEvents + 1)
        /\ told' \in BOOLEAN /\ skipped' \in BOOLEAN /\ faults' \in Nat
  <1>3. ASSUME NEW alive \in BOOLEAN, NEW body \in {0, push.doc.body}, NEW stamp \in Nat,
               ServerWrite(alive, body, stamp), now' \in Nat
        PROVE  Typed
    <2>1. body \in Nat
      BY <1>1 DEF Docs
    <2>2. /\ HeardOrAsked' /\ srv' = [alive |-> alive, body |-> body, upd |-> stamp]
          /\ other' = other /\ tomb' \in Nat /\ graves' \subseteq Nat
          /\ wire' \in Seq(Events) /\ events' \in 0..(MaxEvents + 1)
          /\ told' = FALSE /\ skipped' = FALSE /\ faults' \in Nat
      BY <1>1, <1>3, <2>1, ServerWriteKeeps
    <2> QED BY <1>3, <2>1, <2>2
  <1>4. ASSUME UNCHANGED serveVars PROVE Typed
    BY <1>1, <1>4 DEF IInv, LocalInv, TypeOK, HeardOrAsked, Newest, serveVars, serverVars
  <1>5. now + 1 \in Nat /\ push.doc.upd \in Nat
    BY <1>1 DEF Docs
  <1>6. Typed
    <2>1. CASE Deleted
      <3>1. CASE UNCHANGED serveVars
        BY <1>4, <3>1
      <3>2. CASE now' = now + 1 /\ ServerWrite(FALSE, 0, now + 1)
        <4> HIDE DEF Typed
        <4> QED BY <1>3, <1>5, <3>2
      <3> QED BY <2>1, <3>1, <3>2 DEF Deleted
    <2>2. CASE Posted
      <3>1. CASE UNCHANGED serveVars
        BY <1>4, <3>1
      <3>2. CASE UNCHANGED now /\ ServerWrite(TRUE, push.doc.body, push.doc.upd)
        <4> HIDE DEF Typed
        <4> QED BY <1>1, <1>3, <1>5, <3>2
      <3> QED BY <2>2, <3>1, <3>2 DEF Posted
    <2>3. CASE Patched
      <3>1. CASE UNCHANGED serveVars
        BY <1>4, <3>1
      <3>2. CASE now' = now + 1 /\ ServerWrite(TRUE, push.doc.body, now + 1)
        <4> HIDE DEF Typed
        <4> QED BY <1>3, <1>5, <3>2
      <3>3. CASE UNCHANGED now /\ ServerWrite(TRUE, push.doc.body, push.doc.upd)
        <4> HIDE DEF Typed
        <4> QED BY <1>1, <1>3, <1>5, <3>3
      <3> QED BY <2>3, <3>1, <3>2, <3>3 DEF Patched
    <2> QED BY <2>1, <2>2, <2>3 DEF PushServed
  <1> HIDE DEF Typed
  <1>7. TypeOK'
    BY <1>1, <1>2, <1>6 DEF Typed, TypeOK
  <1>8. BodiesSeen'
    <2>1. srv'.body <= bodies /\ push'.doc = push.doc /\ push'.got = push.got
      BY <1>1, <1>2, <1>6 DEF Typed, IInv, LocalInv, BodiesSeen
    <2> QED BY <1>1, <2>1 DEF IInv, LocalInv, BodiesSeen
  <1>9. EditHeld' /\ ConflictIsServed'
    BY <1>1, <1>2 DEF IInv, LocalInv, EditHeld, ConflictIsServed, Committed
  <1> QED BY <1>6, <1>7, <1>8, <1>9 DEF Typed, IInv, LocalInv

(* The state it finds after a refused POST is not flagged.                 *)
LEMMA PushLookedKeeps ==
  ASSUME IInv, PushLooked
  PROVE  IInv'
  <1>1. /\ TypeOK /\ UNCHANGED <<fork, meta, owed, serverVars, socketVars, bodies, faults>>
        /\ Served(srv) \in Docs /\ Served(srv).body = srv.body /\ ~Served(srv).lm
    BY DocTyped DEF IInv, LocalInv, PushLooked, Served
  <1>2. /\ push' \in [stage : PushStages, doc : Docs, got : Docs]
        /\ push'.doc = push.doc /\ push'.got \in {push.got, Served(srv)}
    BY <1>1 DEF PushLooked, TypeOK, PushStages
  <1>3. TypeOK'
    BY <1>1, <1>2 DEF TypeOK, serverVars, socketVars, tellVars
  <1>4. BodiesSeen' /\ ConflictIsServed'
    BY <1>1, <1>2 DEF IInv, LocalInv, BodiesSeen, ConflictIsServed, serverVars, socketVars
  <1>5. EditHeld'
    BY <1>1 DEF IInv, LocalInv, EditHeld, Committed, socketVars
  <1>6. HeardOrAsked'
    BY <1>1 DEF IInv, HeardOrAsked, Newest, serverVars, socketVars, tellVars
  <1> QED BY <1>3, <1>4, <1>5, <1>6 DEF IInv, LocalInv

(* A flagged edit wins the conflict.                                       *)
LEMMA PushConflictKeeps ==
  ASSUME IInv, PushConflict
  PROVE  IInv'
  <1>1. /\ TypeOK /\ UNCHANGED <<owed, serverVars, socketVars, bodies, faults>>
        /\ push' = Idle /\ push.got \in Docs /\ ~push.got.lm
        /\ \/ UNCHANGED <<fork, meta>>
           \/ fork' = Resolve(fork, push.got) /\ meta' = push.got
    BY DEF IInv, LocalInv, TypeOK, ConflictIsServed, PushConflict
  <1>2. NoDoc \in Docs /\ NoDoc.body = 0 /\ ~NoDoc.lm
    BY DocTyped DEF NoDoc
  <1>3. TypeOK'
    BY <1>1, <1>2 DEF TypeOK, Idle, PushStages, Resolve, serverVars, socketVars, tellVars
  <1>4. BodiesSeen' /\ ConflictIsServed'
    BY <1>1, <1>2 DEF IInv, LocalInv, TypeOK, BodiesSeen, ConflictIsServed, Idle, Resolve,
       serverVars, socketVars
  <1>5. EditHeld'
    BY <1>1 DEF IInv, LocalInv, EditHeld, Committed, Resolve, socketVars
  <1>6. HeardOrAsked'
    BY <1>1 DEF IInv, HeardOrAsked, Newest, serverVars, socketVars, tellVars
  <1> QED BY <1>3, <1>4, <1>5, <1>6 DEF IInv, LocalInv

(* The state acknowledged is not the protected edit, or the edit has had   *)
(* its answer.                                                             *)
LEMMA PushAckedKeeps ==
  ASSUME IInv, PushAcked
  PROVE  IInv'
  <1>1. TypeOK'
    BY DocTyped DEF IInv, LocalInv, TypeOK, PushAcked, PushStages, serverVars, socketVars,
       tellVars, Idle
  <1>2. BodiesSeen' /\ ConflictIsServed'
    BY DEF IInv, LocalInv, TypeOK, BodiesSeen, ConflictIsServed, PushAcked, serverVars,
       socketVars, Idle, NoDoc, Docs
  <1>3. EditHeld'
    BY DEF IInv, LocalInv, EditHeld, Committed, PushAcked, socketVars
  <1>4. HeardOrAsked'
    BY DEF IInv, HeardOrAsked, Newest, PushAcked, serverVars, socketVars, tellVars
  <1> QED BY <1>1, <1>2, <1>3, <1>4 DEF IInv, LocalInv

(* A pull finds the fork acknowledged, so there is no protected edit.      *)
LEMMA PullKeeps ==
  ASSUME IInv, Pull
  PROVE  IInv'
  <1>1. TypeOK'
    BY DEF IInv, LocalInv, TypeOK, Pull, serverVars, socketVars, tellVars, Served, Buried,
       Docs
  <1>2. BodiesSeen' /\ ConflictIsServed'
    BY DEF IInv, LocalInv, TypeOK, BodiesSeen, ConflictIsServed, Pull, serverVars,
       socketVars, Served, Buried, Docs
  <1>3. EditHeld'
    BY DEF IInv, LocalInv, EditHeld, Pull
  <1>4. HeardOrAsked'
    BY DEF IInv, HeardOrAsked, Newest, Pull, serverVars, socketVars, tellVars
  <1> QED BY <1>1, <1>2, <1>3, <1>4 DEF IInv, LocalInv

(* An event is heard.                                                      *)
LEMMA HearKeeps ==
  ASSUME IInv, NEW h \in Slots, Hear(h)
  PROVE  IInv'
  <1>1. /\ wire \in Seq(Events) /\ wire # <<>> /\ wire' = Tail(wire)
        /\ Head(wire) \in Events /\ wire' \in Seq(Events) /\ wcp' \in Nat
        /\ Has(wire, Newest) => Head(wire) = Newest \/ Has(wire', Newest)
    <2>1. wire \in Seq(Events) /\ wire # <<>> /\ wire' = Tail(wire) /\ wcp \in Nat
      BY DEF IInv, LocalInv, TypeOK, Hear
    <2>2. /\ Head(wire) \in Events /\ wire' \in Seq(Events)
          /\ Has(wire, Newest) => Head(wire) = Newest \/ Has(wire', Newest)
      BY <2>1, HeadHeard
    <2>3. wcp' \in Nat
      BY <2>1, <2>2 DEF Hear, NextWcp, Events
    <2> QED BY <2>1, <2>2, <2>3
  <1>2. TypeOK'
    <2>1. handler' \in [Slots -> Handlers] /\ told' \in BOOLEAN
      <3>1. [Off EXCEPT !.stage = "find", !.ev = Head(wire)] \in Handlers
        BY <1>1, DocTyped DEF Handlers, Off
      <3>2. CASE Head(wire).mine
        <4>1. handler' = [handler EXCEPT ![h] =
                            [Off EXCEPT !.stage = "find", !.ev = Head(wire)]]
          BY <3>2 DEF Hear
        <4>2. told' \in BOOLEAN
          BY <3>2, Zenon DEF Hear
        <4> QED BY <3>1, <4>1, <4>2 DEF IInv, LocalInv, TypeOK
      <3>3. CASE ~Head(wire).mine
        BY <3>3 DEF IInv, LocalInv, TypeOK, Hear
      <3> QED BY <3>2, <3>3
    <2> QED BY <1>1, <2>1 DEF IInv, LocalInv, TypeOK, Hear, localVars, serverVars
  <1>3. \A k \in Slots : handler'[k].stage \in {handler[k].stage, "find"}
                           /\ handler'[k].got = handler[k].got
    <2>1. CASE Head(wire).mine
      <3>1. handler' = [handler EXCEPT ![h] = [Off EXCEPT !.stage = "find", !.ev = Head(wire)]]
        BY <2>1 DEF Hear
      <3>2. handler[h].got = NoDoc
        BY DEF Hear, Off
      <3> QED BY <3>1, <3>2 DEF IInv, LocalInv, TypeOK, Off
    <2>2. CASE ~Head(wire).mine
      BY <2>2 DEF Hear
    <2> QED BY <2>1, <2>2
  <1>4. BodiesSeen' /\ ConflictIsServed'
    BY <1>3 DEF IInv, LocalInv, BodiesSeen, ConflictIsServed, Hear, localVars, serverVars
  <1>5. EditHeld'
    BY <1>3 DEF IInv, LocalInv, EditHeld, Committed, Hear, localVars
  <1>6. HeardOrAsked'
    <2>1. /\ up' = up /\ asked' = asked /\ events' = events /\ Newest' = Newest
          /\ skipped' = skipped
      BY DEF Hear, serverVars, Newest
    <2>2. told => told'
      BY DEF Hear
    <2>3. Head(wire) = Newest => told'
      <3>1. Newest.mine = TRUE
        BY DEF Newest, Event
      <3> QED BY <3>1 DEF Hear
    <2> QED BY <1>1, <2>1, <2>2, <2>3 DEF IInv, HeardOrAsked
  <1> QED BY <1>2, <1>4, <1>5, <1>6 DEF IInv, LocalInv

(* A handler goes on or ends, and the local document is only written by a  *)
(* handler past its last look.                                             *)
LEMMA HandlerMoves ==
  ASSUME TypeOK, NEW h \in Slots, NEW doc \in Docs,
         NEW stage \in {"off", "remove", "fetch", "recheck", "upsert"}, Goto(h, stage, doc)
  PROVE  /\ handler' \in [Slots -> Handlers]
         /\ handler'[h].stage = stage
         /\ handler'[h].got \in {doc, NoDoc}
         /\ \A k \in Slots : k # h => handler'[k] = handler[k]
  <1> DEFINE new == IF stage = "off" THEN Off
                    ELSE [handler[h] EXCEPT !.stage = stage, !.got = doc]
  <1>1. handler' = [handler EXCEPT ![h] = new]
    BY DEF Goto
  <1>2. handler[h] \in Handlers
    BY DEF TypeOK
  <1>3. Off \in Handlers
    BY DocTyped, EventTyped DEF Handlers, Off
  <1>4. /\ new \in Handlers
        /\ new.stage = stage /\ new.got \in {doc, NoDoc}
    BY <1>2, <1>3 DEF Handlers, Off
  <1> QED BY <1>1, <1>4 DEF TypeOK

(* A handler that looks again finds the protected edit, and gives way.     *)
LEMMA HandlerKeeps ==
  ASSUME IInv, NEW h \in Slots,
         Look(h) \/ Fetch(h) \/ Recheck(h) \/ FetchFailed(h)
  PROVE  IInv'
  <1>1. PICK stage \in {"off", "remove", "fetch", "recheck", "upsert"}, doc \in Docs :
          /\ Goto(h, stage, doc)
          /\ doc.body \in {0, srv.body, handler[h].got.body}
          /\ stage \in {"remove", "upsert"} => ~Modified
    <2>1. /\ NoDoc \in Docs /\ NoDoc.body = 0
          /\ handler[h].got \in Docs /\ Served(srv) \in Docs /\ Served(srv).body = srv.body
      BY DocTyped DEF IInv, Handlers, LocalInv, TypeOK, NoDoc, Served
    <2>2. CASE Look(h)
      BY <2>1, <2>2 DEF Look, AfterFind
    <2>3. CASE Fetch(h)
      BY <2>1, <2>3 DEF Fetch
    <2>4. CASE Recheck(h)
      BY <2>1, <2>4 DEF Recheck, AfterRecheck
    <2>5. CASE FetchFailed(h)
      BY <2>1, <2>5 DEF FetchFailed
    <2> QED BY <2>2, <2>3, <2>4, <2>5
  <1>2. /\ UNCHANGED <<fork, meta, push, owed>> /\ faults' \in Nat
        /\ UNCHANGED <<srv, tomb, graves, now, other, up, asked, wire, tellVars, events, bodies>>
    <2>1. UNCHANGED <<srv, tomb, graves, now, other, up, asked, wire, tellVars, events, bodies>>
      BY <1>1 DEF Goto, serverVars
    <2> QED
      BY <2>1, FaultCounted
         DEF Look, Fetch, Recheck, FetchFailed, localVars, IInv, LocalInv, TypeOK
  <1>3. /\ handler' \in [Slots -> Handlers]
        /\ handler'[h].stage = stage
        /\ handler'[h].got \in {doc, NoDoc}
        /\ \A k \in Slots : k # h => handler'[k] = handler[k]
    BY <1>1, HandlerMoves DEF IInv, LocalInv
  <1>4. TypeOK'
    BY <1>2, <1>3 DEF IInv, LocalInv, TypeOK, tellVars
  <1>5. BodiesSeen' /\ ConflictIsServed'
    <2>1. handler'[h].got.body \in {0, srv.body, handler[h].got.body}
      BY <1>1, <1>3 DEF NoDoc
    <2> QED BY <1>2, <1>3, <2>1
        DEF IInv, Handlers, LocalInv, TypeOK, BodiesSeen, ConflictIsServed
  <1>6. EditHeld'
    <2>1. owed # NoDoc => Modified
      BY DEF IInv, LocalInv, EditHeld, Modified, Present
    <2> QED
      BY <1>1, <1>2, <1>3, <2>1 DEF IInv, LocalInv, EditHeld, Committed
  <1>7. HeardOrAsked'
    BY <1>2 DEF IInv, HeardOrAsked, Newest, tellVars
  <1> QED BY <1>4, <1>5, <1>6, <1>7 DEF IInv, LocalInv

(* A handler writes: it is past its last look, so no edit is protected.    *)
LEMMA HandlerWrites ==
  ASSUME IInv, NEW h \in Slots, Upsert(h) \/ RemoveLocal(h)
  PROVE  IInv'
  <1>1. /\ Goto(h, "off", NoDoc) /\ UNCHANGED <<meta, push, owed, faults>>
        /\ UNCHANGED <<srv, tomb, graves, now, other, up, asked, wire, tellVars, events, bodies>>
    BY DEF Upsert, RemoveLocal, Goto, serverVars
  <1>2. fork' \in Docs /\ fork'.body \in {handler[h].got.body, fork.body}
    <2>1. fork \in Docs /\ handler[h].got \in Docs
      BY DEF IInv, Handlers, LocalInv, TypeOK
    <2>2. fork' = handler[h].got \/ fork' = [fork EXCEPT !.del = TRUE]
      BY DEF Upsert, RemoveLocal
    <2> QED BY <2>1, <2>2 DEF Docs
  <1>3. owed' = NoDoc
    BY <1>1 DEF Upsert, RemoveLocal, IInv, LocalInv, EditHeld, Committed
  <1>4. /\ handler' \in [Slots -> Handlers]
        /\ handler'[h].got.body = 0
        /\ \A k \in Slots : k # h => handler'[k] = handler[k]
    BY <1>1, HandlerMoves, DocTyped DEF IInv, LocalInv, NoDoc
  <1>5. TypeOK'
    BY <1>1, <1>2, <1>4 DEF IInv, LocalInv, TypeOK, tellVars
  <1>6. BodiesSeen' /\ ConflictIsServed'
    <2>1. bodies \in Nat
      BY DEF IInv, LocalInv, TypeOK
    <2> QED
      BY <1>1, <1>2, <1>4, <2>1 DEF IInv, LocalInv, BodiesSeen, ConflictIsServed
  <1>7. EditHeld'
    BY <1>3 DEF EditHeld
  <1>8. HeardOrAsked'
    BY <1>1 DEF IInv, HeardOrAsked, Newest, tellVars
  <1> QED BY <1>5, <1>6, <1>7, <1>8 DEF IInv, LocalInv

LEMMA RestartKeeps ==
  ASSUME IInv, Restart
  PROVE  IInv'
  <1>1. /\ UNCHANGED <<fork, meta, owed, srv, tomb, graves, now, other, events, bodies>>
        /\ handler' = [k \in Slots |-> Off] /\ push' = Idle /\ faults' \in Nat
    BY FaultCounted DEF IInv, LocalInv, Restart, serverVars
  <1>2. /\ NoDoc \in Docs /\ NoDoc.body = 0 /\ Off.stage = "off" /\ Off.got = NoDoc
        /\ Off.ev \in Events /\ ~NoDoc.lm
    <2>1. Event(0, FALSE, TRUE) \in Events
      BY EventTyped
    <2> QED BY <2>1, DocTyped DEF Off, NoDoc
  <1>3. TypeOK'
    <2>1. Off \in Handlers
      BY <1>2 DEF Handlers, Off
    <2>2. Idle \in [stage : PushStages, doc : Docs, got : Docs]
      BY <1>2 DEF Idle, PushStages
    <2>3. /\ up' \in BOOLEAN /\ asked' \in Seq(Nat) /\ wire' \in Seq(Events)
          /\ wcp' \in Nat /\ told' \in BOOLEAN /\ skipped' \in BOOLEAN
      <3>1. CASE UNCHANGED <<up, asked, wire, tellVars>>
        BY <3>1 DEF IInv, LocalInv, TypeOK, tellVars
      <3>2. CASE /\ up' = FALSE /\ asked' = <<>> /\ wire' = <<>>
                 /\ wcp' = 0 /\ told' = FALSE /\ skipped' = FALSE
        BY <3>2, NothingTyped
      <3> QED BY <3>1, <3>2 DEF Restart
    <2> QED BY <1>1, <2>1, <2>2, <2>3 DEF IInv, LocalInv, TypeOK
  <1>4. BodiesSeen' /\ ConflictIsServed'
    BY <1>1, <1>2 DEF IInv, LocalInv, TypeOK, BodiesSeen, ConflictIsServed, Idle
  <1>5. EditHeld'
    BY <1>1, <1>2 DEF IInv, LocalInv, EditHeld, Committed
  <1>6. HeardOrAsked'
    <2>1. Newest' = Newest
      BY <1>1 DEF Newest
    <2>2. CASE up' = FALSE
      BY <2>2 DEF HeardOrAsked
    <2>3. CASE UNCHANGED <<up, asked, wire, tellVars>>
      BY <1>1, <2>1, <2>3 DEF IInv, HeardOrAsked, tellVars
    <2> QED BY <2>2, <2>3 DEF Restart
  <1> QED BY <1>3, <1>4, <1>5, <1>6 DEF IInv, LocalInv

LEMMA InitHolds == Init => IInv
  <1> SUFFICES ASSUME Init PROVE IInv
    OBVIOUS
  <1>1. /\ NoDoc \in Docs /\ NoDoc.body = 0 /\ ~NoDoc.lm
        /\ Off.stage = "off" /\ Off.got = NoDoc
    BY DocTyped DEF Off, NoDoc
  <1>2. Off \in Handlers
    <2>1. Event(0, FALSE, TRUE) \in Events
      BY EventTyped
    <2> QED BY <1>1, <2>1 DEF Handlers, Off
  <1>3. TypeOK
    <2>1. 0 \in 0..(MaxEvents + 1)
      BY BoundIsNatural
    <2> QED BY <1>1, <1>2, <2>1, NothingTyped DEF Init, TypeOK, Idle, PushStages
  <1>4. BodiesSeen /\ EditHeld /\ ConflictIsServed
    BY <1>1 DEF Init, BodiesSeen, EditHeld, ConflictIsServed, Idle
  <1>5. HeardOrAsked
    BY DEF Init, HeardOrAsked
  <1> QED BY <1>3, <1>4, <1>5 DEF IInv, LocalInv

LEMMA StepKeeps == IInv /\ [Next]_vars => IInv'
  <1> SUFFICES ASSUME IInv, [Next]_vars PROVE IInv'
    OBVIOUS
  <1>1. CASE User
    BY <1>1, EditKeeps, RemoveKeeps DEF User
  <1>2. CASE Others
    BY <1>2, OtherWriteKeeps, OtherDeleteKeeps, OtherDocumentKeeps, BuryKeeps DEF Others
  <1>3. CASE PushStep \/ Pull
    BY <1>3, PushStartKeeps, PushServedKeeps, PushLookedKeeps, PushConflictKeeps,
       PushAckedKeeps, PullKeeps DEF PushStep
  <1>4. CASE Socket
    BY <1>4, ConnectKeeps, CatchUpKeeps, CatchUpCutShortKeeps, DisconnectKeeps,
       HearKeeps, HandlerKeeps, HandlerWrites DEF Socket, Handle
  <1>5. CASE Restart
    BY <1>5, RestartKeeps
  <1>6. CASE UNCHANGED vars
    BY <1>6 DEF vars, localVars, serverVars, socketVars, tellVars, IInv, LocalInv,
       TypeOK, BodiesSeen, EditHeld, ConflictIsServed, Committed, HeardOrAsked, Newest
  <1> QED BY <1>1, <1>2, <1>3, <1>4, <1>5, <1>6 DEF Next

THEOREM Invariance == Spec => []IInv
  BY InitHolds, StepKeeps, PTL DEF Spec

-----------------------------------------------------------------------------
(* Every variable has its type.                                            *)
THEOREM TypeCorrect == Spec => []TypeOK
  BY Invariance, PTL DEF IInv, LocalInv

(* Local changes take precedence in the WebSocket client, whatever number  *)
(* of handlers are between their awaits when the user writes.              *)
THEOREM LocalChangesTakePrecedence == Spec => []FlaggedEditKept
  <1>1. IInv => FlaggedEditKept
    BY DEF IInv, LocalInv, EditHeld, FlaggedEditKept
  <1> QED BY <1>1, Invariance, PTL

(* A client that has drained its socket has heard of the newest write or   *)
(* deletion: the catch-up covers what a lost connection did not deliver,   *)
(* unless it was cut short, came before the tombstone, or was asked for    *)
(* with a checkpoint already past it.                                      *)
THEOREM CatchUpIsComplete == Spec => []CatchUpCovers
  <1>1. IInv => CatchUpCovers
    BY DEF IInv, HeardOrAsked, CatchUpCovers, Has
  <1> QED BY <1>1, Invariance, PTL

=============================================================================
