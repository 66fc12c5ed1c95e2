------------------------ MODULE ClientSessionProofs ------------------------
(***************************************************************************)
(* Safety of the provider's life cycle, for any number of servers, inits,  *)
(* changes, resets and faults.                                             *)
(***************************************************************************)
EXTENDS ClientSession, FiniteSetTheorems, TLAPS

(* Inits are numbered in the order in which they start.                    *)
UsedInOrder ==
  \E n \in 0..MaxInits : \A i \in Inits : init[i].step # "none" <=> i <= n

(* It is for a server.                                                     *)
ServersKnown == \A i \in Inits : init[i].step # "none" => init[i].server \in Servers

(* A reset will find room for the init it starts.                          *)
ResetUnderWay ==
  reset.step # "idle" => mounted /\ resets > 0 /\ Started < MaxInits

(* The init whose effect has not been cleaned up: there is one at most.    *)
Awaited(i) == Running(i) /\ Wanted(i)

AwaitedByProvider ==
  /\ \A i \in Inits : Awaited(i) => mounted /\ initRef
  /\ \A i, j \in Inits : Awaited(i) /\ Awaited(j) => i = j

OneRuns == ~overlap => \A i, j \in Inits : Running(i) /\ Running(j) => i = j

(* What is referred to, or being closed, was published.                    *)
RefsArePublished ==
  \A i \in Inits :
    i \in closing \/ i \in {dbRef, shown, existing, reset.old} => init[i].step = "done"

(* closeDuplicates leaves one database open.                               *)
OneOpen ==
  /\ \A i, j \in open : i = j
  /\ \A i \in open : init[i].step \notin {"none", "drop", "open", "reopen"}

(* What the components hold, they hold from this mount and its last init.  *)
ShownIsCurrent ==
  /\ ~mounted => dbRef = None /\ shown = None
  /\ shown # None => initRef
  /\ shown # None /\ ~overlap =>
       /\ \A i \in Inits : ~Running(i)
       /\ reset.step = "idle" => shown \in open \ closing

(* dbRef is set while another init may still publish only after a reset    *)
(* that did not clear it; then this reset is a further one.                *)
StaleRef ==
  dbRef # None /\ (~initRef \/ \E i \in Inits : Awaited(i)) =>
    resets > (IF reset.step = "idle" THEN 0 ELSE 1)

(* If dbRef changes while a reset awaits the end of what it held, the next *)
(* step of the reset still finds it as _existingDB, unless inits overlap.  *)
Clobbered ==
  reset.step = "destroy" =>
    /\ dbRef # None
    /\ dbRef # reset.old =>
         resets > 1 /\ shown = dbRef /\ (overlap \/ existing = dbRef)

(* The destroy that a reset awaits ends well or not.                       *)
DestroySettles ==
  reset.step = "destroy" /\ reset.old \in open => reset.old \in closing \union stranded

(* An open database is on its way in or out, somebody will close it, or an *)
(* error has left it open.                                                 *)
Held ==
  \A d \in open :
    \/ d \in closing \/ Running(d) \/ d = dbRef \/ d \in stranded
    \/ reset.step = "wipe" /\ d = reset.old
    \/ overlap /\ resets > 1

(* A previous instance is dropped by the second createLocalDB of a run of  *)
(* the app, or a later one.                                                *)
DropsAreLater ==
  /\ existing # None => lives > 0
  /\ \A i \in Inits :
       /\ Running(i) => lives > 0
       /\ init[i].step = "drop" => lives > 1

IInv ==
  /\ TypeOK /\ UsedInOrder /\ ServersKnown /\ ResetUnderWay
  /\ AwaitedByProvider /\ OneRuns /\ RefsArePublished /\ OneOpen
  /\ ShownIsCurrent /\ StaleRef /\ Clobbered /\ DestroySettles /\ Held
  /\ DropsAreLater

-----------------------------------------------------------------------------
LEMMA CardinalityOfInterval == \A n \in Nat : Cardinality(1..n) = n
  <1> SUFFICES ASSUME NEW n \in Nat PROVE Cardinality(1..n) = n
    OBVIOUS
  <1>1. Cardinality(1..n) = IF 1 > n THEN 0 ELSE n - 1 + 1
    BY FS_Interval
  <1> QED BY <1>1

(* The next init has a number that no earlier one has used.                *)
LEMMA NextIsUnused ==
  ASSUME TypeOK, UsedInOrder
  PROVE  /\ Started \in Nat /\ (Started < MaxInits => Started + 1 \in Inits)
         /\ \A i \in Inits : init[i].step # "none" <=> i <= Started
  <1>1. PICK n \in 0..MaxInits : \A i \in Inits : init[i].step # "none" <=> i <= n
    BY DEF UsedInOrder
  <1>2. {i \in Inits : init[i].step # "none"} = 1..n
    <2>1. 1..n \subseteq Inits /\ \A i \in Inits : i <= n <=> i \in 1..n
      BY BoundsAssumption DEF Inits
    <2> QED BY <1>1, <2>1, Zenon
  <1>3. Started = n
    <2>1. Cardinality(1..n) = n
      BY CardinalityOfInterval, BoundsAssumption
    <2> QED BY <1>2, <2>1, Zenon DEF Started
  <1> QED BY <1>1, <1>3, BoundsAssumption DEF Inits

(* Counting the inits again after one more has started.                    *)
LEMMA OneMoreStarted ==
  ASSUME TypeOK, UsedInOrder, Started < MaxInits,
         \A i \in Inits : init'[i].step # "none" <=>
                            init[i].step # "none" \/ i = Started + 1
  PROVE  UsedInOrder' /\ Started' = Started + 1
  <1>1. /\ Started \in Nat /\ Started + 1 \in 0..MaxInits
        /\ \A i \in Inits : init[i].step # "none" <=> i <= Started
    BY NextIsUnused, BoundsAssumption DEF Inits
  <1>2. \A i \in Inits : init'[i].step # "none" <=> i <= Started + 1
    BY <1>1 DEF Inits
  <1>3. {i \in Inits : init'[i].step # "none"} = 1..(Started + 1)
    <2>1. /\ 1..(Started + 1) \subseteq Inits
          /\ \A i \in Inits : i <= Started + 1 <=> i \in 1..(Started + 1)
      BY <1>1, BoundsAssumption DEF Inits
    <2> QED BY <1>2, <2>1, Zenon
  <1>4. Started' = Started + 1
    <2>1. Cardinality(1..(Started + 1)) = Started + 1
      BY <1>1, CardinalityOfInterval
    <2>2. Started' = Cardinality({i \in Inits : init'[i].step # "none"})
      BY Zenon DEF Started
    <2> QED BY <1>3, <2>1, <2>2, Zenon
  <1> QED BY <1>1, <1>2, <1>4 DEF UsedInOrder

(* Nothing has started.                                                    *)
LEMMA NoneStarted ==
  ASSUME \A i \in Inits : init'[i].step # "none" <=> init[i].step # "none"
  PROVE  Started' = Started /\ (UsedInOrder => UsedInOrder')
  BY DEF Started, UsedInOrder

-----------------------------------------------------------------------------
(* What the steps of the calls do to init.                                 *)
InitRecord == [step : Steps, server : Servers \union {None},
               old : Inits \union {None}, cancelled : BOOLEAN]

LEMMA NoneIsNoInit == None \notin Inits
  BY BoundsAssumption DEF None, Inits

(* A call takes a step.                                                    *)
LEMMA StepTaken ==
  ASSUME TypeOK, NEW k \in Inits, init[k].step # "none",
         NEW step \in Steps \ {"none"}, At(k, step)
  PROVE  /\ init' \in [Inits -> InitRecord]
         /\ Started' = Started /\ (UsedInOrder => UsedInOrder')
         /\ ServersKnown => ServersKnown'
         /\ init'[k].step = step
         /\ \A i \in Inits : i # k => init'[i].step = init[i].step
         /\ \A i \in Inits : init'[i].cancelled = init[i].cancelled
  <1>1. /\ init' \in [Inits -> InitRecord]
        /\ init'[k].step = step
        /\ \A i \in Inits : i # k => init'[i].step = init[i].step
        /\ \A i \in Inits : init'[i].cancelled = init[i].cancelled
        /\ \A i \in Inits : init'[i].server = init[i].server
    BY DEF TypeOK, At, InitRecord
  <1>2. \A i \in Inits : init'[i].step # "none" <=> init[i].step # "none"
    BY <1>1
  <1> QED BY <1>1, <1>2, NoneStarted DEF ServersKnown

(* The cleanup of the effect.                                              *)
LEMMA CleanedUp ==
  ASSUME TypeOK, init' = Cancelled
  PROVE  /\ init' \in [Inits -> InitRecord]
         /\ Started' = Started /\ (UsedInOrder => UsedInOrder')
         /\ ServersKnown => ServersKnown'
         /\ \A i \in Inits : init'[i].step = init[i].step /\ init'[i].cancelled
  <1>1. /\ init' \in [Inits -> InitRecord]
        /\ \A i \in Inits : init'[i].step = init[i].step /\ init'[i].cancelled
        /\ \A i \in Inits : init'[i].server = init[i].server
    BY DEF TypeOK, Cancelled, InitRecord
  <1>2. \A i \in Inits : init'[i].step # "none" <=> init[i].step # "none"
    BY <1>1
  <1> QED BY <1>1, <1>2, NoneStarted DEF ServersKnown

(* What the effect does, k being the next init: it cancels every other,    *)
(* and may start k.                                                        *)
Begun(k, ok, ref, prev) ==
  /\ init[k].step = "none"
  /\ \A i \in Inits : i # k => init'[i].step = init[i].step
  /\ \A i \in Inits : Awaited(i)' => i = k
  /\ \/ /\ init'[k].step = "none"
        /\ initRef' = ref /\ lives' = lives /\ overlap' = overlap
     \/ /\ init'[k].step \in {"drop", "open"} /\ ~ref /\ ok
        /\ init'[k].step = "drop" => prev # None
        /\ initRef' /\ lives' = lives + 1
        /\ overlap' = (overlap \/ \E i \in Inits : Running(i))

LEMMA EffectStarts ==
  ASSUME TypeOK, UsedInOrder, ServersKnown, Started < MaxInits,
         NEW s \in Servers, NEW ok \in BOOLEAN, NEW ref \in BOOLEAN,
         NEW prev \in Inits \union {None}, Effect(s, ok, ref, prev)
  PROVE  /\ init' \in [Inits -> InitRecord]
         /\ initRef' \in BOOLEAN /\ lives' \in Nat /\ overlap' \in BOOLEAN
         /\ UsedInOrder' /\ ServersKnown'
         /\ Started' \in Nat /\ Started' <= Started + 1
         /\ \E k \in Inits : Begun(k, ok, ref, prev)
  <1>1. /\ Started \in Nat /\ Started + 1 \in Inits
        /\ \A i \in Inits : init[i].step # "none" <=> i <= Started
    BY NextIsUnused
  <1>2. init[Started + 1].step = "none"
    BY <1>1
  <1>3. CASE Starts(ok, ref)
    <2> DEFINE k == Started + 1
    <2>1. /\ init' = [Cancelled EXCEPT ![k] = Call(k, s, prev)]
          /\ initRef' = TRUE /\ lives' = lives + 1
          /\ overlap' = (overlap \/ \E i \in Inits : Running(i))
      BY <1>3 DEF Effect
    <2>2. k \in Inits /\ init[k].step = "none"
      BY <1>1, <1>2
    <2> HIDE DEF k
    <2>3. /\ init'[k] = Call(k, s, prev)
          /\ \A i \in Inits : i # k => init'[i] = [init[i] EXCEPT !.cancelled = TRUE]
          /\ init' \in [Inits -> InitRecord]
      <3>1. Call(k, s, prev) \in InitRecord
        BY DEF Call, Steps, InitRecord
      <3>2. Cancelled \in [Inits -> InitRecord]
        BY DEF TypeOK, Cancelled, InitRecord
      <3>3. \A i \in Inits : Cancelled[i] = [init[i] EXCEPT !.cancelled = TRUE]
        BY DEF Cancelled
      <3> QED BY <2>1, <2>2, <3>1, <3>2, <3>3
    <2>4. \A i \in Inits : /\ i # k => init'[i].step = init[i].step
                           /\ i # k => init'[i].cancelled
      BY <2>3 DEF TypeOK
    <2>5. init'[k].step \in {"drop", "open"} /\ (init'[k].step = "drop" => prev # None)
      BY <2>3 DEF Call
    <2>6. UsedInOrder' /\ Started' = Started + 1
      BY <2>2, <2>4, <2>5, OneMoreStarted DEF k
    <2>7. Started' \in Nat /\ Started' <= Started + 1
      BY <1>1, <2>6
    <2>8. \A i \in Inits : Awaited(i)' => i = k
      BY <2>4 DEF Awaited, Wanted
    <2>9. initRef' \in BOOLEAN /\ lives' \in Nat /\ overlap' \in BOOLEAN /\ ~ref /\ ok
      BY <1>3, <2>1 DEF Starts, TypeOK
    <2>10. Begun(k, ok, ref, prev)
      BY <2>1, <2>2, <2>4, <2>5, <2>8, <2>9, Zenon DEF Begun
    <2>11. ServersKnown'
      BY <2>2, <2>3 DEF ServersKnown, Call, TypeOK
    <2> QED BY <2>2, <2>3, <2>6, <2>7, <2>9, <2>10, <2>11, Zenon
  <1>4. CASE ~Starts(ok, ref)
    <2>1. init' = Cancelled /\ initRef' = ref /\ lives' = lives /\ overlap' = overlap
      BY <1>4 DEF Effect
    <2>2. /\ init' \in [Inits -> InitRecord]
          /\ Started' = Started /\ UsedInOrder' /\ ServersKnown'
          /\ \A i \in Inits : init'[i].step = init[i].step /\ init'[i].cancelled
      BY <2>1, CleanedUp
    <2>3. Started' \in Nat /\ Started' <= Started + 1
      BY <1>1, <2>2
    <2>4. Begun(Started + 1, ok, ref, prev)
      BY <1>1, <1>2, <2>1, <2>2 DEF Begun, Awaited, Wanted
    <2> QED BY <1>1, <2>1, <2>2, <2>3, <2>4 DEF TypeOK
  <1> QED BY <1>3, <1>4


-----------------------------------------------------------------------------
(* Each step of the system keeps the inductive invariant.                  *)

(* The provider mounts: nothing is left of the last one.                   *)
LEMMA MountKeeps ==
  ASSUME IInv, NEW s \in Servers, NEW ok \in BOOLEAN, Mount(s, ok)
  PROVE  IInv'
  <1>1. Started \in Nat /\ MaxInits \in Nat
    BY NextIsUnused, BoundsAssumption DEF IInv
  <1>2. /\ Effect(s, ok, FALSE, existing) /\ reset.step = "idle"
        /\ Started < MaxInits
        /\ server \in Servers /\ usable \in BOOLEAN /\ initRef \in BOOLEAN
        /\ existing \in Inits \union {None} /\ existing' \in Inits \union {None}
    <2>1. reset.step = "idle"
      BY Zenon DEF IInv, ResetUnderWay, Mount
    <2>2. Started < MaxInits
      BY <1>1, <2>1 DEF Mount, Room
    <2>3. Effect(s, ok, FALSE, existing) /\ existing' = existing
      BY DEF Mount
    <2> QED BY <1>1, <2>1, <2>2, <2>3 DEF IInv, TypeOK
  <1>3. /\ init' \in [Inits -> InitRecord]
        /\ initRef' \in BOOLEAN /\ lives' \in Nat /\ overlap' \in BOOLEAN
        /\ UsedInOrder' /\ ServersKnown'
        /\ Started' \in Nat /\ Started' <= Started + 1
        /\ \E k \in Inits : Begun(k, ok, FALSE, existing)
    BY <1>1, <1>2, EffectStarts, Zenon DEF IInv
  <1>4. PICK k \in Inits : Begun(k, ok, FALSE, existing)
    BY <1>3
  <1>5. TypeOK'
    BY <1>1, <1>2, <1>3, <1>4, NoneIsNoInit DEF IInv, TypeOK, Mount,
        dataVars, boundVars, Begun, InitRecord
  <1>6. AwaitedByProvider'
    BY <1>1, <1>2, <1>3, <1>4, NoneIsNoInit DEF IInv, AwaitedByProvider,
        Awaited, Running, Wanted, TypeOK, Mount, dataVars, boundVars, Begun,
        InitRecord
  <1>7. OneRuns'
    BY <1>1, <1>2, <1>3, <1>4, NoneIsNoInit DEF IInv, OneRuns, Running,
        TypeOK, Mount, dataVars, boundVars, Begun, InitRecord
  <1>8. RefsArePublished'
    BY <1>1, <1>2, <1>3, <1>4, NoneIsNoInit DEF IInv, RefsArePublished,
        OneOpen, TypeOK, Mount, dataVars, boundVars, Begun, InitRecord
  <1>9. OneOpen'
    BY <1>1, <1>2, <1>3, <1>4, NoneIsNoInit DEF IInv, OneOpen,
        RefsArePublished, TypeOK, Mount, dataVars, boundVars, Begun,
        InitRecord
  <1>10. Held'
    BY <1>1, <1>2, <1>3, <1>4, NoneIsNoInit DEF IInv, Held, DestroySettles,
        ShownIsCurrent, OneOpen, Running, TypeOK, Mount, dataVars, boundVars,
        Begun, InitRecord
  <1>11. DropsAreLater'
    BY <1>1, <1>2, <1>3, <1>4, NoneIsNoInit DEF IInv, DropsAreLater, Running,
        TypeOK, Mount, dataVars, boundVars, Begun, InitRecord
  <1>12. ResetUnderWay' /\ Clobbered'
    BY <1>1, <1>2, <1>3, <1>4, NoneIsNoInit DEF IInv, ResetUnderWay,
        Clobbered, TypeOK, Mount, dataVars, boundVars, Begun, InitRecord
  <1>13. ShownIsCurrent' /\ StaleRef'
    BY <1>1, <1>2, <1>3, <1>4, NoneIsNoInit DEF IInv, ShownIsCurrent,
        StaleRef, Awaited, Running, Wanted, TypeOK, Mount, dataVars,
        boundVars, Begun, InitRecord
  <1>14. DestroySettles'
    BY <1>1, <1>2, <1>3, <1>4, NoneIsNoInit DEF IInv, DestroySettles,
        ResetUnderWay, RefsArePublished, OneOpen, Running, TypeOK, Mount,
        dataVars, boundVars, Begun, InitRecord
  <1> QED BY <1>3, <1>5, <1>6, <1>7, <1>8, <1>9, <1>10, <1>11, <1>12, <1>13,
      <1>14 DEF IInv

(* An init may overtake another here.                                      *)
LEMMA ChangeKeeps ==
  ASSUME IInv, NEW ok \in BOOLEAN, Change(ok)
  PROVE  IInv'
  <1>1. Started \in Nat /\ MaxInits \in Nat
    BY NextIsUnused, BoundsAssumption DEF IInv
  <1>2. /\ Effect(server, ok, initRef, existing)
        /\ Started < MaxInits
        /\ server \in Servers /\ usable \in BOOLEAN /\ initRef \in BOOLEAN
        /\ existing \in Inits \union {None} /\ existing' \in Inits \union {None}
    BY <1>1 DEF IInv, TypeOK, Change, Room, ResetUnderWay
  <1>3. /\ init' \in [Inits -> InitRecord]
        /\ initRef' \in BOOLEAN /\ lives' \in Nat /\ overlap' \in BOOLEAN
        /\ UsedInOrder' /\ ServersKnown'
        /\ Started' \in Nat /\ Started' <= Started + 1
        /\ \E k \in Inits : Begun(k, ok, initRef, existing)
    BY <1>1, <1>2, EffectStarts, Zenon DEF IInv
  <1>4. PICK k \in Inits : Begun(k, ok, initRef, existing)
    BY <1>3
  <1>5. TypeOK'
    BY <1>1, <1>2, <1>3, <1>4, NoneIsNoInit DEF IInv, TypeOK, Change, Room,
        dataVars, Begun, InitRecord
  <1>6. ResetUnderWay'
    BY <1>1, <1>2, <1>3, <1>4, NoneIsNoInit DEF IInv, ResetUnderWay, TypeOK,
        Change, Room, dataVars, Begun, InitRecord
  <1>7. AwaitedByProvider'
    BY <1>1, <1>2, <1>3, <1>4, NoneIsNoInit DEF IInv, AwaitedByProvider,
        Awaited, Running, Wanted, TypeOK, Change, Room, dataVars, Begun,
        InitRecord
  <1>8. OneRuns'
    BY <1>1, <1>2, <1>3, <1>4, NoneIsNoInit DEF IInv, OneRuns, Running,
        TypeOK, Change, Room, dataVars, Begun, InitRecord
  <1>9. RefsArePublished'
    BY <1>1, <1>2, <1>3, <1>4, NoneIsNoInit DEF IInv, RefsArePublished,
        OneOpen, TypeOK, Change, Room, dataVars, Begun, InitRecord
  <1>10. OneOpen'
    BY <1>1, <1>2, <1>3, <1>4, NoneIsNoInit DEF IInv, OneOpen,
        RefsArePublished, TypeOK, Change, Room, dataVars, Begun, InitRecord
  <1>11. ShownIsCurrent'
    BY <1>1, <1>2, <1>3, <1>4, NoneIsNoInit DEF IInv, ShownIsCurrent,
        RefsArePublished, OneRuns, AwaitedByProvider, Awaited, Running,
        Wanted, TypeOK, Change, Room, dataVars, Begun, InitRecord
  <1>12. StaleRef'
    BY <1>1, <1>2, <1>3, <1>4, NoneIsNoInit DEF IInv, StaleRef,
        AwaitedByProvider, ResetUnderWay, Awaited, Running, Wanted, TypeOK,
        Change, Room, dataVars, Begun, InitRecord
  <1>13. Held'
    BY <1>1, <1>2, <1>3, <1>4, NoneIsNoInit DEF IInv, Held, DestroySettles,
        OneOpen, RefsArePublished, Clobbered, ShownIsCurrent, Running,
        TypeOK, Change, Room, dataVars, Begun, InitRecord
  <1>14. DropsAreLater'
    BY <1>1, <1>2, <1>3, <1>4, NoneIsNoInit DEF IInv, DropsAreLater, Running,
        TypeOK, Change, Room, dataVars, Begun, InitRecord
  <1>15. Clobbered'
    BY <1>1, <1>2, <1>3, <1>4, NoneIsNoInit DEF IInv, Clobbered, TypeOK,
        Change, Room, dataVars, Begun, InitRecord
  <1>16. DestroySettles'
    BY <1>1, <1>2, <1>3, <1>4, NoneIsNoInit DEF IInv, DestroySettles,
        ResetUnderWay, RefsArePublished, OneOpen, Running, TypeOK, Change,
        Room, dataVars, Begun, InitRecord
  <1> QED BY <1>3, <1>5, <1>6, <1>7, <1>8, <1>9, <1>10, <1>11, <1>12, <1>13,
      <1>14, <1>15,
      <1>16 DEF IInv

(* The reset ends.                                                         *)
LEMMA ResetWipedKeeps ==
  ASSUME IInv, ResetWiped
  PROVE  IInv'
  <1>1. Started \in Nat /\ MaxInits \in Nat
    BY NextIsUnused, BoundsAssumption DEF IInv
  <1>2. /\ Effect(server, usable, FALSE, existing')
        /\ Started < MaxInits
        /\ server \in Servers /\ usable \in BOOLEAN /\ initRef \in BOOLEAN
        /\ existing \in Inits \union {None} /\ existing' \in Inits \union {None}
    BY <1>1 DEF IInv, TypeOK, ResetWiped, ResetInitRef, ResetUnderWay
  <1>3. /\ init' \in [Inits -> InitRecord]
        /\ initRef' \in BOOLEAN /\ lives' \in Nat /\ overlap' \in BOOLEAN
        /\ UsedInOrder' /\ ServersKnown'
        /\ Started' \in Nat /\ Started' <= Started + 1
        /\ \E k \in Inits : Begun(k, usable, FALSE, existing')
    BY <1>1, <1>2, EffectStarts, Zenon DEF IInv
  <1>4. PICK k \in Inits : Begun(k, usable, FALSE, existing')
    BY <1>3
  <1>5. TypeOK'
    <2>1. /\ open' \subseteq Inits /\ closing' \subseteq open'
          /\ stranded' \subseteq Inits
      BY DEF IInv, TypeOK, ResetWiped, Remove, Strand, Shut
    <2>2. unsynced' \subseteq Servers /\ lost' \in BOOLEAN
      <3>1. CASE UNCHANGED dataVars
        BY <3>1 DEF IInv, TypeOK, dataVars
      <3>2. ASSUME NEW s, Wipe(s) PROVE unsynced' \subseteq Servers /\ lost' \in BOOLEAN
        BY <3>2 DEF IInv, TypeOK, Wipe
      <3> QED BY <3>1, <3>2, Zenon DEF ResetWiped, Remove
    <2>3. changes' \in Nat /\ resets' \in Nat /\ faults' \in Nat
      BY DEF IInv, TypeOK, ResetWiped, Remove, Fault, boundVars
    <2>4. /\ mounted' \in BOOLEAN /\ usable' \in BOOLEAN /\ server' \in Servers
          /\ error' \in BOOLEAN /\ abandoned' \in BOOLEAN
      BY DEF IInv, TypeOK, ResetWiped, propVars
    <2>5. /\ {dbRef, shown, existing}' \subseteq Inits \union {None}
          /\ reset' \in [step : {"idle", "destroy", "wipe"}, old : Inits \union {None}]
      BY <1>2 DEF IInv, TypeOK, ResetWiped
    <2> QED BY <1>3, <2>1, <2>2, <2>3, <2>4, <2>5 DEF TypeOK, InitRecord
  <1>6. AwaitedByProvider'
    BY <1>1, <1>2, <1>3, <1>4, NoneIsNoInit DEF IInv, AwaitedByProvider,
        Awaited, Running, Wanted, ResetUnderWay, TypeOK, ResetWiped, Remove,
        Strand, Shut, Wipe, Fault, propVars, boundVars, Begun, InitRecord
  <1>7. OneRuns'
    BY <1>1, <1>2, <1>3, <1>4, NoneIsNoInit DEF IInv, OneRuns, Running,
        TypeOK, ResetWiped, Remove, Strand, Shut, Wipe, Fault, propVars,
        boundVars, Begun, InitRecord
  <1>8. RefsArePublished'
    BY <1>1, <1>2, <1>3, <1>4, NoneIsNoInit DEF IInv, RefsArePublished,
        OneOpen, TypeOK, ResetWiped, Remove, Strand, Shut, Wipe, Fault,
        propVars, boundVars, Begun, InitRecord
  <1>9. OneOpen'
    BY <1>1, <1>2, <1>3, <1>4, NoneIsNoInit DEF IInv, OneOpen,
        RefsArePublished, TypeOK, ResetWiped, Remove, Strand, Shut, Wipe,
        Fault, propVars, boundVars, Begun, InitRecord
  <1>10. StaleRef'
    BY <1>1, <1>2, <1>3, <1>4, NoneIsNoInit DEF IInv, StaleRef,
        AwaitedByProvider, ResetUnderWay, Awaited, Running, Wanted, TypeOK,
        ResetWiped, Remove, Strand, Shut, Wipe, Fault, propVars, boundVars,
        Begun, InitRecord
  <1>11. Held'
    BY <1>1, <1>2, <1>3, <1>4, NoneIsNoInit DEF IInv, Held, DestroySettles,
        OneOpen, RefsArePublished, Clobbered, ShownIsCurrent, Running,
        TypeOK, ResetWiped, Remove, Strand, Shut, Wipe, Fault, propVars,
        boundVars, Begun, InitRecord
  <1>12. DropsAreLater'
    BY <1>1, <1>2, <1>3, <1>4, NoneIsNoInit DEF IInv, DropsAreLater, Running,
        TypeOK, ResetWiped, Remove, Strand, Shut, Wipe, Fault, propVars,
        boundVars, Begun, InitRecord
  <1>13. ResetUnderWay' /\ Clobbered'
    BY <1>1, <1>2, <1>3, <1>4, NoneIsNoInit DEF IInv, ResetUnderWay,
        Clobbered, TypeOK, ResetWiped, Remove, Strand, Shut, Wipe, Fault,
        propVars, boundVars, Begun, InitRecord
  <1>14. ShownIsCurrent'
    BY <1>1, <1>2, <1>3, <1>4, NoneIsNoInit DEF IInv, ShownIsCurrent,
        Awaited, Running, Wanted, TypeOK, ResetWiped, Remove, Strand, Shut,
        Wipe, Fault, propVars, boundVars, Begun, InitRecord
  <1>15. DestroySettles'
    BY <1>1, <1>2, <1>3, <1>4, NoneIsNoInit DEF IInv, DestroySettles,
        ResetUnderWay, RefsArePublished, OneOpen, Running, TypeOK,
        ResetWiped, Remove, Strand, Shut, Wipe, Fault, propVars, boundVars,
        Begun, InitRecord
  <1> QED BY <1>3, <1>5, <1>6, <1>7, <1>8, <1>9, <1>10, <1>11, <1>12, <1>13,
      <1>14,
      <1>15 DEF IInv

(* Logout.                                                                 *)
LEMMA UnmountKeeps ==
  ASSUME IInv, Unmount
  PROVE  IInv'
  <1>1. /\ init' \in [Inits -> InitRecord]
        /\ Started' = Started /\ UsedInOrder' /\ ServersKnown'
        /\ \A i \in Inits : init'[i].step = init[i].step /\ init'[i].cancelled
    BY CleanedUp DEF IInv, Unmount
  <1>2. TypeOK'
    <2>1. init' \in [Inits -> InitRecord]
      BY <1>1 DEF IInv, TypeOK, InitRecord
    <2>2. /\ open' \subseteq Inits /\ closing' \subseteq open' /\ unsynced' \subseteq Servers
          /\ stranded' \subseteq Inits
      BY <1>1 DEF IInv, TypeOK, Unmount, dataVars, boundVars, ghostVars,
          InitRecord
    <2>3. /\ mounted' \in BOOLEAN /\ usable' \in BOOLEAN /\ server' \in Servers
          /\ initRef' \in BOOLEAN /\ error' \in BOOLEAN
          /\ lost' \in BOOLEAN /\ overlap' \in BOOLEAN /\ abandoned' \in BOOLEAN
      BY <1>1, Zenon DEF IInv, TypeOK, Unmount, dataVars, boundVars,
          ghostVars, InitRecord
    <2>4. /\ dbRef' \in Inits \union {None} /\ shown' \in Inits \union {None}
          /\ existing' \in Inits \union {None}
          /\ reset' \in [step : {"idle", "destroy", "wipe"}, old : Inits \union {None}]
      BY <1>1 DEF IInv, TypeOK, Unmount, dataVars, boundVars, ghostVars,
          InitRecord
    <2>5. changes' \in Nat /\ resets' \in Nat /\ faults' \in Nat /\ lives' \in Nat
      BY <1>1 DEF IInv, TypeOK, Unmount, dataVars, boundVars, ghostVars,
          InitRecord
    <2> QED BY <2>1, <2>2, <2>3, <2>4, <2>5 DEF TypeOK, InitRecord
  <1>3. AwaitedByProvider'
    BY <1>1, NoneIsNoInit DEF IInv, AwaitedByProvider, Awaited, Running,
        Wanted, TypeOK, Unmount, dataVars, boundVars, ghostVars, InitRecord
  <1>4. RefsArePublished'
    BY <1>1, NoneIsNoInit DEF IInv, RefsArePublished, OneOpen, TypeOK,
        Unmount, dataVars, boundVars, ghostVars, InitRecord
  <1>5. StaleRef'
    BY <1>1, NoneIsNoInit DEF IInv, StaleRef, AwaitedByProvider,
        ResetUnderWay, Awaited, Running, Wanted, TypeOK, Unmount, dataVars,
        boundVars, ghostVars, InitRecord
  <1>6. Held'
    BY <1>1, NoneIsNoInit DEF IInv, Held, DestroySettles, OneOpen,
        RefsArePublished, Clobbered, ShownIsCurrent, Running, TypeOK,
        Unmount, dataVars, boundVars, ghostVars, InitRecord
  <1>7. ResetUnderWay' /\ OneOpen' /\ Clobbered' /\ DropsAreLater'
    BY <1>1, NoneIsNoInit DEF IInv, ResetUnderWay, OneOpen, Clobbered,
        DropsAreLater, Running, TypeOK, Unmount, dataVars, boundVars,
        ghostVars, InitRecord
  <1>8. OneRuns' /\ ShownIsCurrent'
    BY <1>1, NoneIsNoInit DEF IInv, OneRuns, ShownIsCurrent, Running,
        Awaited, Wanted, TypeOK, Unmount, dataVars, boundVars, ghostVars,
        InitRecord
  <1>9. DestroySettles'
    BY <1>1, NoneIsNoInit DEF IInv, DestroySettles, ResetUnderWay,
        RefsArePublished, OneOpen, Running, TypeOK, Unmount, dataVars,
        boundVars, ghostVars, InitRecord
  <1> QED BY <1>1, <1>2, <1>3, <1>4, <1>5, <1>6, <1>7, <1>8,
      <1>9 DEF IInv

(* A reset begins.                                                         *)
LEMMA ResetBeginKeeps ==
  ASSUME IInv, ResetBegin
  PROVE  IInv'
  <1>1. init' = init /\ Started' = Started /\ UsedInOrder' /\ ServersKnown'
    BY NoneStarted DEF IInv, ServersKnown, ResetBegin
  <1>2. TypeOK'
    <2>1. init' \in [Inits -> InitRecord]
      BY <1>1 DEF IInv, TypeOK, InitRecord
    <2>2. /\ open' \subseteq Inits /\ closing' \subseteq open' /\ unsynced' \subseteq Servers
          /\ stranded' \subseteq Inits
      BY <1>1 DEF IInv, TypeOK, ResetBegin, propVars, dataVars, ghostVars
    <2>3. /\ mounted' \in BOOLEAN /\ usable' \in BOOLEAN /\ server' \in Servers
          /\ initRef' \in BOOLEAN /\ error' \in BOOLEAN
          /\ lost' \in BOOLEAN /\ overlap' \in BOOLEAN /\ abandoned' \in BOOLEAN
      BY <1>1, Zenon DEF IInv, TypeOK, ResetBegin, propVars, dataVars,
          ghostVars
    <2>4. /\ dbRef' \in Inits \union {None} /\ shown' \in Inits \union {None}
          /\ existing' \in Inits \union {None}
          /\ reset' \in [step : {"idle", "destroy", "wipe"}, old : Inits \union {None}]
      BY <1>1 DEF IInv, TypeOK, ResetBegin, propVars, dataVars, ghostVars
    <2>5. changes' \in Nat /\ resets' \in Nat /\ faults' \in Nat /\ lives' \in Nat
      BY <1>1 DEF IInv, TypeOK, ResetBegin, propVars, dataVars, ghostVars
    <2> QED BY <2>1, <2>2, <2>3, <2>4, <2>5 DEF TypeOK, InitRecord
  <1>3. RefsArePublished'
    BY <1>1, NoneIsNoInit DEF IInv, RefsArePublished, OneOpen, TypeOK,
        ResetBegin, propVars, dataVars, ghostVars
  <1>4. ShownIsCurrent'
    BY <1>1, NoneIsNoInit DEF IInv, ShownIsCurrent, RefsArePublished,
        OneRuns, AwaitedByProvider, Awaited, Running, Wanted, TypeOK,
        ResetBegin, propVars, dataVars, ghostVars
  <1>5. StaleRef'
    BY <1>1, NoneIsNoInit DEF IInv, StaleRef, AwaitedByProvider,
        ResetUnderWay, Awaited, Running, Wanted, TypeOK, ResetBegin,
        propVars, dataVars, ghostVars
  <1>6. Clobbered'
    BY <1>1, NoneIsNoInit DEF IInv, Clobbered, StaleRef, ShownIsCurrent,
        Awaited, Running, Wanted, TypeOK, ResetBegin, propVars, dataVars,
        ghostVars
  <1>7. ResetUnderWay' /\ OneOpen' /\ DropsAreLater'
    BY <1>1, NoneIsNoInit DEF IInv, ResetUnderWay, OneOpen, DropsAreLater,
        Running, TypeOK, ResetBegin, propVars, dataVars, ghostVars
  <1>8. AwaitedByProvider' /\ OneRuns' /\ Held'
    BY <1>1, NoneIsNoInit DEF IInv, AwaitedByProvider, OneRuns, Held,
        Awaited, Running, Wanted, TypeOK, ResetBegin, propVars, dataVars,
        ghostVars
  <1>9. DestroySettles'
    BY <1>1, NoneIsNoInit DEF IInv, DestroySettles, ResetUnderWay,
        RefsArePublished, OneOpen, Running, TypeOK, ResetBegin, propVars,
        dataVars, ghostVars
  <1> QED BY <1>1, <1>2, <1>3, <1>4, <1>5, <1>6, <1>7, <1>8,
      <1>9 DEF IInv

(* The reset clears dbRef, whatever it holds by now.                       *)
LEMMA ResetDestroyedKeeps ==
  ASSUME IInv, ResetDestroyed
  PROVE  IInv'
  <1>1. init' = init /\ Started' = Started /\ UsedInOrder' /\ ServersKnown'
    BY NoneStarted DEF IInv, ServersKnown, ResetDestroyed
  <1>2. TypeOK'
    BY <1>1, NoneIsNoInit DEF IInv, TypeOK, ResetDestroyed, propVars,
        dataVars, boundVars, ghostVars
  <1>3. StaleRef'
    BY <1>1, NoneIsNoInit DEF IInv, StaleRef, AwaitedByProvider,
        ResetUnderWay, Awaited, Running, Wanted, TypeOK, ResetDestroyed,
        propVars, dataVars, boundVars, ghostVars
  <1>4. Held'
    BY <1>1, NoneIsNoInit DEF IInv, Held, DestroySettles, OneOpen,
        RefsArePublished, Clobbered, ShownIsCurrent, Running, TypeOK,
        ResetDestroyed, propVars, dataVars, boundVars, ghostVars
  <1>5. /\ ResetUnderWay' /\ RefsArePublished' /\ OneOpen' /\ Clobbered'
        /\ DropsAreLater'
    BY <1>1, NoneIsNoInit DEF IInv, ResetUnderWay, RefsArePublished, OneOpen,
        Clobbered, DropsAreLater, Running, TypeOK, ResetDestroyed, propVars,
        dataVars, boundVars, ghostVars
  <1>6. AwaitedByProvider' /\ OneRuns' /\ ShownIsCurrent'
    BY <1>1, NoneIsNoInit DEF IInv, AwaitedByProvider, OneRuns,
        ShownIsCurrent, Awaited, Running, Wanted, TypeOK, ResetDestroyed,
        propVars, dataVars, boundVars, ghostVars
  <1>7. DestroySettles'
    BY <1>1, NoneIsNoInit DEF IInv, DestroySettles, ResetUnderWay,
        RefsArePublished, OneOpen, Running, TypeOK, ResetDestroyed, propVars,
        dataVars, boundVars, ghostVars
  <1> QED BY <1>1, <1>2, <1>3, <1>4, <1>5, <1>6,
      <1>7 DEF IInv

(* The data of the databases matters to their type only.                   *)
LEMMA EditKeeps ==
  ASSUME IInv, Edit
  PROVE  IInv'
  <1>1. init' = init /\ Started' = Started /\ UsedInOrder' /\ ServersKnown'
    BY NoneStarted DEF IInv, ServersKnown, Edit
  <1>2. TypeOK'
    <2>1. init' \in [Inits -> InitRecord]
      BY <1>1 DEF IInv, TypeOK, InitRecord
    <2>2. /\ open' \subseteq Inits /\ closing' \subseteq open' /\ unsynced' \subseteq Servers
          /\ stranded' \subseteq Inits
      BY <1>1 DEF IInv, TypeOK, ServersKnown, OneOpen, Edit, propVars,
          refVars, boundVars, ghostVars
    <2>3. /\ mounted' \in BOOLEAN /\ usable' \in BOOLEAN /\ server' \in Servers
          /\ initRef' \in BOOLEAN /\ error' \in BOOLEAN
          /\ lost' \in BOOLEAN /\ overlap' \in BOOLEAN /\ abandoned' \in BOOLEAN
      BY <1>1, Zenon DEF IInv, TypeOK, Edit, propVars, refVars, boundVars,
          ghostVars
    <2>4. /\ dbRef' \in Inits \union {None} /\ shown' \in Inits \union {None}
          /\ existing' \in Inits \union {None}
          /\ reset' \in [step : {"idle", "destroy", "wipe"}, old : Inits \union {None}]
      BY <1>1 DEF IInv, TypeOK, Edit, propVars, refVars, boundVars, ghostVars
    <2>5. changes' \in Nat /\ resets' \in Nat /\ faults' \in Nat /\ lives' \in Nat
      BY <1>1 DEF IInv, TypeOK, Edit, propVars, refVars, boundVars, ghostVars
    <2> QED BY <2>1, <2>2, <2>3, <2>4, <2>5 DEF TypeOK, InitRecord
  <1>3. /\ ResetUnderWay' /\ RefsArePublished' /\ OneOpen' /\ Clobbered'
        /\ DropsAreLater'
    BY <1>1, NoneIsNoInit DEF IInv, ResetUnderWay, RefsArePublished, OneOpen,
        Clobbered, DropsAreLater, Running, TypeOK, Edit, propVars, refVars,
        boundVars, ghostVars
  <1>4. /\ AwaitedByProvider' /\ OneRuns' /\ ShownIsCurrent' /\ StaleRef'
        /\ Held'
    BY <1>1, NoneIsNoInit DEF IInv, AwaitedByProvider, OneRuns,
        ShownIsCurrent, StaleRef, Held, Awaited, Running, Wanted, TypeOK,
        Edit, propVars, refVars, boundVars, ghostVars
  <1>5. DestroySettles'
    BY <1>1, NoneIsNoInit DEF IInv, DestroySettles, ResetUnderWay,
        RefsArePublished, OneOpen, Running, TypeOK, Edit, propVars, refVars,
        boundVars, ghostVars
  <1> QED BY <1>1, <1>2, <1>3, <1>4,
      <1>5 DEF IInv

(* So it does when it is pushed.                                           *)
LEMMA PushedKeeps ==
  ASSUME IInv, NEW i \in Inits, Pushed(i)
  PROVE  IInv'
  <1>1. init' = init /\ Started' = Started /\ UsedInOrder' /\ ServersKnown'
    BY NoneStarted DEF IInv, ServersKnown, Pushed
  <1>2. TypeOK'
    BY <1>1, NoneIsNoInit DEF IInv, TypeOK, Pushed, propVars, refVars,
        boundVars, ghostVars
  <1>3. /\ ResetUnderWay' /\ RefsArePublished' /\ OneOpen' /\ Clobbered'
        /\ DropsAreLater'
    BY <1>1, NoneIsNoInit DEF IInv, ResetUnderWay, RefsArePublished, OneOpen,
        Clobbered, DropsAreLater, Running, TypeOK, Pushed, propVars, refVars,
        boundVars, ghostVars
  <1>4. /\ AwaitedByProvider' /\ OneRuns' /\ ShownIsCurrent' /\ StaleRef'
        /\ Held'
    BY <1>1, NoneIsNoInit DEF IInv, AwaitedByProvider, OneRuns,
        ShownIsCurrent, StaleRef, Held, Awaited, Running, Wanted, TypeOK,
        Pushed, propVars, refVars, boundVars, ghostVars
  <1>5. DestroySettles'
    BY <1>1, NoneIsNoInit DEF IInv, DestroySettles, ResetUnderWay,
        RefsArePublished, OneOpen, Running, TypeOK, Pushed, propVars,
        refVars, boundVars, ghostVars
  <1> QED BY <1>1, <1>2, <1>3, <1>4,
      <1>5 DEF IInv

(* A database whose destroy was under way is closed.                       *)
LEMMA ClosedKeeps ==
  ASSUME IInv, NEW i \in Inits, Closed(i)
  PROVE  IInv'
  <1>1. init' = init /\ Started' = Started /\ UsedInOrder' /\ ServersKnown'
    BY NoneStarted DEF IInv, ServersKnown, Closed
  <1>2. TypeOK'
    BY <1>1, NoneIsNoInit DEF IInv, TypeOK, Closed, propVars, refVars,
        dataVars, boundVars, ghostVars
  <1>3. OneOpen'
    BY <1>1, NoneIsNoInit DEF IInv, OneOpen, RefsArePublished, TypeOK,
        Closed, propVars, refVars, dataVars, boundVars, ghostVars
  <1>4. ShownIsCurrent'
    BY <1>1, NoneIsNoInit DEF IInv, ShownIsCurrent, RefsArePublished,
        OneRuns, AwaitedByProvider, Awaited, Running, Wanted, TypeOK, Closed,
        propVars, refVars, dataVars, boundVars, ghostVars
  <1>5. Held'
    BY <1>1, NoneIsNoInit DEF IInv, Held, DestroySettles, OneOpen,
        RefsArePublished, Clobbered, ShownIsCurrent, Running, TypeOK, Closed,
        propVars, refVars, dataVars, boundVars, ghostVars
  <1>6. /\ ResetUnderWay' /\ RefsArePublished' /\ Clobbered'
        /\ DropsAreLater'
    BY <1>1, NoneIsNoInit DEF IInv, ResetUnderWay, RefsArePublished,
        Clobbered, DropsAreLater, Running, TypeOK, Closed, propVars, refVars,
        dataVars, boundVars, ghostVars
  <1>7. AwaitedByProvider' /\ OneRuns' /\ StaleRef'
    BY <1>1, NoneIsNoInit DEF IInv, AwaitedByProvider, OneRuns, StaleRef,
        Awaited, Running, Wanted, TypeOK, Closed, propVars, refVars,
        dataVars, boundVars, ghostVars
  <1>8. DestroySettles'
    BY <1>1, NoneIsNoInit DEF IInv, DestroySettles, ResetUnderWay,
        RefsArePublished, OneOpen, Running, TypeOK, Closed, propVars,
        refVars, dataVars, boundVars, ghostVars
  <1> QED BY <1>1, <1>2, <1>3, <1>4, <1>5, <1>6, <1>7,
      <1>8 DEF IInv

(* Or it stays open, as its destroy failed.                                *)
LEMMA DestroyFailsKeeps ==
  ASSUME IInv, NEW i \in Inits, DestroyFails(i)
  PROVE  IInv'
  <1>1. init' = init /\ Started' = Started /\ UsedInOrder' /\ ServersKnown'
    BY NoneStarted DEF IInv, ServersKnown, DestroyFails, Fault, Strand
  <1>2. TypeOK'
    BY <1>1, NoneIsNoInit DEF IInv, TypeOK, DestroyFails, Fault, Strand,
        propVars, refVars, dataVars, boundVars, ghostVars
  <1>3. OneOpen'
    BY <1>1, NoneIsNoInit DEF IInv, OneOpen, RefsArePublished, TypeOK,
        DestroyFails, Fault, Strand, propVars, refVars, dataVars, boundVars,
        ghostVars
  <1>4. ShownIsCurrent'
    BY <1>1, NoneIsNoInit DEF IInv, ShownIsCurrent, RefsArePublished,
        OneRuns, AwaitedByProvider, Awaited, Running, Wanted, TypeOK,
        DestroyFails, Fault, Strand, propVars, refVars, dataVars, boundVars,
        ghostVars
  <1>5. Held'
    BY <1>1, NoneIsNoInit DEF IInv, Held, DestroySettles, OneOpen,
        RefsArePublished, Clobbered, ShownIsCurrent, Running, TypeOK,
        DestroyFails, Fault, Strand, propVars, refVars, dataVars, boundVars,
        ghostVars
  <1>6. /\ ResetUnderWay' /\ RefsArePublished' /\ Clobbered'
        /\ DropsAreLater'
    BY <1>1, NoneIsNoInit DEF IInv, ResetUnderWay, RefsArePublished,
        Clobbered, DropsAreLater, Running, TypeOK, DestroyFails, Fault,
        Strand, propVars, refVars, dataVars, boundVars, ghostVars
  <1>7. AwaitedByProvider' /\ OneRuns' /\ StaleRef'
    BY <1>1, NoneIsNoInit DEF IInv, AwaitedByProvider, OneRuns, StaleRef,
        Awaited, Running, Wanted, TypeOK, DestroyFails, Fault, Strand,
        propVars, refVars, dataVars, boundVars, ghostVars
  <1>8. DestroySettles'
    BY <1>1, NoneIsNoInit DEF IInv, DestroySettles, ResetUnderWay,
        RefsArePublished, OneOpen, Running, TypeOK, DestroyFails, Fault,
        Strand, propVars, refVars, dataVars, boundVars, ghostVars
  <1> QED BY <1>1, <1>2, <1>3, <1>4, <1>5, <1>6, <1>7,
      <1>8 DEF IInv

(* The previous instance is dropped.                                       *)
LEMMA DropKeeps ==
  ASSUME IInv, NEW i \in Inits, Drop(i)
  PROVE  IInv'
  <1>1. /\ init' \in [Inits -> InitRecord]
        /\ Started' = Started /\ UsedInOrder' /\ ServersKnown'
        /\ init[i].step = "drop" /\ init'[i].step = "open"
        /\ \A j \in Inits : j # i => init'[j].step = init[j].step
        /\ \A j \in Inits : init'[j].cancelled = init[j].cancelled
    BY StepTaken DEF IInv, Drop, Steps
  <1>2. TypeOK'
    <2>1. init' \in [Inits -> InitRecord]
      BY <1>1 DEF IInv, TypeOK, InitRecord
    <2>2. /\ open' \subseteq Inits /\ closing' \subseteq open' /\ unsynced' \subseteq Servers
          /\ stranded' \subseteq Inits
      BY <1>1 DEF IInv, TypeOK, Drop, Remove, Strand, Shut, Wipe, Fault,
          propVars, refVars, dataVars, boundVars, ghostVars, InitRecord
    <2>3. /\ mounted' \in BOOLEAN /\ usable' \in BOOLEAN /\ server' \in Servers
          /\ initRef' \in BOOLEAN /\ error' \in BOOLEAN
          /\ lost' \in BOOLEAN /\ overlap' \in BOOLEAN /\ abandoned' \in BOOLEAN
      BY <1>1, Zenon DEF IInv, TypeOK, Drop, Remove, Strand, Shut, Wipe,
          Fault, propVars, refVars, dataVars, boundVars, ghostVars,
          InitRecord
    <2>4. /\ dbRef' \in Inits \union {None} /\ shown' \in Inits \union {None}
          /\ existing' \in Inits \union {None}
          /\ reset' \in [step : {"idle", "destroy", "wipe"}, old : Inits \union {None}]
      BY <1>1 DEF IInv, TypeOK, Drop, Remove, Strand, Shut, Wipe, Fault,
          propVars, refVars, dataVars, boundVars, ghostVars, InitRecord
    <2>5. changes' \in Nat /\ resets' \in Nat /\ faults' \in Nat /\ lives' \in Nat
      BY <1>1 DEF IInv, TypeOK, Drop, Remove, Strand, Shut, Wipe, Fault,
          propVars, refVars, dataVars, boundVars, ghostVars, InitRecord
    <2> QED BY <2>1, <2>2, <2>3, <2>4, <2>5 DEF TypeOK, InitRecord
  <1>3. RefsArePublished'
    BY <1>1, NoneIsNoInit DEF IInv, RefsArePublished, OneOpen, TypeOK, Drop,
        Remove, Strand, Shut, Wipe, Fault, propVars, refVars, dataVars,
        boundVars, ghostVars, InitRecord
  <1>4. OneOpen'
    BY <1>1, NoneIsNoInit DEF IInv, OneOpen, RefsArePublished, TypeOK, Drop,
        Remove, Strand, Shut, Wipe, Fault, propVars, refVars, dataVars,
        boundVars, ghostVars, InitRecord
  <1>5. ShownIsCurrent'
    BY <1>1, NoneIsNoInit DEF IInv, ShownIsCurrent, RefsArePublished,
        OneRuns, AwaitedByProvider, Awaited, Running, Wanted, TypeOK, Drop,
        Remove, Strand, Shut, Wipe, Fault, propVars, refVars, dataVars,
        boundVars, ghostVars, InitRecord
  <1>6. Clobbered'
    BY <1>1, NoneIsNoInit DEF IInv, Clobbered, StaleRef, ShownIsCurrent,
        Awaited, Running, Wanted, TypeOK, Drop, Remove, Strand, Shut, Wipe,
        Fault, propVars, refVars, dataVars, boundVars, ghostVars, InitRecord
  <1>7. Held'
    BY <1>1, NoneIsNoInit DEF IInv, Held, DestroySettles, OneOpen,
        RefsArePublished, Clobbered, ShownIsCurrent, Running, TypeOK, Drop,
        Remove, Strand, Shut, Wipe, Fault, propVars, refVars, dataVars,
        boundVars, ghostVars, InitRecord
  <1>8. ResetUnderWay' /\ DropsAreLater'
    BY <1>1, NoneIsNoInit DEF IInv, ResetUnderWay, DropsAreLater, Running,
        TypeOK, Drop, Remove, Strand, Shut, Wipe, Fault, propVars, refVars,
        dataVars, boundVars, ghostVars, InitRecord
  <1>9. AwaitedByProvider' /\ OneRuns' /\ StaleRef'
    BY <1>1, NoneIsNoInit DEF IInv, AwaitedByProvider, OneRuns, StaleRef,
        Awaited, Running, Wanted, TypeOK, Drop, Remove, Strand, Shut, Wipe,
        Fault, propVars, refVars, dataVars, boundVars, ghostVars, InitRecord
  <1>10. DestroySettles'
    BY <1>1, NoneIsNoInit DEF IInv, DestroySettles, ResetUnderWay,
        RefsArePublished, OneOpen, Running, TypeOK, Drop, Remove, Strand,
        Shut, Wipe, Fault, propVars, refVars, dataVars, boundVars, ghostVars,
        InitRecord
  <1> QED BY <1>1, <1>2, <1>3, <1>4, <1>5, <1>6, <1>7, <1>8, <1>9,
      <1>10 DEF IInv

(* The database is opened, and every other closed.                         *)
LEMMA OpenKeeps ==
  ASSUME IInv, NEW i \in Inits, Open(i)
  PROVE  IInv'
  <1>1. /\ init' \in [Inits -> InitRecord]
        /\ Started' = Started /\ UsedInOrder' /\ ServersKnown'
        /\ init[i].step \in {"open", "reopen"}
        /\ init'[i].step \in {"fill", "refill"}
        /\ \A j \in Inits : j # i => init'[j].step = init[j].step
        /\ \A j \in Inits : init'[j].cancelled = init[j].cancelled
    BY StepTaken DEF IInv, Open, Steps
  <1>2. TypeOK'
    BY <1>1, NoneIsNoInit DEF IInv, TypeOK, Open, propVars, refVars,
        dataVars, boundVars, ghostVars, InitRecord
  <1>3. RefsArePublished'
    BY <1>1, NoneIsNoInit DEF IInv, RefsArePublished, OneOpen, TypeOK, Open,
        propVars, refVars, dataVars, boundVars, ghostVars, InitRecord
  <1>4. OneOpen'
    BY <1>1, NoneIsNoInit DEF IInv, OneOpen, RefsArePublished, TypeOK, Open,
        propVars, refVars, dataVars, boundVars, ghostVars, InitRecord
  <1>5. ShownIsCurrent'
    BY <1>1, NoneIsNoInit DEF IInv, ShownIsCurrent, RefsArePublished,
        OneRuns, AwaitedByProvider, Awaited, Running, Wanted, TypeOK, Open,
        propVars, refVars, dataVars, boundVars, ghostVars, InitRecord
  <1>6. Held'
    BY <1>1, NoneIsNoInit DEF IInv, Held, DestroySettles, OneOpen,
        RefsArePublished, Clobbered, ShownIsCurrent, Running, TypeOK, Open,
        propVars, refVars, dataVars, boundVars, ghostVars, InitRecord
  <1>7. ResetUnderWay' /\ Clobbered' /\ DropsAreLater'
    BY <1>1, NoneIsNoInit DEF IInv, ResetUnderWay, Clobbered, DropsAreLater,
        Running, TypeOK, Open, propVars, refVars, dataVars, boundVars,
        ghostVars, InitRecord
  <1>8. AwaitedByProvider' /\ OneRuns' /\ StaleRef'
    BY <1>1, NoneIsNoInit DEF IInv, AwaitedByProvider, OneRuns, StaleRef,
        Awaited, Running, Wanted, TypeOK, Open, propVars, refVars, dataVars,
        boundVars, ghostVars, InitRecord
  <1>9. DestroySettles'
    BY <1>1, NoneIsNoInit DEF IInv, DestroySettles, ResetUnderWay,
        RefsArePublished, OneOpen, Running, TypeOK, Open, propVars, refVars,
        dataVars, boundVars, ghostVars, InitRecord
  <1> QED BY <1>1, <1>2, <1>3, <1>4, <1>5, <1>6, <1>7, <1>8,
      <1>9 DEF IInv

(* A schema conflict closes it again.                                      *)
LEMMA SchemaConflictKeeps ==
  ASSUME IInv, NEW i \in Inits, SchemaConflict(i)
  PROVE  IInv'
  <1>1. /\ init' \in [Inits -> InitRecord]
        /\ Started' = Started /\ UsedInOrder' /\ ServersKnown'
        /\ init[i].step = "fill" /\ init'[i].step = "reopen"
        /\ \A j \in Inits : j # i => init'[j].step = init[j].step
        /\ \A j \in Inits : init'[j].cancelled = init[j].cancelled
    BY StepTaken DEF IInv, SchemaConflict, Steps
  <1>2. TypeOK'
    BY <1>1, NoneIsNoInit DEF IInv, TypeOK, SchemaConflict, Shut, Wipe,
        Fault, propVars, refVars, ghostVars, InitRecord
  <1>3. OneOpen'
    BY <1>1, NoneIsNoInit DEF IInv, OneOpen, RefsArePublished, TypeOK,
        SchemaConflict, Shut, Wipe, Fault, propVars, refVars, ghostVars,
        InitRecord
  <1>4. ShownIsCurrent'
    BY <1>1, NoneIsNoInit DEF IInv, ShownIsCurrent, RefsArePublished,
        OneRuns, AwaitedByProvider, Awaited, Running, Wanted, TypeOK,
        SchemaConflict, Shut, Wipe, Fault, propVars, refVars, ghostVars,
        InitRecord
  <1>5. Held'
    BY <1>1, NoneIsNoInit DEF IInv, Held, DestroySettles, OneOpen,
        RefsArePublished, Clobbered, ShownIsCurrent, Running, TypeOK,
        SchemaConflict, Shut, Wipe, Fault, propVars, refVars, ghostVars,
        InitRecord
  <1>6. /\ ResetUnderWay' /\ RefsArePublished' /\ Clobbered'
        /\ DropsAreLater'
    BY <1>1, NoneIsNoInit DEF IInv, ResetUnderWay, RefsArePublished,
        Clobbered, DropsAreLater, Running, TypeOK, SchemaConflict, Shut,
        Wipe, Fault, propVars, refVars, ghostVars, InitRecord
  <1>7. AwaitedByProvider' /\ OneRuns' /\ StaleRef'
    BY <1>1, NoneIsNoInit DEF IInv, AwaitedByProvider, OneRuns, StaleRef,
        Awaited, Running, Wanted, TypeOK, SchemaConflict, Shut, Wipe, Fault,
        propVars, refVars, ghostVars, InitRecord
  <1>8. DestroySettles'
    BY <1>1, NoneIsNoInit DEF IInv, DestroySettles, ResetUnderWay,
        RefsArePublished, OneOpen, Running, TypeOK, SchemaConflict, Shut,
        Wipe, Fault, propVars, refVars, ghostVars, InitRecord
  <1> QED BY <1>1, <1>2, <1>3, <1>4, <1>5, <1>6, <1>7,
      <1>8 DEF IInv

(* The init is done: what it opened is published, or closed.               *)
LEMMA PublishKeeps ==
  ASSUME IInv, NEW i \in Inits, Publish(i)
  PROVE  IInv'
  <1>1. /\ init' \in [Inits -> InitRecord]
        /\ Started' = Started /\ UsedInOrder' /\ ServersKnown'
        /\ init[i].step \in {"fill", "refill"} /\ init'[i].step = "done"
        /\ \A j \in Inits : j # i => init'[j].step = init[j].step
        /\ \A j \in Inits : init'[j].cancelled = init[j].cancelled
    BY StepTaken DEF IInv, Publish, Steps
  <1>2. TypeOK'
    BY <1>1, NoneIsNoInit DEF IInv, TypeOK, Publish, Discard, propVars,
        dataVars, boundVars, ghostVars, InitRecord
  <1>3. AwaitedByProvider'
    BY <1>1, NoneIsNoInit DEF IInv, AwaitedByProvider, Awaited, Running,
        Wanted, TypeOK, Publish, Discard, propVars, dataVars, boundVars,
        ghostVars, InitRecord
  <1>4. RefsArePublished'
    BY <1>1, NoneIsNoInit DEF IInv, RefsArePublished, OneOpen, TypeOK,
        Publish, Discard, propVars, dataVars, boundVars, ghostVars,
        InitRecord
  <1>5. OneOpen'
    BY <1>1, NoneIsNoInit DEF IInv, OneOpen, RefsArePublished, TypeOK,
        Publish, Discard, propVars, dataVars, boundVars, ghostVars,
        InitRecord
  <1>6. ShownIsCurrent'
    <2>1. /\ i \in open /\ Running(i)
          /\ \A j \in Inits : Running(j)' => Running(j) /\ j # i
          /\ UNCHANGED <<mounted, initRef, reset, open, overlap>>
      BY <1>1 DEF Publish, Running, propVars, ghostVars
    <2>2. CASE Wanted(i)
      <3>1. dbRef' = i /\ shown' = i /\ closing' = closing
        BY <2>2 DEF Publish
      <3>2. mounted /\ initRef /\ i \notin closing
        BY <2>1, <2>2, NoneIsNoInit
           DEF IInv, AwaitedByProvider, RefsArePublished, Awaited, Running, Wanted
      <3>3. ~overlap => \A j \in Inits : ~Running(j)'
        BY <2>1 DEF IInv, OneRuns
      <3> QED BY <2>1, <3>1, <3>2, <3>3 DEF ShownIsCurrent
    <2>3. CASE ~Wanted(i)
      <3>1. dbRef' = dbRef /\ shown' = shown /\ closing' = closing \union {i}
        BY <2>3 DEF Publish, Discard
      <3>2. shown # None /\ ~overlap => FALSE
        BY <2>1 DEF IInv, ShownIsCurrent
      <3> QED BY <2>1, <3>1, <3>2 DEF IInv, ShownIsCurrent
    <2> QED BY <2>2, <2>3
  <1>7. StaleRef'
    BY <1>1, NoneIsNoInit DEF IInv, StaleRef, AwaitedByProvider,
        ResetUnderWay, Awaited, Running, Wanted, TypeOK, Publish, Discard,
        propVars, dataVars, boundVars, ghostVars, InitRecord
  <1>8. Clobbered'
    BY <1>1, NoneIsNoInit DEF IInv, Clobbered, StaleRef, ShownIsCurrent,
        Awaited, Running, Wanted, TypeOK, Publish, Discard, propVars,
        dataVars, boundVars, ghostVars, InitRecord
  <1>9. Held'
    BY <1>1, NoneIsNoInit DEF IInv, Held, DestroySettles, OneOpen,
        RefsArePublished, Clobbered, ShownIsCurrent, Running, TypeOK,
        Publish, Discard, propVars, dataVars, boundVars, ghostVars,
        InitRecord
  <1>10. DropsAreLater'
    BY <1>1, NoneIsNoInit DEF IInv, DropsAreLater, Running, TypeOK, Publish,
        Discard, propVars, dataVars, boundVars, ghostVars, InitRecord
  <1>11. ResetUnderWay'
    BY <1>1, NoneIsNoInit DEF IInv, ResetUnderWay, TypeOK, Publish, Discard,
        propVars, dataVars, boundVars, ghostVars, InitRecord
  <1>12. OneRuns'
    BY <1>1, NoneIsNoInit DEF IInv, OneRuns, Running, TypeOK, Publish,
        Discard, propVars, dataVars, boundVars, ghostVars, InitRecord
  <1>13. DestroySettles'
    BY <1>1, NoneIsNoInit DEF IInv, DestroySettles, ResetUnderWay,
        RefsArePublished, OneOpen, Running, TypeOK, Publish, Discard,
        propVars, dataVars, boundVars, ghostVars, InitRecord
  <1> QED BY <1>1, <1>2, <1>3, <1>4, <1>5, <1>6, <1>7, <1>8, <1>9, <1>10,
      <1>11, <1>12,
      <1>13 DEF IInv

(* The init fails.                                                         *)
LEMMA FailKeeps ==
  ASSUME IInv, NEW i \in Inits, Fail(i)
  PROVE  IInv'
  <1>1. /\ init' \in [Inits -> InitRecord]
        /\ Started' = Started /\ UsedInOrder' /\ ServersKnown'
        /\ init[i].step \in {"open", "reopen", "fill", "refill"} /\ init'[i].step = "done"
        /\ \A j \in Inits : j # i => init'[j].step = init[j].step
        /\ \A j \in Inits : init'[j].cancelled = init[j].cancelled
    BY StepTaken DEF IInv, Fail, Steps
  <1>2. TypeOK'
    BY <1>1, NoneIsNoInit DEF IInv, TypeOK, Fail, Fault, Strand, propVars,
        dataVars, boundVars, ghostVars, InitRecord
  <1>3. AwaitedByProvider'
    BY <1>1, NoneIsNoInit DEF IInv, AwaitedByProvider, Awaited, Running,
        Wanted, TypeOK, Fail, Fault, Strand, propVars, dataVars, boundVars,
        ghostVars, InitRecord
  <1>4. ShownIsCurrent'
    BY <1>1, NoneIsNoInit DEF IInv, ShownIsCurrent, RefsArePublished,
        OneRuns, AwaitedByProvider, Awaited, Running, Wanted, TypeOK, Fail,
        Fault, Strand, propVars, dataVars, boundVars, ghostVars, InitRecord
  <1>5. StaleRef'
    BY <1>1, NoneIsNoInit DEF IInv, StaleRef, AwaitedByProvider,
        ResetUnderWay, Awaited, Running, Wanted, TypeOK, Fail, Fault, Strand,
        propVars, dataVars, boundVars, ghostVars, InitRecord
  <1>6. Held'
    BY <1>1, NoneIsNoInit DEF IInv, Held, DestroySettles, OneOpen,
        RefsArePublished, Clobbered, ShownIsCurrent, Running, TypeOK, Fail,
        Fault, Strand, propVars, dataVars, boundVars, ghostVars, InitRecord
  <1>7. /\ ResetUnderWay' /\ RefsArePublished' /\ OneOpen' /\ Clobbered'
        /\ DropsAreLater'
    BY <1>1, NoneIsNoInit DEF IInv, ResetUnderWay, RefsArePublished, OneOpen,
        Clobbered, DropsAreLater, Running, TypeOK, Fail, Fault, Strand,
        propVars, dataVars, boundVars, ghostVars, InitRecord
  <1>8. OneRuns'
    BY <1>1, NoneIsNoInit DEF IInv, OneRuns, Running, TypeOK, Fail, Fault,
        Strand, propVars, dataVars, boundVars, ghostVars, InitRecord
  <1>9. DestroySettles'
    BY <1>1, NoneIsNoInit DEF IInv, DestroySettles, ResetUnderWay,
        RefsArePublished, OneOpen, Running, TypeOK, Fail, Fault, Strand,
        propVars, dataVars, boundVars, ghostVars, InitRecord
  <1> QED BY <1>1, <1>2, <1>3, <1>4, <1>5, <1>6, <1>7, <1>8,
      <1>9 DEF IInv

(* The app starts again: nothing runs and nothing is open.                 *)
LEMMA RestartKeeps ==
  ASSUME IInv, Restart
  PROVE  IInv'
  <1>1. /\ init' \in [Inits -> InitRecord]
        /\ \A i \in Inits : ~Running(i)'
        /\ \A i \in Inits : init'[i].step # "none" <=> init[i].step # "none"
        /\ \A i \in Inits : init'[i].server = init[i].server
    BY DEF IInv, Restart, TypeOK, Running, InitRecord, Steps
  <1>2. Started' = Started /\ UsedInOrder' /\ ServersKnown'
    BY <1>1, NoneStarted DEF IInv, ServersKnown
  <1>3. TypeOK'
    <2>1. init' \in [Inits -> InitRecord]
      BY <1>1, <1>2 DEF IInv, TypeOK, InitRecord
    <2>2. /\ open' \subseteq Inits /\ closing' \subseteq open' /\ unsynced' \subseteq Servers
          /\ stranded' \subseteq Inits
      BY <1>1, <1>2 DEF IInv, TypeOK, Restart, Fault, dataVars, InitRecord
    <2>3. /\ mounted' \in BOOLEAN /\ usable' \in BOOLEAN /\ server' \in Servers
          /\ initRef' \in BOOLEAN /\ error' \in BOOLEAN
          /\ lost' \in BOOLEAN /\ overlap' \in BOOLEAN /\ abandoned' \in BOOLEAN
      BY <1>1, <1>2, Zenon DEF IInv, TypeOK, Restart, Fault, dataVars,
          InitRecord
    <2>4. /\ dbRef' \in Inits \union {None} /\ shown' \in Inits \union {None}
          /\ existing' \in Inits \union {None}
          /\ reset' \in [step : {"idle", "destroy", "wipe"}, old : Inits \union {None}]
      BY <1>1, <1>2 DEF IInv, TypeOK, Restart, Fault, dataVars, InitRecord
    <2>5. changes' \in Nat /\ resets' \in Nat /\ faults' \in Nat /\ lives' \in Nat
      BY <1>1, <1>2 DEF IInv, TypeOK, Restart, Fault, dataVars, InitRecord
    <2> QED BY <2>1, <2>2, <2>3, <2>4, <2>5 DEF TypeOK, InitRecord
  <1>4. /\ ResetUnderWay' /\ RefsArePublished' /\ OneOpen' /\ Clobbered'
        /\ DropsAreLater'
    BY <1>1, <1>2, NoneIsNoInit DEF IInv, ResetUnderWay, RefsArePublished,
        OneOpen, Clobbered, DropsAreLater, Running, TypeOK, Restart, Fault,
        dataVars, InitRecord
  <1>5. /\ AwaitedByProvider' /\ OneRuns' /\ ShownIsCurrent' /\ StaleRef'
        /\ Held'
    BY <1>1, <1>2, NoneIsNoInit DEF IInv, AwaitedByProvider, OneRuns,
        ShownIsCurrent, StaleRef, Held, Awaited, Running, Wanted, TypeOK,
        Restart, Fault, dataVars, InitRecord
  <1>6. DestroySettles'
    BY <1>1, <1>2, NoneIsNoInit DEF IInv, DestroySettles, ResetUnderWay,
        RefsArePublished, OneOpen, Running, TypeOK, Restart, Fault, dataVars,
        InitRecord
  <1> QED BY <1>2, <1>3, <1>4, <1>5,
      <1>6 DEF IInv

LEMMA InitHolds == Init => IInv
  <1> SUFFICES ASSUME Init PROVE IInv
    OBVIOUS
  <1>1. TypeOK
    BY DEF Init, TypeOK, NoInit, Steps
  <1>2. UsedInOrder
    <2>1. 0 \in 0..MaxInits /\ \A i \in Inits : ~(i <= 0)
      BY BoundsAssumption DEF Inits
    <2> QED BY <2>1 DEF Init, NoInit, UsedInOrder
  <1>3. \A i \in Inits : init[i].step = "none" /\ ~Running(i) /\ ~Awaited(i)
    BY DEF Init, NoInit, Running, Awaited
  <1> QED
    BY <1>1, <1>2, <1>3, NoneIsNoInit DEF Init, IInv, ServersKnown,
        ResetUnderWay, AwaitedByProvider, OneRuns, RefsArePublished, OneOpen,
        ShownIsCurrent, StaleRef, Clobbered, DestroySettles, Held,
        DropsAreLater

LEMMA StepKeeps == IInv /\ [Next]_vars => IInv'
  <1> SUFFICES ASSUME IInv, [Next]_vars PROVE IInv'
    OBVIOUS
  <1>1. ASSUME NEW s \in Servers, NEW ok \in BOOLEAN, Mount(s, ok) PROVE IInv'
    BY <1>1, MountKeeps
  <1>2. ASSUME NEW ok \in BOOLEAN, Change(ok) PROVE IInv'
    BY <1>2, ChangeKeeps
  <1>3. ASSUME NEW i \in Inits, InitStep(i) PROVE IInv'
    BY <1>3, DropKeeps, OpenKeeps, SchemaConflictKeeps, PublishKeeps, FailKeeps
       DEF InitStep
  <1>4. ASSUME NEW i \in Inits, Closed(i) \/ DestroyFails(i) \/ Pushed(i) PROVE IInv'
    BY <1>4, ClosedKeeps, DestroyFailsKeeps, PushedKeeps
  <1>5. CASE Unmount \/ ResetBegin \/ Edit \/ ResetStep \/ Restart
    BY <1>5, UnmountKeeps, ResetBeginKeeps, EditKeeps, ResetDestroyedKeeps,
       ResetWipedKeeps, RestartKeeps DEF ResetStep
  <1>6. CASE UNCHANGED vars
    BY <1>6 DEF vars, propVars, refVars, dataVars, boundVars, ghostVars,
        IInv, TypeOK, UsedInOrder, ServersKnown, ResetUnderWay,
        AwaitedByProvider, OneRuns, RefsArePublished, OneOpen,
        ShownIsCurrent, StaleRef, Clobbered, DestroySettles, Held,
        DropsAreLater, Awaited, Running, Wanted, Started
  <1> QED BY <1>1, <1>2, <1>3, <1>4, <1>5, <1>6 DEF Next, User

THEOREM Invariance == Spec => []IInv
  BY InitHolds, StepKeeps, PTL DEF Spec

-----------------------------------------------------------------------------
(* Every variable has its type.                                            *)
THEOREM TypeCorrect == Spec => []TypeOK
  BY Invariance, PTL DEF IInv

(* As long as inits do not overlap, what LocalDBProvider shows to the      *)
(* components is an open database, reset or not yet under way.             *)
THEOREM ReadyStaysOpen == Spec => []ReadyIsOpen
  <1>1. IInv => ReadyIsOpen
    BY DEF IInv, ShownIsCurrent, ReadyIsOpen
  <1> QED BY <1>1, Invariance, PTL

(* When everything awaited has settled, no database is open that the       *)
(* provider's cleanup does not destroy, but those that a createLocalDB     *)
(* that threw or a destroy that failed left open.                          *)
THEOREM NoDatabaseLeaks == Spec => []NoLeakedDatabase
  <1>1. IInv => NoLeakedDatabase
    BY DEF IInv, Held, NoLeakedDatabase, Settled, TypeOK
  <1> QED BY <1>1, Invariance, PTL

(* Unsynced edits are wiped by a reset, a schema conflict or a second      *)
(* createLocalDB of one run of the app, and by nothing else: not by the    *)
(* first createLocalDB after a restart, nor by a token refresh that finds  *)
(* initRef set.                                                            *)
THEOREM EditsAreKept == Spec => EditsSurvive
  <1> DEFINE Kept == ~lost /\ lost' => lives > 1 \/ reset.step = "wipe" \/ faults' > faults
  <1>1. ASSUME IInv, [Next]_vars PROVE [Kept]_vars
    <2> SUFFICES ASSUME ~lost, lost'
                 PROVE  lives > 1 \/ reset.step = "wipe" \/ faults' > faults
      BY DEF Kept
    <2>1. ASSUME NEW i \in Inits, Drop(i) PROVE lives > 1
      BY <1>1, <2>1 DEF Drop, IInv, DropsAreLater
    <2>2. ASSUME NEW i \in Inits, SchemaConflict(i) PROVE faults' > faults
      BY <1>1, <2>2 DEF SchemaConflict, Fault, IInv, TypeOK
    <2>3. CASE ResetWiped
      BY <2>3 DEF ResetWiped
    <2>4. ASSUME NEW i \in Inits, \/ Open(i) \/ Publish(i) \/ Fail(i) \/ Closed(i)
                               \/ DestroyFails(i) \/ Pushed(i)
          PROVE  lost' = lost
      BY <2>4 DEF Open, Publish, Fail, Closed, DestroyFails, Pushed, dataVars
    <2>5. ASSUME NEW ok \in BOOLEAN, Change(ok) \/ \E s \in Servers : Mount(s, ok)
          PROVE  lost' = lost
      BY <2>5 DEF Mount, Change, dataVars
    <2>6. CASE Unmount \/ ResetBegin \/ Edit \/ ResetDestroyed \/ Restart
      BY <2>6 DEF Unmount, ResetBegin, Edit, ResetDestroyed, Restart, dataVars
    <2>7. CASE UNCHANGED vars
      BY <2>7 DEF vars, dataVars
    <2> QED
      <3>1. CASE \E i \in Inits : InitStep(i) \/ Closed(i) \/ DestroyFails(i) \/ Pushed(i)
        BY <3>1, <2>1, <2>2, <2>4, Zenon DEF InitStep
      <3>2. CASE User
        BY <3>2, <2>5, <2>6, Zenon DEF User
      <3>3. CASE ResetStep \/ Restart
        BY <3>3, <2>3, <2>6, Zenon DEF ResetStep
      <3> QED BY <1>1, <2>7, <3>1, <3>2, <3>3, Zenon DEF Next
  <1>2. IInv /\ [Next]_vars => [Kept]_vars
    BY <1>1
  <1> QED BY <1>2, Invariance, PTL DEF Spec, EditsSurvive

=============================================================================
