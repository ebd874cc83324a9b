---------------------- MODULE MetadataCatalog_proofs ----------------------
(* Proofs about MetadataCatalog, for every number of requests and *)
(* administrators, every TTL and every bound.                     *)
EXTENDS MetadataCatalog, TLAPS

\* A request holds a draft only while it runs ReadAllAsync: fewer than three
\* answers while it queries, all three when it stores them.
DraftInv ==
    \A c \in Callers :
        /\ pc[c] = "query" => Len(draft[c].read) < 3
        /\ pc[c] = "store" => Len(draft[c].read) = 3
        /\ pc[c] \notin {"query", "store"} => draft[c] = NoDraft

TypeInv == TypeOK /\ DraftInv

\* The initial state has its types.
LEMMA InitType == Init => TypeInv
BY ConstantsAssumption
   DEF Init, TypeInv, TypeOK, DraftInv, Times, Versions, Epochs, NoDraft,
       Locations, FirstCheck, SecondCheck, Reload, InsideGate

\* The bounds of the constants leave room for the initial values.
LEMMA Zeros == 0 \in Times /\ 0 \in Versions /\ 0 \in Epochs
BY ConstantsAssumption DEF Times, Versions, Epochs

\* A request that has run no query has a well-typed, empty draft.
LEMMA NoDraftType ==
    NoDraft \in [read : Seq(Versions), since : Epochs] /\ Len(NoDraft.read) = 0
BY ConstantsAssumption DEF NoDraft, Versions, Epochs

\* RunQuery counts to three: a request never runs a fourth query, and what
\* Publish stores is the result of exactly three.
LEMMA DraftStep == TypeInv /\ GateInv /\ [Next]_vars => DraftInv'
<1> SUFFICES ASSUME TypeInv, GateInv, [Next]_vars PROVE DraftInv'
  OBVIOUS
<1>a. /\ pc \in [Callers -> Locations]
      /\ draft \in [Callers -> [read : Seq(Versions), since : Epochs]]
      /\ schema \in Versions
      /\ waiters \in Seq(Callers)
      /\ DraftInv
  BY DEF TypeInv, TypeOK
<1> USE <1>a, NoDraftType DEF DraftInv, Goto, fields, gate, observed
<1>1. CASE Tick \/ AlterSchema
  BY <1>1 DEF Tick, AlterSchema
<1>2. ASSUME NEW c \in Callers, CheckWithoutGate(c) PROVE DraftInv'
  BY <1>2 DEF CheckWithoutGate, SeeCache, SeeClock, JudgeAge, Take
<1>3. ASSUME NEW c \in Callers, CheckInsideGate(c) PROVE DraftInv'
  <2>1. CASE SeeCache(c, "look2", "clock2", "query")
    <3>1. Len(draft[c].read) = 0
      BY <2>1 DEF SeeCache
    <3> QED BY <2>1, <3>1 DEF SeeCache
  <2>2. CASE SeeClock(c, "clock2", "judge2")
    BY <2>2 DEF SeeClock
  <2>3. CASE JudgeAge(c, "judge2", "take2", "query")
    <3>1. Len(draft[c].read) = 0
      BY <2>3 DEF JudgeAge
    <3> QED BY <2>3, <3>1 DEF JudgeAge
  <2>4. CASE Take(c, "take2", "release")
    BY <2>4 DEF Take
  <2> QED BY <1>3, <2>1, <2>2, <2>3, <2>4 DEF CheckInsideGate
<1>4. ASSUME NEW c \in Callers, GetAllObjects(c) PROVE DraftInv'
  BY <1>4 DEF GetAllObjects
<1>5. ASSUME NEW c \in Callers, EnterGate(c) PROVE DraftInv'
  BY <1>5 DEF EnterGate
<1>6. ASSUME NEW c \in Callers, CancelEntry(c) PROVE DraftInv'
  BY <1>6 DEF CancelEntry
<1>7. ASSUME NEW c \in Callers, Release(c) PROVE DraftInv'
  <2>1. CASE waiters = <<>>
    BY <1>7, <2>1 DEF Release
  <2>2. CASE waiters # <<>>
    <3>1. 1 \in DOMAIN waiters /\ Head(waiters) = waiters[1]
      BY <2>2
    <3>2. pc[Head(waiters)] = "wait"
      BY <3>1 DEF GateInv
    <3> QED BY <1>7, <2>2, <3>1, <3>2 DEF Release
  <2> QED BY <2>1, <2>2
<1>8. ASSUME NEW c \in Callers, RunQuery(c) PROVE DraftInv'
  BY <1>8 DEF RunQuery
<1>9. ASSUME NEW c \in Callers, QueryFails(c) \/ StoreCache(c) \/ StampCache(c)
      PROVE  DraftInv'
  BY <1>9 DEF QueryFails, StoreCache, StampCache
<1>10. ASSUME NEW c \in Callers, TakeLoaded(c) \/ Return(c) PROVE DraftInv'
  BY <1>10 DEF TakeLoaded, Take, Return
<1>11. ASSUME NEW r \in Refreshers, ClearCache(r) \/ ClearLoadedAt(r) PROVE DraftInv'
  BY <1>11 DEF ClearCache, ClearLoadedAt
<1>12. CASE UNCHANGED vars
  BY <1>12 DEF vars
<1> QED
  BY <1>1, <1>2, <1>3, <1>4, <1>5, <1>6, <1>7, <1>8, <1>9, <1>10, <1>11, <1>12
     DEF Next, Proceed, Publish

\* Where a request may be, spelled out for the steps that move one.
LEMMA AllLocations ==
    \A l \in {"idle", "look1", "clock1", "judge1", "take1", "enter", "wait",
             "look2", "clock2", "judge2", "take2", "query", "store", "stamp",
             "takeLoaded", "release", "done"} : l \in Locations
BY DEF Locations, FirstCheck, SecondCheck, Reload, InsideGate

\* What RemoveAt leaves of a sequence.
LEMMA RemoveAtSeq ==
    ASSUME NEW S, NEW s \in Seq(S), NEW i \in DOMAIN s
    PROVE  /\ RemoveAt(s, i) \in Seq(S)
           /\ DOMAIN RemoveAt(s, i) = 1..(Len(s) - 1)
           /\ \A j \in 1..(Len(s) - 1) :
                 RemoveAt(s, i)[j] = IF j < i THEN s[j] ELSE s[j + 1]
<1>1. i \in 1..Len(s) /\ Len(s) \in Nat
  OBVIOUS
<1> DEFINE before == SubSeq(s, 1, i - 1)
           after  == SubSeq(s, i + 1, Len(s))
<1>2. before \in Seq(S) /\ after \in Seq(S)
  BY <1>1
<1>3. Len(before) = i - 1 /\ Len(after) = Len(s) - i
  BY <1>1
<1>4. /\ \A j \in 1..(i - 1) : before[j] = s[j]
      /\ \A j \in 1..(Len(s) - i) : after[j] = s[i + j]
  BY <1>1
<1> HIDE DEF before, after
<1>5. /\ before \o after \in Seq(S)
      /\ Len(before \o after) = Len(s) - 1
      /\ \A j \in 1..(Len(s) - 1) :
            (before \o after)[j] = IF j < i THEN before[j] ELSE after[j - i + 1]
  BY <1>1, <1>2, <1>3
<1>6. RemoveAt(s, i) = before \o after
  BY DEF RemoveAt, before, after
<1>7. ASSUME NEW j \in 1..(Len(s) - 1)
      PROVE  RemoveAt(s, i)[j] = IF j < i THEN s[j] ELSE s[j + 1]
  <2>1. CASE j < i
    BY <1>1, <1>4, <1>5, <1>6, <2>1
  <2>2. CASE ~(j < i)
    <3>1. j - i + 1 \in 1..(Len(s) - i) /\ i + (j - i + 1) = j + 1
      BY <1>1, <2>2
    <3>2. after[j - i + 1] = s[i + (j - i + 1)]
      BY <1>4, <3>1
    <3> QED BY <1>5, <1>6, <2>2, <3>1, <3>2
  <2> QED BY <2>1, <2>2
<1>8. DOMAIN RemoveAt(s, i) = 1..(Len(s) - 1)
  BY <1>5, <1>6
<1> QED BY <1>5, <1>6, <1>7, <1>8

\* A sequence of three is a function on 1..3.
LEMMA TripleType ==
    ASSUME NEW S, NEW s \in Seq(S), Len(s) = 3
    PROVE  s \in [1..3 -> S]
OBVIOUS

\* The head and the tail of a nonempty sequence.
LEMMA HeadTailType ==
    ASSUME NEW S, NEW s \in Seq(S), s # <<>>
    PROVE  Head(s) \in S /\ Tail(s) \in Seq(S)
OBVIOUS

\* Every step keeps the types.
LEMMA TypeStep == TypeInv /\ [Next]_vars => TypeOK'
<1> SUFFICES ASSUME TypeInv, [Next]_vars PROVE TypeOK'
  OBVIOUS
<1> USE ConstantsAssumption, AllLocations, Zeros
        DEF TypeInv, TypeOK, Goto, fields, gate, observed
<1>1. CASE Tick
  BY <1>1 DEF Tick, Times
<1>2. CASE AlterSchema
  BY <1>2 DEF AlterSchema, Versions
<1>3. ASSUME NEW c \in Callers, CheckWithoutGate(c) PROVE TypeOK'
  <2>1. CASE SeeCache(c, "look1", "clock1", "enter")
    BY <2>1 DEF SeeCache
  <2>2. CASE SeeClock(c, "clock1", "judge1")
    BY <2>2 DEF SeeClock
  <2>3. CASE JudgeAge(c, "judge1", "take1", "enter")
    BY <2>3 DEF JudgeAge
  <2>4. CASE Take(c, "take1", "done")
    BY <2>4 DEF Take
  <2> QED BY <1>3, <2>1, <2>2, <2>3, <2>4 DEF CheckWithoutGate
<1>4. ASSUME NEW c \in Callers, CheckInsideGate(c) PROVE TypeOK'
  <2>1. CASE SeeCache(c, "look2", "clock2", "query")
    BY <2>1 DEF SeeCache
  <2>2. CASE SeeClock(c, "clock2", "judge2")
    BY <2>2 DEF SeeClock
  <2>3. CASE JudgeAge(c, "judge2", "take2", "query")
    BY <2>3 DEF JudgeAge
  <2>4. CASE Take(c, "take2", "release")
    BY <2>4 DEF Take
  <2> QED BY <1>4, <2>1, <2>2, <2>3, <2>4 DEF CheckInsideGate
<1>5. ASSUME NEW c \in Callers, GetAllObjects(c) PROVE TypeOK'
  BY <1>5 DEF GetAllObjects
<1>6. ASSUME NEW c \in Callers, EnterGate(c) PROVE TypeOK'
  <2>1. pc' \in [Callers -> Locations]
    BY <1>6 DEF EnterGate
  <2>2. permits' \in Nat
    BY <1>6 DEF EnterGate
  <2>3. Append(waiters, c) \in Seq(Callers)
    OBVIOUS
  <2>4. waiters' \in Seq(Callers)
    BY <1>6, <2>3 DEF EnterGate
  <2> QED BY <1>6, <2>1, <2>2, <2>4 DEF EnterGate
<1>7. ASSUME NEW c \in Callers, CancelEntry(c) PROVE TypeOK'
  <2>1. CASE Goto(c, "enter", "done")
    BY <1>7, <2>1 DEF CancelEntry
  <2>2. CASE Goto(c, "wait", "done")
    <3>1. PICK i \in DOMAIN waiters : waiters' = RemoveAt(waiters, i)
      BY <1>7, <2>2 DEF CancelEntry
    <3>2. waiters' \in Seq(Callers)
      BY <3>1, RemoveAtSeq
    <3> QED BY <1>7, <2>2, <3>2 DEF CancelEntry
  <2> QED BY <1>7, <2>1, <2>2 DEF CancelEntry
<1>8. ASSUME NEW c \in Callers, Release(c) PROVE TypeOK'
  <2>1. waiters # <<>> => Head(waiters) \in Callers /\ Tail(waiters) \in Seq(Callers)
    BY HeadTailType
  <2>2. permits' \in Nat
    BY <1>8 DEF Release
  <2>4. waiters' \in Seq(Callers)
    BY <1>8, <2>1 DEF Release
  <2>3. pc' \in [Callers -> Locations]
    BY <1>8, <2>1 DEF Release
  <2> QED BY <1>8, <2>2, <2>3, <2>4 DEF Release
<1>9. ASSUME NEW c \in Callers, RunQuery(c) PROVE TypeOK'
  <2>1. Append(draft[c].read, schema) \in Seq(Versions)
    OBVIOUS
  <2> QED BY <1>9, <2>1 DEF RunQuery
<1>10. ASSUME NEW c \in Callers, QueryFails(c) PROVE TypeOK'
  BY <1>10, NoDraftType DEF QueryFails
<1>11. ASSUME NEW c \in Callers, StoreCache(c) PROVE TypeOK'
  <2>1. Len(draft[c].read) = 3
    BY <1>11 DEF StoreCache, DraftInv
  <2>2. draft[c].read \in [1..3 -> Versions]
    BY <2>1, TripleType
  <2>3. cache' \in Catalogues
    BY <1>11, <2>2 DEF StoreCache, Catalogues
  <2> QED BY <1>11, <2>3, NoDraftType DEF StoreCache
<1>12. ASSUME NEW c \in Callers, StampCache(c) PROVE TypeOK'
  BY <1>12 DEF StampCache
<1>13. ASSUME NEW c \in Callers, TakeLoaded(c) PROVE TypeOK'
  BY <1>13 DEF TakeLoaded, Take
<1>14. ASSUME NEW c \in Callers, Return(c) PROVE TypeOK'
  <2>1. served' \in Versions
    BY <1>14 DEF Return, Catalogues
  <2> QED BY <1>14, <2>1 DEF Return
<1>15. ASSUME NEW r \in Refreshers, ClearCache(r) PROVE TypeOK'
  BY <1>15 DEF ClearCache, Epochs
<1>16. ASSUME NEW r \in Refreshers, ClearLoadedAt(r) PROVE TypeOK'
  BY <1>16 DEF ClearLoadedAt
<1>17. CASE UNCHANGED vars
  BY <1>17 DEF vars
<1> QED
  BY <1>1, <1>2, <1>3, <1>4, <1>5, <1>6, <1>7, <1>8, <1>9, <1>10, <1>11,
     <1>12, <1>13, <1>14, <1>15, <1>16, <1>17 DEF Next, Proceed, Publish

---------------------------------------------------------------------------
(* The gate *)

\* Which places are between WaitAsync and Release, spelled out.
LEMMA InsideLocations ==
    /\ \A l \in {"look2", "clock2", "judge2", "take2", "query", "store",
                 "stamp", "takeLoaded", "release"} : l \in InsideGate
    /\ \A l \in {"idle", "look1", "clock1", "judge1", "take1", "enter",
                 "wait", "done"} : l \notin InsideGate
BY DEF SecondCheck, Reload, InsideGate

\* A step of one request that neither enters, leaves nor queues.
LEMMA MoveStep ==
    ASSUME TypeInv, GateInv, SingleReload, UNCHANGED gate,
           NEW c \in Callers, NEW l \in Locations,
           pc[c] # "wait", l # "wait",
           l \in InsideGate <=> pc[c] \in InsideGate,
           pc' = [pc EXCEPT ![c] = l]
    PROVE  GateInv' /\ SingleReload'
<1>1. pc \in [Callers -> Locations]
  BY DEF TypeInv, TypeOK
<1>2. \A d \in Callers : /\ pc'[d] \in InsideGate <=> pc[d] \in InsideGate
                         /\ pc'[d] = "wait" <=> pc[d] = "wait"
  BY <1>1
<1>3. UNCHANGED <<permits, waiters>>
  BY DEF gate
<1> QED BY <1>2, <1>3 DEF GateInv, SingleReload

\* Every step keeps the gate and its queue consistent: EnterGate, CancelEntry
\* and Release are the ones that matter.
LEMMA GateStep ==
    TypeInv /\ GateInv /\ SingleReload /\ [Next]_vars => GateInv' /\ SingleReload'
<1> SUFFICES ASSUME TypeInv, GateInv, SingleReload, [Next]_vars
             PROVE  GateInv' /\ SingleReload'
  OBVIOUS
<1>a. /\ pc \in [Callers -> Locations]
      /\ waiters \in Seq(Callers)
      /\ permits \in Nat
  BY DEF TypeInv, TypeOK
<1> USE <1>a, AllLocations, InsideLocations
<1>1. CASE Tick \/ AlterSchema \/ UNCHANGED vars
  <2>1. UNCHANGED <<pc, permits, waiters>>
    BY <1>1 DEF Tick, AlterSchema, vars, gate
  <2> QED BY <2>1 DEF GateInv, SingleReload
<1>2. ASSUME NEW r \in Refreshers, ClearCache(r) \/ ClearLoadedAt(r)
      PROVE  GateInv' /\ SingleReload'
  <2>1. UNCHANGED <<pc, permits, waiters>>
    BY <1>2 DEF ClearCache, ClearLoadedAt, gate
  <2> QED BY <2>1 DEF GateInv, SingleReload
<1>3. ASSUME NEW c \in Callers, CheckWithoutGate(c)
      PROVE  GateInv' /\ SingleReload'
  <2>1. PICK l \in {"enter", "clock1", "judge1", "take1", "done"} :
           pc' = [pc EXCEPT ![c] = l]
    BY <1>3 DEF CheckWithoutGate, SeeCache, SeeClock, JudgeAge, Take, Goto
  <2>2. pc[c] \in {"look1", "clock1", "judge1", "take1"} /\ UNCHANGED gate
    BY <1>3 DEF CheckWithoutGate, SeeCache, SeeClock, JudgeAge, Take, Goto
  <2> QED BY <2>1, <2>2, MoveStep
<1>4. ASSUME NEW c \in Callers, CheckInsideGate(c)
      PROVE  GateInv' /\ SingleReload'
  <2>1. PICK l \in {"query", "clock2", "judge2", "take2", "release"} :
           pc' = [pc EXCEPT ![c] = l]
    BY <1>4 DEF CheckInsideGate, SeeCache, SeeClock, JudgeAge, Take, Goto
  <2>2. pc[c] \in {"look2", "clock2", "judge2", "take2"} /\ UNCHANGED gate
    BY <1>4 DEF CheckInsideGate, SeeCache, SeeClock, JudgeAge, Take, Goto
  <2> QED BY <2>1, <2>2, MoveStep
<1>5. ASSUME NEW c \in Callers, GetAllObjects(c) \/ Return(c)
      PROVE  GateInv' /\ SingleReload'
  <2>1. PICK l \in {"look1", "idle"} : pc' = [pc EXCEPT ![c] = l]
    BY <1>5 DEF GetAllObjects, Return, Goto
  <2>2. pc[c] \in {"idle", "done"} /\ UNCHANGED gate
    BY <1>5 DEF GetAllObjects, Return, Goto
  <2> QED BY <2>1, <2>2, MoveStep
<1>6. ASSUME NEW c \in Callers,
             \/ RunQuery(c) \/ QueryFails(c) \/ StoreCache(c)
             \/ StampCache(c) \/ TakeLoaded(c)
      PROVE  GateInv' /\ SingleReload'
  <2>1. PICK l \in {"query", "store", "stamp", "takeLoaded", "release"} :
           pc' = [pc EXCEPT ![c] = l]
    BY <1>6 DEF RunQuery, QueryFails, StoreCache, StampCache, TakeLoaded, Take, Goto
  <2>2. pc[c] \in {"query", "store", "stamp", "takeLoaded"} /\ UNCHANGED gate
    BY <1>6 DEF RunQuery, QueryFails, StoreCache, StampCache, TakeLoaded, Take, Goto
  <2> QED BY <2>1, <2>2, MoveStep
<1>7. ASSUME NEW c \in Callers, EnterGate(c)
      PROVE  GateInv' /\ SingleReload'
  <2>1. CASE permits > 0
    <3>1. pc' = [pc EXCEPT ![c] = "look2"] /\ permits' = permits - 1
          /\ waiters' = waiters /\ pc[c] = "enter"
      BY <1>7, <2>1 DEF EnterGate, Goto
    <3>2. permits = 1 /\ waiters = <<>> /\ \A d \in Callers : pc[d] \notin InsideGate
      BY <2>1 DEF GateInv
    <3>3. \A d \in Callers : pc'[d] \in InsideGate <=> d = c
      BY <3>1, <3>2
    <3>4. \A d \in Callers : pc'[d] = "wait" <=> pc[d] = "wait"
      BY <3>1
    <3>5. permits' = 0
      BY <3>1, <3>2
    <3> QED BY <3>1, <3>3, <3>4, <3>5 DEF GateInv, SingleReload
  <2>2. CASE permits = 0
    <3>1. pc' = [pc EXCEPT ![c] = "wait"] /\ permits' = permits
          /\ waiters' = Append(waiters, c) /\ pc[c] = "enter"
      BY <1>7, <2>2 DEF EnterGate, Goto
    <3>2. \A d \in Callers : pc'[d] \in InsideGate <=> pc[d] \in InsideGate
      BY <3>1
    <3>3. /\ DOMAIN waiters' = 1..(Len(waiters) + 1)
          /\ DOMAIN waiters = 1..Len(waiters)
          /\ waiters'[Len(waiters) + 1] = c
          /\ \A i \in DOMAIN waiters : waiters'[i] = waiters[i]
      BY <3>1
    <3>4. \A i \in DOMAIN waiters : waiters[i] # c
      BY <3>1 DEF GateInv
    <3>5. \A d \in Callers : pc'[d] = "wait" <=> \E i \in DOMAIN waiters' : waiters'[i] = d
      <4>1. \A d \in Callers : pc'[d] = "wait" <=> d = c \/ pc[d] = "wait"
        BY <3>1
      <4>2. \A d \in Callers : (\E i \in DOMAIN waiters' : waiters'[i] = d)
                 <=> d = c \/ \E i \in DOMAIN waiters : waiters[i] = d
        BY <3>3
      <4> QED BY <4>1, <4>2 DEF GateInv
    <3>6. \A i, j \in DOMAIN waiters' : waiters'[i] = waiters'[j] => i = j
      BY <3>3, <3>4 DEF GateInv
    <3> QED BY <2>2, <3>1, <3>2, <3>5, <3>6 DEF GateInv, SingleReload
  <2> QED BY <2>1, <2>2
<1>8. ASSUME NEW c \in Callers, CancelEntry(c)
      PROVE  GateInv' /\ SingleReload'
  <2>1. CASE Goto(c, "enter", "done") /\ UNCHANGED waiters
    <3>1. UNCHANGED gate
      BY <1>8, <2>1 DEF CancelEntry, gate
    <3> QED BY <2>1, <3>1, MoveStep DEF Goto
  <2>2. CASE Goto(c, "wait", "done")
    <3>1. PICK i \in DOMAIN waiters :
             waiters[i] = c /\ waiters' = RemoveAt(waiters, i)
      BY <1>8, <2>2 DEF CancelEntry, Goto
    <3>2. pc' = [pc EXCEPT ![c] = "done"] /\ pc[c] = "wait" /\ permits' = permits
      BY <1>8, <2>2 DEF CancelEntry, Goto
    <3>3. /\ DOMAIN waiters' = 1..(Len(waiters) - 1)
          /\ DOMAIN waiters = 1..Len(waiters)
          /\ \A j \in 1..(Len(waiters) - 1) :
                waiters'[j] = IF j < i THEN waiters[j] ELSE waiters[j + 1]
      BY <3>1, RemoveAtSeq
    <3>4. \A d \in Callers : pc'[d] \in InsideGate <=> pc[d] \in InsideGate
      BY <3>2
    <3>5. ASSUME NEW d \in Callers
          PROVE  pc'[d] = "wait" <=> \E j \in DOMAIN waiters' : waiters'[j] = d
      <4>1. CASE d = c
        <5>1. pc'[d] # "wait"
          BY <3>2, <4>1
        <5>2. \A j \in DOMAIN waiters' : waiters'[j] # c
          BY <3>1, <3>3 DEF GateInv
        <5> QED BY <4>1, <5>1, <5>2
      <4>2. CASE d # c
        <5>1. pc'[d] = pc[d]
          BY <3>2, <4>2
        <5>2. ASSUME NEW k \in DOMAIN waiters, waiters[k] = d
              PROVE  \E j \in DOMAIN waiters' : waiters'[j] = d
          <6>1. CASE k < i
            BY <3>3, <5>2, <6>1
          <6>2. CASE k > i
            <7>1. k - 1 \in DOMAIN waiters' /\ waiters'[k - 1] = waiters[k]
              BY <3>3, <6>2
            <7> QED BY <5>2, <7>1
          <6> QED BY <3>1, <3>3, <4>2, <5>2, <6>1, <6>2
        <5>3. ASSUME NEW j \in DOMAIN waiters', waiters'[j] = d
              PROVE  \E k \in DOMAIN waiters : waiters[k] = d
          BY <3>3, <5>3
        <5> QED BY <5>1, <5>2, <5>3 DEF GateInv
      <4> QED BY <4>1, <4>2
    <3>6. \A j, k \in DOMAIN waiters' : waiters'[j] = waiters'[k] => j = k
      <4>1. SUFFICES ASSUME NEW j \in DOMAIN waiters', NEW k \in DOMAIN waiters',
                            waiters'[j] = waiters'[k]
                     PROVE  j = k
        OBVIOUS
      <4> DEFINE old(m) == IF m < i THEN m ELSE m + 1
      <4>2. /\ old(j) \in DOMAIN waiters /\ waiters'[j] = waiters[old(j)]
            /\ old(k) \in DOMAIN waiters /\ waiters'[k] = waiters[old(k)]
        BY <3>3
      <4> HIDE DEF old
      <4>3. old(j) = old(k)
        BY <4>1, <4>2 DEF GateInv
      <4> QED BY <3>1, <3>3, <4>3 DEF old
    <3>7. permits = 0
      BY <3>1 DEF GateInv
    <3> QED BY <3>2, <3>4, <3>5, <3>6, <3>7 DEF GateInv, SingleReload
  <2> QED BY <1>8, <2>1, <2>2 DEF CancelEntry
<1>9. ASSUME NEW c \in Callers, Release(c)
      PROVE  GateInv' /\ SingleReload'
  <2>1. pc[c] = "release" /\ permits = 0
    BY <1>9 DEF Release, GateInv
  <2>2. CASE waiters = <<>>
    <3>1. pc' = [pc EXCEPT ![c] = "done"] /\ permits' = 1 /\ waiters' = waiters
      BY <1>9, <2>1, <2>2 DEF Release
    <3>2. \A d \in Callers : pc'[d] \notin InsideGate
      BY <2>1, <3>1 DEF SingleReload
    <3>3. \A d \in Callers : pc'[d] = "wait" <=> pc[d] = "wait"
      BY <2>1, <3>1
    <3> QED BY <2>2, <3>1, <3>2, <3>3 DEF GateInv, SingleReload
  <2>3. CASE waiters # <<>>
    <3> DEFINE h == Head(waiters)
    <3>1. /\ 1 \in DOMAIN waiters /\ h = waiters[1] /\ h \in Callers
          /\ DOMAIN waiters = 1..Len(waiters)
          /\ DOMAIN Tail(waiters) = 1..(Len(waiters) - 1)
          /\ \A j \in 1..(Len(waiters) - 1) : Tail(waiters)[j] = waiters[j + 1]
      BY <2>3
    <3>2. pc[h] = "wait"
      BY <3>1 DEF GateInv
    <3>3. /\ pc' = [pc EXCEPT ![c] = "done", ![h] = "look2"]
          /\ permits' = permits /\ waiters' = Tail(waiters)
      BY <1>9, <2>3 DEF Release
    <3> HIDE DEF h
    <3>4. \A d \in Callers : pc'[d] \in InsideGate <=> d = h
      BY <2>1, <3>1, <3>2, <3>3 DEF SingleReload
    <3>5. \A d \in Callers : pc'[d] = "wait" <=> pc[d] = "wait" /\ d # h
      BY <2>1, <3>1, <3>2, <3>3
    <3>6. ASSUME NEW d \in Callers
          PROVE  pc'[d] = "wait" <=> \E j \in DOMAIN waiters' : waiters'[j] = d
      <4>1. ASSUME NEW j \in DOMAIN waiters', waiters'[j] = d
            PROVE  pc[d] = "wait" /\ d # h
        <5>1. j + 1 \in DOMAIN waiters /\ waiters[j + 1] = d /\ j + 1 # 1
          BY <3>1, <3>3, <4>1
        <5> QED BY <3>1, <5>1 DEF GateInv
      <4>2. ASSUME pc[d] = "wait", d # h
            PROVE  \E j \in DOMAIN waiters' : waiters'[j] = d
        <5>1. PICK k \in DOMAIN waiters : waiters[k] = d
          BY <4>2 DEF GateInv
        <5>2. k - 1 \in DOMAIN waiters' /\ waiters'[k - 1] = d
          BY <3>1, <3>3, <4>2, <5>1
        <5> QED BY <5>2
      <4> QED BY <3>5, <4>1, <4>2
    <3>7. \A j, k \in DOMAIN waiters' : waiters'[j] = waiters'[k] => j = k
      <4>1. SUFFICES ASSUME NEW j \in DOMAIN waiters', NEW k \in DOMAIN waiters',
                            waiters'[j] = waiters'[k]
                     PROVE  j = k
        OBVIOUS
      <4>2. /\ j + 1 \in DOMAIN waiters /\ waiters'[j] = waiters[j + 1]
            /\ k + 1 \in DOMAIN waiters /\ waiters'[k] = waiters[k + 1]
        BY <3>1, <3>3
      <4>3. j \in Int /\ k \in Int
        BY <3>1, <3>3
      <4>4. j + 1 = k + 1
        BY <4>1, <4>2 DEF GateInv
      <4> QED BY <4>3, <4>4
    <3>8. permits' = 0 /\ \E d \in Callers : pc'[d] \in InsideGate
      BY <2>1, <3>1, <3>3, <3>4
    <3>9. SingleReload'
      BY <3>4 DEF SingleReload
    <3> QED BY <3>6, <3>7, <3>8, <3>9 DEF GateInv
  <2> QED BY <2>2, <2>3
<1> QED
  BY <1>1, <1>2, <1>3, <1>4, <1>5, <1>6, <1>7, <1>8, <1>9
     DEF Next, Proceed, Publish

---------------------------------------------------------------------------
(* Ages *)

\* The clock only advances, so what has been read of it lies in the past; a
\* catalogue's own stamp is never older than _loadedAt.
AgeInv ==
    /\ loadedAt =< now
    /\ \A c \in Callers : seenAt[c] =< now
    /\ stamp # Null => loadedAt =< stamp /\ stamp =< now
    /\ \A c \in Callers : pc[c] \in {"take1", "take2"} => seenAt[c] - now < TTL

\* Moments can be compared and subtracted.
LEMMA TimesAreNaturals ==
    ASSUME TypeOK
    PROVE  /\ now \in Nat
           /\ loadedAt \in Int
           /\ stamp # Null => stamp \in Nat
           /\ \A c \in Callers : seenAt[c] \in Nat
           /\ TTL \in Nat /\ LongAgo \in Int /\ LongAgo =< 0
BY ConstantsAssumption DEF TypeOK, Times, LongAgo

\* Every step keeps the clock readings that IsFresh judges by.
LEMMA FreshStep ==
    TypeInv /\ AgeInv /\ FreshWhenTaken /\ [Next]_vars => AgeInv' /\ FreshWhenTaken'
<1> SUFFICES ASSUME TypeInv, AgeInv, FreshWhenTaken, [Next]_vars
             PROVE  AgeInv' /\ FreshWhenTaken'
  OBVIOUS
<1>a. /\ pc \in [Callers -> Locations]
      /\ seenAt \in [Callers -> Times]
  BY DEF TypeInv, TypeOK
<1>b. TypeOK
  BY DEF TypeInv
<1> USE <1>a, <1>b, TimesAreNaturals
        DEF AgeInv, FreshWhenTaken, Goto, fields, gate, observed
<1>1. CASE Tick
  BY <1>1 DEF Tick
<1>2. CASE AlterSchema
  BY <1>2 DEF AlterSchema
<1>3. ASSUME NEW c \in Callers, NEW look, NEW clock, NEW stale,
             SeeCache(c, look, clock, stale),
             clock \notin {"take1", "take2"}, stale \notin {"take1", "take2"}
      PROVE  AgeInv' /\ FreshWhenTaken'
  BY <1>3 DEF SeeCache
<1>4. ASSUME NEW c \in Callers, NEW clock, NEW judge,
             SeeClock(c, clock, judge), judge \notin {"take1", "take2"}
      PROVE  AgeInv' /\ FreshWhenTaken'
  BY <1>4 DEF SeeClock
<1>5. ASSUME NEW c \in Callers, NEW judge, NEW fresh, NEW stale,
             JudgeAge(c, judge, fresh, stale), stale \notin {"take1", "take2"}
      PROVE  AgeInv' /\ FreshWhenTaken'
  <2>1. CASE seenAt[c] - loadedAt < TTL
    <3>1. UNCHANGED <<now, loadedAt, stamp, seenAt>>
      BY <1>5, <2>1 DEF JudgeAge
    <3>2. pc' = [pc EXCEPT ![c] = fresh]
      BY <1>5, <2>1 DEF JudgeAge
    <3>3. stamp = Null \/ seenAt[c] - stamp < TTL
      BY <2>1
    <3>4. seenAt[c] - now < TTL
      BY <2>1
    <3> QED BY <3>1, <3>2, <3>3, <3>4
  <2>2. CASE ~(seenAt[c] - loadedAt < TTL)
    BY <1>5, <2>2 DEF JudgeAge
  <2> QED BY <2>1, <2>2
<1>6. ASSUME NEW c \in Callers, NEW take, NEW there,
             Take(c, take, there), there \notin {"take1", "take2"}
      PROVE  AgeInv' /\ FreshWhenTaken'
  BY <1>6 DEF Take
<1>7. ASSUME NEW c \in Callers,
             \/ GetAllObjects(c) \/ EnterGate(c) \/ CancelEntry(c)
             \/ RunQuery(c) \/ QueryFails(c) \/ Return(c)
      PROVE  AgeInv' /\ FreshWhenTaken'
  BY <1>7 DEF GetAllObjects, EnterGate, CancelEntry, RunQuery, QueryFails, Return
<1>8. ASSUME NEW c \in Callers, Release(c) PROVE AgeInv' /\ FreshWhenTaken'
  <2>1. UNCHANGED <<now, loadedAt, stamp, seenAt>>
    BY <1>8 DEF Release
  <2>2. \A d \in Callers : pc'[d] \in {"take1", "take2"} => pc[d] \in {"take1", "take2"}
    BY <1>8 DEF Release
  <2> QED BY <2>1, <2>2
<1>9. ASSUME NEW c \in Callers, StoreCache(c) PROVE AgeInv' /\ FreshWhenTaken'
  BY <1>9 DEF StoreCache
<1>10. ASSUME NEW c \in Callers, StampCache(c) PROVE AgeInv' /\ FreshWhenTaken'
  BY <1>10 DEF StampCache
<1>11. ASSUME NEW r \in Refreshers, ClearCache(r) PROVE AgeInv' /\ FreshWhenTaken'
  BY <1>11 DEF ClearCache
<1>12. ASSUME NEW r \in Refreshers, ClearLoadedAt(r) PROVE AgeInv' /\ FreshWhenTaken'
  BY <1>12 DEF ClearLoadedAt
<1>13. CASE UNCHANGED vars
  BY <1>13 DEF vars
<1> QED
  BY <1>1, <1>2, <1>3, <1>4, <1>5, <1>6, <1>7, <1>8, <1>9, <1>10, <1>11, <1>12, <1>13
     DEF Next, Proceed, Publish, CheckWithoutGate, CheckInsideGate, TakeLoaded

\* Every step keeps the cache stale while a request reloads it: only the
\* request inside the gate publishes, and Invalidate makes the cache staler.
LEMMA ReloadStep ==
    TypeInv /\ GateInv /\ SingleReload /\ AgeInv /\ ReloadOnlyWhenStale /\ [Next]_vars
      => ReloadOnlyWhenStale'
<1> SUFFICES ASSUME TypeInv, GateInv, SingleReload, AgeInv, ReloadOnlyWhenStale,
                    [Next]_vars
             PROVE  ReloadOnlyWhenStale'
  OBVIOUS
<1>a. /\ pc \in [Callers -> Locations]
      /\ seenAt \in [Callers -> Times]
  BY DEF TypeInv, TypeOK
<1>b. TypeOK
  BY DEF TypeInv
<1> USE <1>a, <1>b, TimesAreNaturals
        DEF AgeInv, ReloadOnlyWhenStale, Goto, fields, gate, observed
<1>1. CASE Tick
  BY <1>1 DEF Tick
<1>2. CASE AlterSchema
  BY <1>2 DEF AlterSchema
<1>3. ASSUME NEW c \in Callers, CheckWithoutGate(c) PROVE ReloadOnlyWhenStale'
  BY <1>3 DEF CheckWithoutGate, SeeCache, SeeClock, JudgeAge, Take
<1>4. ASSUME NEW c \in Callers, SeeCache(c, "look2", "clock2", "query")
      PROVE  ReloadOnlyWhenStale'
  BY <1>4 DEF SeeCache
<1>5. ASSUME NEW c \in Callers,
             \/ SeeClock(c, "clock2", "judge2")
             \/ Take(c, "take2", "release")
             \/ Take(c, "takeLoaded", "release")
      PROVE  ReloadOnlyWhenStale'
  BY <1>5 DEF SeeClock, Take
<1>6. ASSUME NEW c \in Callers, JudgeAge(c, "judge2", "take2", "query")
      PROVE  ReloadOnlyWhenStale'
  <2>1. CASE seenAt[c] - loadedAt < TTL
    BY <1>6, <2>1 DEF JudgeAge
  <2>2. CASE ~(seenAt[c] - loadedAt < TTL)
    <3>1. now - loadedAt >= TTL
      BY <2>2
    <3> QED BY <1>6, <2>2, <3>1 DEF JudgeAge
  <2> QED BY <2>1, <2>2
<1>7. ASSUME NEW c \in Callers,
             \/ GetAllObjects(c) \/ EnterGate(c) \/ CancelEntry(c)
             \/ RunQuery(c) \/ QueryFails(c) \/ Return(c)
      PROVE  ReloadOnlyWhenStale'
  BY <1>7 DEF GetAllObjects, EnterGate, CancelEntry, RunQuery, QueryFails, Return
<1>8. ASSUME NEW c \in Callers, Release(c) PROVE ReloadOnlyWhenStale'
  <2>1. UNCHANGED <<now, cache, loadedAt>>
    BY <1>8 DEF Release
  <2>2. \A d \in Callers : pc'[d] \in {"query", "store"} => pc[d] \in {"query", "store"}
    BY <1>8 DEF Release
  <2> QED BY <2>1, <2>2
<1>9. ASSUME NEW c \in Callers, Publish(c) PROVE ReloadOnlyWhenStale'
  <2>1. pc[c] \in {"store", "stamp"}
    BY <1>9 DEF Publish, StoreCache, StampCache
  <2>2. \A d \in Callers : d # c => pc[d] \notin {"query", "store"}
    BY <2>1, InsideLocations DEF SingleReload
  <2>3. \A d \in Callers : pc'[d] \notin {"query", "store"}
    BY <1>9, <2>2 DEF Publish, StoreCache, StampCache
  <2> QED BY <2>3
<1>10. ASSUME NEW r \in Refreshers, ClearCache(r) PROVE ReloadOnlyWhenStale'
  BY <1>10 DEF ClearCache
<1>11. ASSUME NEW r \in Refreshers, ClearLoadedAt(r) PROVE ReloadOnlyWhenStale'
  <2>1. now - LongAgo >= TTL
    BY ConstantsAssumption DEF LongAgo
  <2> QED BY <1>11, <2>1 DEF ClearLoadedAt
<1>12. CASE UNCHANGED vars
  BY <1>12 DEF vars
<1> QED
  BY <1>1, <1>2, <1>3, <1>4, <1>5, <1>6, <1>7, <1>8, <1>9, <1>10, <1>11, <1>12
     DEF Next, Proceed, CheckInsideGate, TakeLoaded

---------------------------------------------------------------------------
(* Refreshes *)

\* The locations of a request that has seen _cache set and not yet returned it.
HasSeenCache == {"clock1", "judge1", "take1", "clock2", "judge2", "take2",
                 "stamp", "takeLoaded"}

\* A cache found empty by a request that has seen it set was cleared meanwhile.
RefreshInv ==
    \A c \in Callers :
        /\ began[c].cleared =< cleared
        /\ pc[c] \notin {"release", "done"} => reply[c] = NoValue
        /\ reply[c] = Null => cleared > began[c].cleared
        /\ pc[c] \in HasSeenCache /\ cache = Null => cleared > began[c].cleared

\* Counts of refreshes can be compared.
LEMMA EpochsAreNaturals ==
    ASSUME TypeOK
    PROVE  cleared \in Nat /\ \A c \in Callers : began[c].cleared \in Nat
BY ConstantsAssumption DEF TypeOK, Epochs

\* Every step keeps that only an Invalidate empties the cache.
LEMMA RefreshStep == TypeInv /\ GateInv /\ RefreshInv /\ [Next]_vars => RefreshInv'
<1> SUFFICES ASSUME TypeInv, GateInv, RefreshInv, [Next]_vars PROVE RefreshInv'
  OBVIOUS
<1>a. /\ pc \in [Callers -> Locations]
      /\ cache \in Catalogues \cup {Null}
      /\ reply \in [Callers -> Catalogues \cup {Null, NoValue}]
      /\ ticket \in [Refreshers -> Epochs]
      /\ began \in [Callers ->
                      [cleared : Epochs, refreshed : Epochs, served : Versions]]
  BY DEF TypeInv, TypeOK
<1>b. TypeOK
  BY DEF TypeInv
<1>c. NoValue # Null /\ Null \notin Catalogues /\ NoValue \notin Catalogues
  BY ConstantsAssumption, NullAssumption
<1> USE <1>a, <1>b, <1>c, EpochsAreNaturals
        DEF RefreshInv, HasSeenCache, Goto, fields, gate, observed
<1>1. CASE Tick \/ AlterSchema
  BY <1>1 DEF Tick, AlterSchema
<1>2. ASSUME NEW c \in Callers, NEW look, NEW clock, NEW stale,
             SeeCache(c, look, clock, stale),
             look \notin {"release", "done"}, stale \notin HasSeenCache
      PROVE  RefreshInv'
  BY <1>2 DEF SeeCache
<1>3. ASSUME NEW c \in Callers, NEW clock \in HasSeenCache, NEW judge,
             SeeClock(c, clock, judge)
      PROVE  RefreshInv'
  BY <1>3 DEF SeeClock
<1>4. ASSUME NEW c \in Callers, NEW judge \in HasSeenCache, NEW fresh, NEW stale,
             JudgeAge(c, judge, fresh, stale)
      PROVE  RefreshInv'
  BY <1>4 DEF JudgeAge
<1>5. ASSUME NEW c \in Callers, NEW take \in HasSeenCache,
             NEW there \in {"release", "done"}, Take(c, take, there)
      PROVE  RefreshInv'
  BY <1>5 DEF Take
<1>6. ASSUME NEW c \in Callers, GetAllObjects(c) PROVE RefreshInv'
  BY <1>6 DEF GetAllObjects
<1>7. ASSUME NEW c \in Callers,
             EnterGate(c) \/ CancelEntry(c) \/ RunQuery(c) \/ QueryFails(c)
      PROVE  RefreshInv'
  BY <1>7 DEF EnterGate, CancelEntry, RunQuery, QueryFails
<1>8. ASSUME NEW c \in Callers, Release(c) PROVE RefreshInv'
  <2>1. CASE waiters = <<>>
    BY <1>8, <2>1 DEF Release
  <2>2. CASE waiters # <<>>
    <3>1. Head(waiters) \in Callers /\ pc[Head(waiters)] = "wait"
      <4>1. 1 \in DOMAIN waiters /\ Head(waiters) = waiters[1] /\ waiters[1] \in Callers
        BY <2>2, HeadTailType DEF TypeOK
      <4> QED BY <4>1 DEF GateInv
    <3> QED BY <1>8, <2>2, <3>1 DEF Release
  <2> QED BY <2>1, <2>2
<1>9. ASSUME NEW c \in Callers, StoreCache(c) PROVE RefreshInv'
  <2>1. cache' # Null
    <3>1. draft[c].read \in [1..3 -> Versions]
      BY <1>9, TripleType DEF StoreCache, TypeInv, TypeOK, DraftInv
    <3>2. cache' \in Catalogues
      BY <1>9, <3>1 DEF StoreCache, Catalogues, TypeOK
    <3> QED BY <1>9, <3>2 DEF StoreCache
  <2> QED BY <1>9, <2>1 DEF StoreCache
<1>10. ASSUME NEW c \in Callers, StampCache(c) PROVE RefreshInv'
  BY <1>10 DEF StampCache
<1>11. ASSUME NEW c \in Callers, Return(c) PROVE RefreshInv'
  BY <1>11 DEF Return
<1>12. ASSUME NEW r \in Refreshers, ClearCache(r) PROVE RefreshInv'
  BY <1>12 DEF ClearCache
<1>13. ASSUME NEW r \in Refreshers, ClearLoadedAt(r) PROVE RefreshInv'
  BY <1>13 DEF ClearLoadedAt
<1>14. CASE UNCHANGED vars
  BY <1>14 DEF vars
<1>15. ASSUME NEW c \in Callers, CheckWithoutGate(c) \/ CheckInsideGate(c)
       PROVE  RefreshInv'
  <2>1. CASE SeeCache(c, "look1", "clock1", "enter") \/ SeeCache(c, "look2", "clock2", "query")
    <3>1. CASE SeeCache(c, "look1", "clock1", "enter")
      BY <1>2, <3>1
    <3>2. CASE SeeCache(c, "look2", "clock2", "query")
      BY <1>2, <3>2
    <3> QED BY <2>1, <3>1, <3>2
  <2>2. CASE SeeClock(c, "clock1", "judge1") \/ SeeClock(c, "clock2", "judge2")
    BY <1>3, <2>2
  <2>3. CASE JudgeAge(c, "judge1", "take1", "enter") \/ JudgeAge(c, "judge2", "take2", "query")
    BY <1>4, <2>3
  <2>4. CASE Take(c, "take1", "done") \/ Take(c, "take2", "release")
    BY <1>5, <2>4
  <2> QED BY <1>15, <2>1, <2>2, <2>3, <2>4 DEF CheckWithoutGate, CheckInsideGate
<1>16. ASSUME NEW c \in Callers, TakeLoaded(c) PROVE RefreshInv'
  BY <1>5, <1>16 DEF TakeLoaded
<1> HIDE DEF RefreshInv, HasSeenCache
<1> QED
  BY <1>1, <1>6, <1>7, <1>8, <1>9, <1>10, <1>11, <1>12, <1>13, <1>14, <1>15, <1>16
     DEF Next, Proceed, Publish

---------------------------------------------------------------------------
(* Schema versions *)

\* Everything read so far is at most as new as the schema; what is in the cache
\* is at least as new as what calls have returned or are about to; and what a
\* reload has read is at least as new as all of these.
SchemaInv ==
    /\ served =< schema
    /\ cache # Null => served =< cache.read[1] /\ cache.read[1] =< schema
    /\ \A c \in Callers :
          /\ began[c].served =< served
          /\ reply[c] \in Catalogues =>
                /\ began[c].served =< reply[c].read[1]
                /\ reply[c].read[1] =< schema
                /\ cache # Null => reply[c].read[1] =< cache.read[1]
          /\ Len(draft[c].read) > 0 =>
                /\ served =< draft[c].read[1]
                /\ draft[c].read[1] =< schema
                /\ cache # Null => cache.read[1] =< draft[c].read[1]
                /\ \A d \in Callers :
                      reply[d] \in Catalogues => reply[d].read[1] =< draft[c].read[1]

\* Schema versions can be compared.
LEMMA VersionsAreNaturals ==
    ASSUME TypeOK
    PROVE  /\ schema \in Nat /\ served \in Nat
           /\ \A c \in Callers : began[c].served \in Nat
           /\ \A x \in Catalogues : x.read[1] \in Nat
           /\ \A c \in Callers : Len(draft[c].read) > 0 => draft[c].read[1] \in Nat
<1>1. /\ schema \in Nat /\ served \in Nat
      /\ \A c \in Callers : began[c].served \in Nat
      /\ \A x \in Catalogues : x.read[1] \in Nat
  BY ConstantsAssumption DEF TypeOK, Versions, Catalogues
<1>2. ASSUME NEW c \in Callers, Len(draft[c].read) > 0 PROVE draft[c].read[1] \in Nat
  <2>1. draft[c].read \in Seq(Versions)
    BY DEF TypeOK
  <2>2. draft[c].read[1] \in Versions
    BY <1>2, <2>1
  <2> QED BY <2>2, ConstantsAssumption DEF Versions
<1> QED BY <1>1, <1>2

\* Every step keeps the order of the schema versions that are read, cached and
\* returned.
LEMMA SchemaStep ==
    TypeInv /\ GateInv /\ SingleReload /\ RefreshInv /\ SchemaInv /\ [Next]_vars
      => SchemaInv'
<1> SUFFICES ASSUME TypeInv, GateInv, SingleReload, RefreshInv, SchemaInv, [Next]_vars
             PROVE  SchemaInv'
  OBVIOUS
<1>a. /\ pc \in [Callers -> Locations]
      /\ cache \in Catalogues \cup {Null}
      /\ reply \in [Callers -> Catalogues \cup {Null, NoValue}]
      /\ draft \in [Callers -> [read : Seq(Versions), since : Epochs]]
      /\ began \in [Callers ->
                      [cleared : Epochs, refreshed : Epochs, served : Versions]]
  BY DEF TypeInv, TypeOK
<1>b. TypeOK
  BY DEF TypeInv
<1>c. NoValue # Null /\ Null \notin Catalogues /\ NoValue \notin Catalogues
  BY ConstantsAssumption, NullAssumption
<1>d. Len(NoDraft.read) = 0
  BY NoDraftType
<1> USE <1>a, <1>b, <1>c, <1>d, VersionsAreNaturals
        DEF SchemaInv, Goto, fields, gate, observed
<1>1. CASE Tick
  BY <1>1 DEF Tick
<1>2. CASE AlterSchema
  BY <1>2 DEF AlterSchema
<1>3. ASSUME NEW c \in Callers, NEW x, NEW y, NEW z,
             SeeCache(c, x, y, z) \/ SeeClock(c, x, y) \/ JudgeAge(c, x, y, z)
      PROVE  SchemaInv'
  BY <1>3 DEF SeeCache, SeeClock, JudgeAge
<1>4. ASSUME NEW c \in Callers, NEW take, NEW there, Take(c, take, there)
      PROVE  SchemaInv'
  BY <1>4 DEF Take
<1>5. ASSUME NEW c \in Callers, GetAllObjects(c) PROVE SchemaInv'
  <2>1. reply[c] = NoValue
    BY <1>5 DEF GetAllObjects, RefreshInv
  <2> QED BY <1>5, <2>1 DEF GetAllObjects
<1>6. ASSUME NEW c \in Callers,
             EnterGate(c) \/ CancelEntry(c) \/ Release(c) \/ QueryFails(c) \/ StampCache(c)
      PROVE  SchemaInv'
  <2>1. UNCHANGED <<schema, cache, served, began, reply>>
    BY <1>6 DEF EnterGate, CancelEntry, Release, QueryFails, StampCache
  <2>2. \A d \in Callers : draft'[d] = draft[d] \/ Len(draft'[d].read) = 0
    BY <1>6 DEF EnterGate, CancelEntry, Release, QueryFails, StampCache
  <2> QED BY <2>1, <2>2
<1>7. ASSUME NEW c \in Callers, RunQuery(c) PROVE SchemaInv'
  <2> DEFINE read == draft[c].read
  <2>1. read \in Seq(Versions) /\ schema \in Versions
    BY DEF TypeOK
  <2>2. /\ Len(read) > 0 => Append(read, schema)[1] = read[1]
        /\ Len(read) = 0 => Append(read, schema)[1] = schema
    BY <2>1
  <2>3. /\ draft'[c].read = Append(read, schema)
        /\ \A d \in Callers : d # c => draft'[d] = draft[d]
        /\ UNCHANGED <<schema, served, cache, began, reply>>
    BY <1>7 DEF RunQuery
  <2> HIDE DEF read
  <2>4. CASE Len(read) > 0
    BY <2>2, <2>3, <2>4 DEF read
  <2>5. CASE ~(Len(read) > 0)
    <3>1. Len(read) = 0
      BY <2>1, <2>5
    <3>2. draft'[c].read[1] = schema
      BY <2>2, <2>3, <3>1
    <3>3. /\ served =< schema
          /\ cache # Null => cache.read[1] =< schema
          /\ \A d \in Callers : reply[d] \in Catalogues => reply[d].read[1] =< schema
      OBVIOUS
    <3>4. ASSUME NEW d \in Callers, Len(draft'[d].read) > 0
          PROVE  /\ served =< draft'[d].read[1]
                 /\ draft'[d].read[1] =< schema
                 /\ cache # Null => cache.read[1] =< draft'[d].read[1]
                 /\ \A e \in Callers :
                       reply[e] \in Catalogues => reply[e].read[1] =< draft'[d].read[1]
      <4>1. CASE d = c
        BY <3>2, <3>3, <4>1
      <4>2. CASE d # c
        BY <2>3, <3>4, <4>2
      <4> QED BY <4>1, <4>2
    <3> QED BY <2>3, <3>4
  <2> QED BY <2>4, <2>5
<1>8. ASSUME NEW c \in Callers, StoreCache(c) PROVE SchemaInv'
  <2>1. Len(draft[c].read) = 3
    BY <1>8 DEF StoreCache, TypeInv, DraftInv
  <2>2. \A d \in Callers : d # c => Len(draft[d].read) = 0
    <3>1. \A d \in Callers : pc[d] \in {"query", "store"} => d = c
      BY <1>8, InsideLocations DEF StoreCache, SingleReload
    <3> QED BY <3>1 DEF TypeInv, DraftInv
  <2>3. \A d \in Callers : Len(draft'[d].read) = 0
    BY <1>8, <2>2 DEF StoreCache
  <2>4. /\ cache'.read[1] = draft[c].read[1]
        /\ UNCHANGED <<schema, served, began, reply>>
    BY <1>8 DEF StoreCache
  <2> QED BY <2>1, <2>3, <2>4
<1>9. ASSUME NEW c \in Callers, Return(c) PROVE SchemaInv'
  <2>1. \/ served' = served
        \/ /\ reply[c] \in Catalogues
           /\ served' = reply[c].read[1]
           /\ served =< served'
    BY <1>9 DEF Return
  <2>2. /\ \A d \in Callers : began'[d].served =< began[d].served \/ began'[d].served = 0
        /\ \A d \in Callers : reply'[d] \in Catalogues => d # c /\ reply'[d] = reply[d]
        /\ \A d \in Callers : d # c => began'[d] = began[d]
        /\ UNCHANGED <<schema, cache, draft>>
    BY <1>9 DEF Return
  <2> QED BY <2>1, <2>2, <1>9 DEF Return
<1>10. ASSUME NEW r \in Refreshers, ClearCache(r) \/ ClearLoadedAt(r)
       PROVE  SchemaInv'
  BY <1>10 DEF ClearCache, ClearLoadedAt
<1>11. CASE UNCHANGED vars
  BY <1>11 DEF vars
<1> QED
  BY <1>1, <1>2, <1>3, <1>4, <1>5, <1>6, <1>7, <1>8, <1>9, <1>10, <1>11
     DEF Next, Proceed, Publish, CheckWithoutGate, CheckInsideGate, TakeLoaded

---------------------------------------------------------------------------
(* Theorems *)

\* The inductive invariant: locations and types, the gate, the ages of what is
\* cached, and the order of refreshes and of schema versions.
IndInv ==
    /\ TypeInv
    /\ GateInv
    /\ SingleReload
    /\ AgeInv
    /\ FreshWhenTaken
    /\ ReloadOnlyWhenStale
    /\ RefreshInv
    /\ SchemaInv

\* The initial state satisfies the inductive invariant.
LEMMA InitInd == Init => IndInv
<1> SUFFICES ASSUME Init PROVE IndInv
  OBVIOUS
<1>1. TypeInv
  BY InitType
<1>2. GateInv /\ SingleReload
  BY InsideLocations DEF Init, GateInv, SingleReload
<1>3. AgeInv /\ FreshWhenTaken /\ ReloadOnlyWhenStale
  BY ConstantsAssumption
     DEF Init, AgeInv, FreshWhenTaken, ReloadOnlyWhenStale, LongAgo
<1>4. RefreshInv
  BY ConstantsAssumption, NullAssumption DEF Init, RefreshInv, HasSeenCache
<1>5. SchemaInv
  <2>1. \A c \in Callers : Len(draft[c].read) = 0
    BY NoDraftType DEF Init
  <2>2. \A c \in Callers : reply[c] \notin Catalogues
    BY NullAssumption DEF Init
  <2> QED BY <2>1, <2>2 DEF Init, SchemaInv
<1> QED BY <1>1, <1>2, <1>3, <1>4, <1>5 DEF IndInv

\* Every step preserves the inductive invariant.
LEMMA NextInd == IndInv /\ [Next]_vars => IndInv'
BY TypeStep, DraftStep, GateStep, FreshStep, ReloadStep, RefreshStep, SchemaStep
   DEF IndInv, TypeInv

\* The strengthening of the properties holds in every reachable state, for any
\* number of callers and refreshers and any bounds.
THEOREM Inductive == Spec => []IndInv
BY InitInd, NextInd, PTL DEF Spec

\* Every variable of the cache keeps its type: in particular a stored catalogue
\* holds the answers of all three queries (SqlMetadataReader.ReadAllAsync).
THEOREM TypeCorrect == Spec => []TypeOK
<1>1. IndInv => TypeOK
  BY DEF IndInv, TypeInv
<1> QED BY Inductive, <1>1, PTL

\* The SemaphoreSlim loses and forges no permit on any path through
\* GetAllObjectsAsync, whatever fails or is cancelled.
THEOREM GateIsSound == Spec => []GateInv
<1>1. IndInv => GateInv
  BY DEF IndInv
<1> QED BY Inductive, <1>1, PTL

\* At most one request is between WaitAsync and Release.
THEOREM ReloadsAreExclusive == Spec => []SingleReload
<1>1. IndInv => SingleReload
  BY DEF IndInv
<1> QED BY Inductive, <1>1, PTL

\* The stampede guard: nobody queries the database while the cache is fresh.
THEOREM StampedeGuard == Spec => []ReloadOnlyWhenStale
<1>1. IndInv => ReloadOnlyWhenStale
  BY DEF IndInv
<1> QED BY Inductive, <1>1, PTL

\* The catalogue a request is about to return had not expired when the request
\* read the clock, although the fields are read and written one by one.
THEOREM NeverExpired == Spec => []FreshWhenTaken
<1>1. IndInv => FreshWhenTaken
  BY DEF IndInv
<1> QED BY Inductive, <1>1, PTL

\* A call that has an answer other than null has a catalogue.
LEMMA AnsweredCatalogue ==
    ASSUME TypeOK, NEW c \in Callers, Answered(c)
    PROVE  reply[c] \in Catalogues
BY DEF TypeOK, Answered

\* Calls that follow one another see the schema move forward only.
THEOREM SchemaMovesForward == Spec => []CallsSeeNewerSchema
<1>1. IndInv => CallsSeeNewerSchema
  BY AnsweredCatalogue, VersionsAreNaturals
     DEF IndInv, TypeInv, SchemaInv, CallsSeeNewerSchema
<1> QED BY Inductive, <1>1, PTL

\* A null catalogue is returned only by a call that an Invalidate overlaps.
THEOREM NullNeedsRefresh == Spec => []NullOnlyAcrossRefresh
<1>1. IndInv => NullOnlyAcrossRefresh
  BY DEF IndInv, RefreshInv, NullOnlyAcrossRefresh
<1> QED BY Inductive, <1>1, PTL
====
