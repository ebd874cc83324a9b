-------------------------- MODULE LayoutSync_proofs --------------------------
(* Proofs about LayoutSync, for every number of objects and choices, and any *)
(* number of timers and requests that are pending at once.                   *)
EXTENDS LayoutSync, SequenceTheorems, TLAPS

---------------------------------------------------------------------------
(* The parts of the inductive invariant *)

\* Every choice in these settings was made for the object it is kept for.
Honest(settings) == \A o \in Objects : settings[o] \subseteq made[o]

\* Wherever settings are on their way, they are honest.
HonestInv ==
    /\ Honest(stored)
    /\ cache # NotLoaded => Honest(cache)
    /\ Honest(fetched)
    /\ grid # None => shown \subseteq made[grid]
    /\ \A i \in 1..Len(timers) : Honest(timers[i].settings)
    /\ \A p \in puts : Honest(p.settings)

\* What is to be stored keeps what is, and has nothing that the tab has not.
Keeps(settings) ==
    /\ \A o \in Objects : stored[o] \subseteq settings[o] /\ settings[o] \subseteq cache[o]
    /\ settings[grid] \subseteq shown

\* As long as nothing overlaps, only one thing is under way, and each copy of the
\* settings has what is stored.
CalmInv ==
    ~overlapped =>
        /\ grid = None => cache = NotLoaded /\ fetch = "none"
        /\ cache = NotLoaded \/ fetch # "none" => timers = <<>> /\ puts = {}
        /\ timers # <<>> => puts = {}
        /\ \A i \in 1..Len(timers) : timers[i].own
        /\ \A p, q \in puts : p = q
        /\ fetch = "answered" => fetched = stored
        /\ cache # NotLoaded =>
              /\ \A o \in Objects : stored[o] \subseteq cache[o]
              /\ stored[grid] \subseteq shown
              /\ \A i \in 1..Len(timers) : Keeps(timers[i].settings)
              /\ \A p \in puts : p.at = "sent" => Keeps(p.settings)
              /\ \A p \in puts : p.at = "stored" => p.settings = stored

IndInv == TypeOK /\ HonestInv /\ CalmInv

---------------------------------------------------------------------------
(* Sequences of timers *)

\* The first elements of a sequence.
LEMMA FirstElements ==
    ASSUME NEW S, NEW s \in Seq(S), NEW n \in Nat, n <= Len(s)
    PROVE  /\ SubSeq(s, 1, n) \in Seq(S)
           /\ Len(SubSeq(s, 1, n)) = n
           /\ \A i \in 1..n : SubSeq(s, 1, n)[i] = s[i]
OBVIOUS

\* What Foreign returns: some of the timers, and none of the mounted grid's.
LEMMA ForeignTimers ==
    ASSUME TypeOK
    PROVE  /\ Foreign \in Seq(Timers)
           /\ Len(Foreign) <= Len(timers)
           /\ \A i \in 1..Len(Foreign) : Foreign[i] = timers[i] /\ ~Foreign[i].own
<1>1. timers \in Seq(Timers)
  BY DEF TypeOK
<1>2. Len(timers) \in Nat
  BY <1>1
<1>3. \A i \in 1..Len(timers) : timers[i].own => i = Len(timers)
  BY <1>1 DEF TypeOK
<1>4. CASE timers # <<>> /\ timers[Len(timers)].own
  <2>1. Foreign = SubSeq(timers, 1, Len(timers) - 1)
    BY <1>4 DEF Foreign
  <2>2. Len(timers) > 0
    BY <1>1, <1>4
  <2>3. Len(timers) - 1 \in Nat /\ Len(timers) - 1 <= Len(timers)
    BY <1>2, <2>2
  <2>4. \A i \in 1..Len(timers) - 1 : i \in 1..Len(timers) /\ i # Len(timers)
    BY <1>2
  <2>5. /\ Foreign \in Seq(Timers)
        /\ Len(Foreign) = Len(timers) - 1
        /\ \A i \in 1..Len(timers) - 1 : Foreign[i] = timers[i]
    BY <1>1, <2>1, <2>3, FirstElements
  <2>6. ASSUME NEW i \in 1..Len(timers) - 1 PROVE Foreign[i] = timers[i] /\ ~timers[i].own
    <3>1. i \in 1..Len(timers) /\ i # Len(timers)
      BY <2>4
    <3>2. ~timers[i].own
      BY <1>3, <3>1
    <3> QED BY <2>5, <3>2
  <2> QED BY <1>2, <2>5, <2>6
<1>5. CASE ~(timers # <<>> /\ timers[Len(timers)].own)
  <2>1. Foreign = timers
    BY <1>5 DEF Foreign
  <2>2. \A i \in 1..Len(timers) : ~timers[i].own
    <3> SUFFICES ASSUME NEW i \in 1..Len(timers), timers[i].own PROVE FALSE
      OBVIOUS
    <3>1. i = Len(timers)
      BY <1>3
    <3>2. timers # <<>>
      BY <1>1
    <3> QED BY <1>5, <3>1, <3>2
  <2> QED BY <1>1, <1>2, <2>1, <2>2
<1> QED BY <1>4, <1>5

\* A timer for these settings is set, and the grid's previous one cleared.
LEMMA AddedTimer ==
    ASSUME TypeOK, NEW settings \in Settings,
           timers' = Append(Foreign, [settings |-> settings, own |-> TRUE])
    PROVE  /\ timers' \in Seq(Timers)
           /\ Len(timers') = Len(Foreign) + 1
           /\ timers'[Len(timers')] = [settings |-> settings, own |-> TRUE]
           /\ \A i \in 1..Len(timers') :
                 i # Len(timers') => i \in 1..Len(timers) /\ timers'[i] = timers[i] /\ ~timers'[i].own
<1>1. [settings |-> settings, own |-> TRUE] \in Timers
  BY DEF Timers
<1>2. Foreign \in Seq(Timers) /\ Len(Foreign) \in Nat /\ Len(timers) \in Nat
  BY ForeignTimers DEF TypeOK
<1>3. /\ timers' \in Seq(Timers)
      /\ Len(timers') = Len(Foreign) + 1
      /\ \A i \in 1..Len(Foreign) : timers'[i] = Foreign[i]
      /\ timers'[Len(Foreign) + 1] = [settings |-> settings, own |-> TRUE]
  BY <1>1, <1>2, AppendProperties
<1> QED BY <1>2, <1>3, ForeignTimers

\* The grid of the timers is gone.
LEMMA DisownedTimers ==
    ASSUME TypeOK, timers' = [i \in DOMAIN timers |-> [timers[i] EXCEPT !.own = FALSE]]
    PROVE  /\ timers' \in Seq(Timers)
           /\ Len(timers') = Len(timers)
           /\ \A i \in 1..Len(timers) : ~timers'[i].own /\ timers'[i].settings = timers[i].settings
<1>1. timers \in Seq(Timers) /\ Len(timers) \in Nat /\ DOMAIN timers = 1..Len(timers)
  BY DEF TypeOK
<1>2. \A i \in 1..Len(timers) : timers[i] \in Timers
  BY <1>1, ElementOfSeq
<1>3. \A i \in 1..Len(timers) : /\ timers'[i] \in Timers
                                /\ ~timers'[i].own
                                /\ timers'[i].settings = timers[i].settings
  BY <1>1, <1>2 DEF Timers
<1>4. timers' = [i \in 1..Len(timers) |-> timers'[i]]
  BY <1>1
<1>5. timers' \in Seq(Timers) /\ Len(timers') = Len(timers)
  BY <1>1, <1>3, <1>4, IsASeq
<1> QED BY <1>3, <1>5

\* The first timer fires.
LEMMA FiredTimer ==
    ASSUME TypeOK, timers # <<>>, timers' = Tail(timers)
    PROVE  /\ Head(timers) = timers[1] /\ timers[1] \in Timers /\ 1 \in 1..Len(timers)
           /\ timers' \in Seq(Timers)
           /\ Len(timers') = Len(timers) - 1
           /\ \A i \in 1..Len(timers') : i + 1 \in 1..Len(timers) /\ timers'[i] = timers[i + 1]
<1>1. timers \in Seq(Timers) /\ Len(timers) \in Nat
  BY DEF TypeOK
<1>2. Len(timers) > 0
  BY <1>1
<1>3. Head(timers) = timers[1] /\ timers[1] \in Timers
  BY <1>1, <1>2, ElementOfSeq
<1>4. /\ timers' \in Seq(Timers)
      /\ Len(timers') = Len(timers) - 1
      /\ \A i \in 1..Len(timers') : timers'[i] = timers[i + 1]
  BY <1>1, HeadTailProperties
<1> QED BY <1>1, <1>2, <1>3, <1>4

---------------------------------------------------------------------------
(* Initially *)

LEMMA InitType == Init => TypeOK
<1> SUFFICES ASSUME Init PROVE TypeOK
  OBVIOUS
<1>1. NoSettings \in Settings
  BY DEF NoSettings, Settings, Layouts
<1>2. timers = <<>> /\ timers \in Seq(Timers) /\ \A i \in DOMAIN timers : FALSE
  BY DEF Init
<1> QED BY <1>1, <1>2 DEF Init, TypeOK, Layouts

LEMMA InitInv == Init => HonestInv /\ CalmInv
BY DEF Init, HonestInv, CalmInv, Honest, NoSettings

---------------------------------------------------------------------------
(* Types *)

LEMMA MergedSettings ==
    ASSUME TypeOK, NEW o \in Objects, NEW layout \in Layouts
    PROVE  /\ Merge(o, layout) \in Settings
           /\ Merge(o, layout)[o] = layout
           /\ \A p \in Objects : p # o => Merge(o, layout)[p] = IF cache = NotLoaded THEN {} ELSE cache[p]
BY DEF TypeOK, Merge, Settings, Layouts

LEMMA SelectType == ASSUME TypeOK, NEW o \in Objects, Select(o) PROVE TypeOK'
<1>1. shown' \in Layouts
  BY DEF Select, TypeOK, Settings, Layouts
<1>2. timers' \in Seq(Timers) /\ Len(timers') = Len(timers) /\ \A i \in 1..Len(timers) : ~timers'[i].own
  BY DisownedTimers DEF Select
<1>3. \A i \in DOMAIN timers' : ~timers'[i].own
  BY <1>2
<1> QED BY <1>1, <1>2, <1>3 DEF Select, Begins, TypeOK

LEMMA ChooseType == ASSUME TypeOK, NEW c \in Choices, Choose(c) PROVE TypeOK'
<1> DEFINE merged == Merge(grid, shown \cup {c})
<1>1. grid \in Objects /\ shown \cup {c} \in Layouts
  BY DEF Choose, TypeOK, Layouts
<1>2. merged \in Settings
  BY <1>1, MergedSettings
<1>3. timers' = Append(Foreign, [settings |-> merged, own |-> TRUE])
  BY DEF Choose
<1>4. timers' \in Seq(Timers) /\ \A i \in 1..Len(timers') : timers'[i].own => i = Len(timers')
  BY <1>2, <1>3, AddedTimer
<1>5. made' \in Settings
  BY <1>1 DEF Choose, TypeOK, Settings, Layouts
<1>6. \A i \in DOMAIN timers' : timers'[i].own => i = Len(timers')
  BY <1>4
<1> HIDE DEF merged
<1>7. cache' = merged /\ shown' = shown \cup {c} /\ UNCHANGED <<stored, fetch, fetched, grid, puts>>
  BY DEF Choose, merged
<1> QED BY <1>1, <1>2, <1>4, <1>5, <1>6, <1>7 DEF Choose, Begins, TypeOK

LEMMA FireType == ASSUME TypeOK, Fire PROVE TypeOK'
<1>1. timers # <<>> /\ timers' = Tail(timers)
  BY DEF Fire
<1>2. /\ timers[1] \in Timers /\ Head(timers) = timers[1]
      /\ timers' \in Seq(Timers)
      /\ Len(timers') = Len(timers) - 1
      /\ \A i \in 1..Len(timers') : i + 1 \in 1..Len(timers) /\ timers'[i] = timers[i + 1]
  BY <1>1, FiredTimer
<1>3. \A i \in 1..Len(timers) : timers[i].own => i = Len(timers)
  BY DEF TypeOK
<1>4. Len(timers) \in Nat /\ Len(timers') \in Nat
  BY <1>2 DEF TypeOK
<1>5. ASSUME NEW i \in 1..Len(timers'), timers'[i].own PROVE i = Len(timers')
  <2>1. i + 1 = Len(timers)
    BY <1>2, <1>3, <1>5
  <2> QED BY <1>2, <1>4, <2>1
<1>6. \A i \in DOMAIN timers' : timers'[i].own => i = Len(timers')
  BY <1>2, <1>5
<1>7. [settings |-> Head(timers).settings, at |-> "sent", listening |-> TRUE] \in Puts
  BY <1>2 DEF Puts, Timers
<1>8. puts' \subseteq Puts
  BY <1>7 DEF Fire, TypeOK
<1> QED BY <1>2, <1>6, <1>8 DEF Fire, Begins, TypeOK

LEMMA ReloadType == ASSUME TypeOK, Reload PROVE TypeOK'
<1>1. NoSettings \in Settings
  BY DEF NoSettings, Settings, Layouts
<1>2. timers' \in Seq(Timers) /\ \A i \in DOMAIN timers' : FALSE
  BY DEF Reload
<1>3. puts' \subseteq Puts
  BY DEF Reload, TypeOK, Puts
<1> QED BY <1>1, <1>2, <1>3 DEF Reload, Begins, TypeOK, Layouts

LEMMA GetType == ASSUME TypeOK, Fetch \/ ServeGet \/ FetchFails \/ Loaded PROVE TypeOK'
<1>1. NoSettings \in Settings
  BY DEF NoSettings, Settings, Layouts
<1>2. /\ fetch' \in {"none", "asked", "answered"}
      /\ fetched' \in Settings
      /\ cache' \in {NotLoaded} \cup Settings
      /\ overlapped' \in BOOLEAN
      /\ UNCHANGED <<stored, grid, timers, puts, made>>
  BY <1>1 DEF Fetch, ServeGet, FetchFails, Loaded, Begins, TypeOK
<1>3. shown' \in Layouts
  BY DEF Fetch, ServeGet, FetchFails, Loaded, TypeOK, Settings
<1> QED BY <1>2, <1>3 DEF TypeOK

PutStep(p) == StorePut(p) \/ StoreFails(p) \/ Acknowledge(p) \/ GiveUp(p) \/ LoseTouch(p)

LEMMA PutType == ASSUME TypeOK, NEW p \in puts, PutStep(p) PROVE TypeOK'
<1>1. p \in Puts /\ p.settings \in Settings
  BY DEF TypeOK, Puts
<1>2. /\ [p EXCEPT !.at = "stored"] \in Puts
      /\ [p EXCEPT !.at = "failed"] \in Puts
      /\ [p EXCEPT !.listening = FALSE] \in Puts
  BY <1>1 DEF Puts
<1>3. puts' \subseteq Puts
  BY <1>2 DEF PutStep, StorePut, StoreFails, Acknowledge, GiveUp, LoseTouch, Becomes, TypeOK
<1>4. /\ stored' \in Settings
      /\ cache' \in {NotLoaded} \cup Settings
      /\ UNCHANGED <<fetch, fetched, grid, shown, timers, made, overlapped>>
  BY <1>1 DEF PutStep, StorePut, StoreFails, Acknowledge, GiveUp, LoseTouch, tab, TypeOK
<1> QED BY <1>3, <1>4 DEF TypeOK

LEMMA StepType == TypeOK /\ [Next]_vars => TypeOK'
<1> SUFFICES ASSUME TypeOK, [Next]_vars PROVE TypeOK'
  OBVIOUS
<1>1. CASE UNCHANGED vars
  BY <1>1 DEF vars, tab, TypeOK
<1> QED BY <1>1, SelectType, ChooseType, FireType, ReloadType, GetType, PutType DEF Next, PutStep

---------------------------------------------------------------------------
(* Layouts stay apart *)

LEMMA SelectHonest == ASSUME TypeOK, HonestInv, NEW o \in Objects, Select(o) PROVE HonestInv'
<1>1. Len(timers') = Len(timers) /\ \A i \in 1..Len(timers) : timers'[i].settings = timers[i].settings
  BY DisownedTimers DEF Select
<1>2. shown' \subseteq made'[o]
  BY DEF Select, HonestInv, Honest
<1> QED BY <1>1, <1>2 DEF Select, HonestInv, Honest

LEMMA ChooseHonest == ASSUME TypeOK, HonestInv, NEW c \in Choices, Choose(c) PROVE HonestInv'
<1> DEFINE merged == Merge(grid, shown \cup {c})
<1>1. grid \in Objects /\ shown \cup {c} \in Layouts
  BY DEF Choose, TypeOK, Layouts
<1>2. /\ made'[grid] = made[grid] \cup {c}
      /\ \A o \in Objects : made[o] \subseteq made'[o]
  BY <1>1 DEF Choose, TypeOK, Settings
<1>3. \A settings : Honest(settings) => \A o \in Objects : settings[o] \subseteq made'[o]
  BY <1>2 DEF Honest
<1>4. shown \cup {c} \subseteq made'[grid]
  BY <1>1, <1>2 DEF Choose, HonestInv
<1>5. \A o \in Objects : merged[o] \subseteq made'[o]
  BY <1>1, <1>2, <1>4, MergedSettings DEF HonestInv, Honest
<1>6. /\ cache' = merged /\ shown' = shown \cup {c}
      /\ timers' = Append(Foreign, [settings |-> merged, own |-> TRUE])
      /\ UNCHANGED <<stored, fetched, grid, puts>>
  BY DEF Choose
<1>7. merged \in Settings
  BY <1>1, MergedSettings
<1> HIDE DEF merged
<1>8. ASSUME NEW i \in 1..Len(timers'), NEW o \in Objects
      PROVE  timers'[i].settings[o] \subseteq made'[o]
  BY <1>3, <1>5, <1>6, <1>7, AddedTimer DEF HonestInv
<1> QED BY <1>3, <1>4, <1>5, <1>6, <1>8 DEF HonestInv, Honest

LEMMA FireHonest == ASSUME TypeOK, HonestInv, Fire PROVE HonestInv'
<1>1. timers # <<>> /\ timers' = Tail(timers)
  BY DEF Fire
<1>2. /\ Head(timers) = timers[1] /\ 1 \in 1..Len(timers)
      /\ \A i \in 1..Len(timers') : i + 1 \in 1..Len(timers) /\ timers'[i] = timers[i + 1]
  BY <1>1, FiredTimer
<1>3. \A i \in 1..Len(timers') : Honest(timers'[i].settings)
  BY <1>2 DEF HonestInv
<1>4. \A p \in puts' : p \in puts \/ p.settings = timers[1].settings
  BY <1>2 DEF Fire
<1>5. \A p \in puts' : Honest(p.settings)
  BY <1>2, <1>4 DEF HonestInv
<1> QED BY <1>3, <1>5 DEF Fire, HonestInv, Honest

LEMMA ReloadHonest == ASSUME TypeOK, HonestInv, Reload PROVE HonestInv'
<1>1. \A p \in puts' : Honest(p.settings)
  <2> SUFFICES ASSUME NEW p \in puts' PROVE Honest(p.settings)
    OBVIOUS
  <2>1. PICK q \in puts : p = [q EXCEPT !.listening = FALSE]
    BY DEF Reload
  <2>2. p.settings = q.settings
    BY <2>1 DEF TypeOK, Puts
  <2> QED BY <2>2 DEF HonestInv
<1>2. Len(timers') = 0 /\ Honest(NoSettings)
  BY DEF Reload, Honest, NoSettings
<1> QED BY <1>1, <1>2 DEF Reload, HonestInv, Honest

LEMMA GetHonest == ASSUME TypeOK, HonestInv, Fetch \/ ServeGet \/ FetchFails \/ Loaded PROVE HonestInv'
<1>1. Honest(NoSettings)
  BY DEF Honest, NoSettings
<1>2. grid # None => grid \in Objects
  BY DEF TypeOK
<1> QED BY <1>1, <1>2 DEF Fetch, ServeGet, FetchFails, Loaded, HonestInv, Honest

\* What puts become in a step of one of them.
LEMMA PutStepPuts ==
    ASSUME TypeOK, NEW p \in puts, PutStep(p), NEW q \in puts'
    PROVE  \/ q \in puts /\ q # p
           \/ /\ q.settings = p.settings
              /\ \/ q.at = p.at /\ LoseTouch(p)
                 \/ q.at = "stored" /\ StorePut(p)
                 \/ q.at = "failed" /\ StoreFails(p)
<1>1. p \in Puts
  BY DEF TypeOK
<1>2. /\ [p EXCEPT !.at = "stored"].settings = p.settings /\ [p EXCEPT !.at = "stored"].at = "stored"
      /\ [p EXCEPT !.at = "failed"].settings = p.settings /\ [p EXCEPT !.at = "failed"].at = "failed"
  BY <1>1 DEF Puts
<1>3. [p EXCEPT !.listening = FALSE].settings = p.settings /\ [p EXCEPT !.listening = FALSE].at = p.at
  BY <1>1 DEF Puts
<1>4. CASE StorePut(p) \/ StoreFails(p)
  BY <1>2, <1>4 DEF StorePut, StoreFails, Becomes
<1>5. CASE LoseTouch(p)
  BY <1>3, <1>5 DEF LoseTouch
<1>6. CASE Acknowledge(p) \/ GiveUp(p)
  BY <1>6 DEF Acknowledge, GiveUp
<1> QED BY <1>4, <1>5, <1>6 DEF PutStep

LEMMA PutHonest == ASSUME TypeOK, HonestInv, NEW p \in puts, PutStep(p) PROVE HonestInv'
<1>1. Honest(p.settings)
  BY DEF HonestInv
<1>2. \A q \in puts' : Honest(q.settings)
  BY <1>1, PutStepPuts DEF HonestInv
<1>3. Honest(stored') /\ (cache' # NotLoaded => Honest(cache'))
      /\ UNCHANGED <<fetched, grid, shown, timers, made>>
  BY <1>1 DEF PutStep, StorePut, StoreFails, Acknowledge, GiveUp, LoseTouch, tab, HonestInv
<1> QED BY <1>2, <1>3 DEF HonestInv, Honest

LEMMA StepHonest == TypeOK /\ HonestInv /\ [Next]_vars => HonestInv'
<1> SUFFICES ASSUME TypeOK, HonestInv, [Next]_vars PROVE HonestInv'
  OBVIOUS
<1>1. CASE UNCHANGED vars
  BY <1>1 DEF vars, tab, HonestInv, Honest
<1> QED BY <1>1, SelectHonest, ChooseHonest, FireHonest, ReloadHonest, GetHonest, PutHonest DEF Next, PutStep

---------------------------------------------------------------------------
(* Calm *)

LEMMA SelectCalm ==
    ASSUME TypeOK, CalmInv, NEW o \in Objects, Select(o), ~overlapped'
    PROVE  CalmInv'
<1>1. ~overlapped /\ (grid = None \/ (Settled /\ timers = <<>>))
  BY DEF Select, Begins
<1>2. timers = <<>> /\ puts = {} /\ fetch = "none"
  BY <1>1 DEF CalmInv, Settled
<1>3. Len(timers') = 0
  BY <1>2, DisownedTimers DEF Select
<1>4. timers' = <<>>
  BY <1>3, DisownedTimers DEF Select
<1>5. o # None
  BY DistinctValues
<1> QED BY <1>1, <1>2, <1>3, <1>4, <1>5 DEF Select, CalmInv

LEMMA ChooseCalm ==
    ASSUME TypeOK, CalmInv, NEW c \in Choices, Choose(c), ~overlapped'
    PROVE  CalmInv'
<1> DEFINE merged == Merge(grid, shown \cup {c})
<1>1. grid \in Objects /\ grid # None /\ shown \cup {c} \in Layouts
  BY DEF Choose, TypeOK, Layouts
<1>2. ~overlapped /\ Settled
  BY DEF Choose, Begins
<1>3. cache # NotLoaded /\ fetch = "none" /\ puts = {}
  BY <1>2 DEF Settled
<1>4. /\ merged \in Settings
      /\ merged[grid] = shown \cup {c}
      /\ \A o \in Objects : o # grid => merged[o] = cache[o]
  BY <1>1, <1>3, MergedSettings
<1>5. \A o \in Objects : stored[o] \subseteq merged[o]
  BY <1>1, <1>2, <1>3, <1>4 DEF CalmInv
<1>6. /\ cache' = merged /\ shown' = shown \cup {c}
      /\ timers' = Append(Foreign, [settings |-> merged, own |-> TRUE])
      /\ UNCHANGED <<stored, fetch, fetched, grid, puts>>
  BY DEF Choose
<1> HIDE DEF merged
<1>7. merged # NotLoaded
  BY <1>4, DistinctValues DEF Settings, Layouts
<1>8. Len(Foreign) = 0
  <2>1. Len(timers) \in Nat /\ Len(Foreign) \in Nat /\ Len(Foreign) <= Len(timers)
    BY ForeignTimers DEF TypeOK
  <2>2. \A i \in 1..Len(Foreign) : Foreign[i] = timers[i] /\ ~Foreign[i].own
    BY ForeignTimers
  <2>3. \A i \in 1..Len(timers) : timers[i].own
    BY <1>2 DEF CalmInv
  <2>4. ASSUME Len(Foreign) # 0 PROVE FALSE
    <3>1. 1 \in 1..Len(Foreign) /\ 1 \in 1..Len(timers)
      BY <2>1, <2>4
    <3> QED BY <2>2, <2>3, <3>1
  <2> QED BY <2>4
<1>9. Len(timers') = 1 /\ timers'[1] = [settings |-> merged, own |-> TRUE]
  BY <1>4, <1>6, <1>8, AddedTimer
<1>10. \A i \in 1..Len(timers') : timers'[i].own /\ timers'[i].settings = merged
  BY <1>9
<1>11. timers' # <<>>
  BY <1>9
<1> QED
  BY <1>1, <1>2, <1>3, <1>4, <1>5, <1>6, <1>7, <1>10 DEF CalmInv, Keeps

LEMMA FireCalm == ASSUME TypeOK, CalmInv, Fire, ~overlapped' PROVE CalmInv'
<1>1. timers # <<>> /\ timers' = Tail(timers)
  BY DEF Fire
<1>2. ~overlapped /\ puts = {} /\ fetch = "none"
  BY DEF Fire, Begins
<1>3. /\ Head(timers) = timers[1] /\ 1 \in 1..Len(timers) /\ timers[1] \in Timers
      /\ timers' \in Seq(Timers) /\ Len(timers') = Len(timers) - 1
  BY <1>1, FiredTimer
<1>4. Len(timers) = 1
  BY <1>2, <1>3 DEF CalmInv, TypeOK
<1>5. timers' = <<>> /\ Len(timers') = 0
  BY <1>3, <1>4
<1>6. puts' = {[settings |-> timers[1].settings, at |-> "sent", listening |-> TRUE]}
  BY <1>2, <1>3 DEF Fire
<1>7. cache # NotLoaded /\ Keeps(timers[1].settings)
  BY <1>1, <1>2, <1>3 DEF CalmInv
<1>8. UNCHANGED <<stored, cache, fetch, fetched, grid, shown>>
  BY DEF Fire
<1>9. \A p \in puts' : p.at = "sent" /\ p.settings = timers[1].settings
  BY <1>6
<1> QED BY <1>2, <1>5, <1>6, <1>7, <1>8, <1>9 DEF CalmInv, Keeps

LEMMA ReloadCalm == ASSUME TypeOK, CalmInv, Reload, ~overlapped' PROVE CalmInv'
<1>1. puts = {}
  BY DEF Reload, Begins
<1>2. puts' = {} /\ timers' = <<>> /\ Len(timers') = 0
  BY <1>1 DEF Reload
<1> QED BY <1>2 DEF Reload, CalmInv

LEMMA GetCalm == ASSUME TypeOK, CalmInv, Fetch \/ ServeGet \/ FetchFails \/ Loaded, ~overlapped' PROVE CalmInv'
<1>1. ~overlapped /\ UNCHANGED <<stored, grid, timers, puts>>
  BY DEF Fetch, ServeGet, FetchFails, Loaded, Begins, TypeOK
<1>2. timers = <<>> /\ puts = {} /\ grid # None
  BY <1>1 DEF Fetch, ServeGet, FetchFails, Loaded, CalmInv, Begins
<1>3. Len(timers') = 0
  BY <1>1, <1>2
<1>4. fetch' = "answered" => fetched' = stored'
  BY DEF Fetch, ServeGet, FetchFails, Loaded
<1>5. CASE Loaded
  <2>1. cache' = stored'
    BY <1>1, <1>5 DEF Loaded, CalmInv
  <2>2. stored'[grid'] \subseteq shown'
    BY <1>1, <1>2, <1>5 DEF Loaded, CalmInv
  <2> QED BY <1>1, <1>2, <1>3, <1>4, <2>1, <2>2 DEF CalmInv
<1>6. CASE ~Loaded
  <2>1. UNCHANGED <<cache, shown>>
    BY <1>6 DEF Fetch, ServeGet, FetchFails
  <2> QED BY <1>1, <1>2, <1>3, <1>4, <2>1 DEF CalmInv
<1> QED BY <1>5, <1>6

LEMMA PutCalm == ASSUME TypeOK, CalmInv, NEW p \in puts, PutStep(p), ~overlapped' PROVE CalmInv'
<1>1. ~overlapped /\ UNCHANGED <<fetch, fetched, grid, shown, timers>>
  BY DEF PutStep, StorePut, StoreFails, Acknowledge, GiveUp, LoseTouch, tab
<1>2. puts = {p} /\ timers = <<>> /\ cache # NotLoaded /\ fetch = "none" /\ grid # None
  BY <1>1 DEF CalmInv
<1>3. Len(timers') = 0
  BY <1>1, <1>2
<1>4. \A q \in puts' : /\ q.settings = p.settings
                       /\ \/ q.at = p.at /\ LoseTouch(p)
                          \/ q.at = "stored" /\ StorePut(p)
                          \/ q.at = "failed" /\ StoreFails(p)
  BY <1>2, PutStepPuts
<1>5. \A q, r \in puts' : q = r
  BY <1>2 DEF PutStep, StorePut, StoreFails, Acknowledge, GiveUp, LoseTouch, Becomes
<1>6. CASE StorePut(p)
  <2>1. stored' = p.settings /\ cache' = cache /\ Keeps(p.settings)
    BY <1>1, <1>2, <1>6 DEF StorePut, tab, CalmInv
  <2> QED BY <1>1, <1>2, <1>3, <1>4, <1>5, <1>6, <2>1 DEF CalmInv, Keeps, StoreFails, LoseTouch
<1>7. CASE Acknowledge(p)
  <2>1. puts' = {} /\ cache' = stored' /\ stored' = stored /\ p.settings = stored
    BY <1>1, <1>2, <1>7 DEF Acknowledge, CalmInv
  <2> QED BY <1>1, <1>2, <1>3, <2>1 DEF CalmInv
<1>8. CASE ~StorePut(p) /\ (StoreFails(p) \/ GiveUp(p) \/ LoseTouch(p))
  <2>1. UNCHANGED <<stored, cache>>
    BY <1>8 DEF StoreFails, GiveUp, LoseTouch, tab
  <2>2. \A q \in puts' : q.settings = p.settings /\ q.at \in {p.at, "failed"}
    BY <1>4, <1>8
  <2> QED BY <1>1, <1>2, <1>3, <1>5, <2>1, <2>2 DEF CalmInv, Keeps
<1> QED BY <1>6, <1>7, <1>8 DEF PutStep

LEMMA StepCalm == TypeOK /\ CalmInv /\ [Next]_vars => CalmInv'
<1> SUFFICES ASSUME TypeOK, CalmInv, [Next]_vars, ~overlapped' PROVE CalmInv'
  BY DEF CalmInv
<1>1. CASE UNCHANGED vars
  BY <1>1 DEF vars, tab, CalmInv, Keeps
<1> QED BY <1>1, SelectCalm, ChooseCalm, FireCalm, ReloadCalm, GetCalm, PutCalm DEF Next, PutStep

---------------------------------------------------------------------------
(* The theorems *)

LEMMA Inductive == Spec => []IndInv
<1>1. Init => IndInv
  BY InitType, InitInv DEF IndInv
<1>2. IndInv /\ [Next]_vars => IndInv'
  BY StepType, StepHonest, StepCalm DEF IndInv
<1> QED BY <1>1, <1>2, PTL DEF Spec

\* What is stored, cached, fetched, shown and sent keeps its type, and a grid has
\* one debounce timer at most (useObjectLayout.ts:53).
THEOREM TypeCorrect == Spec => []TypeOK
<1>1. IndInv => TypeOK
  BY DEF IndInv
<1> QED BY Inductive, <1>1, PTL

\* However many grids come and go, with timers and requests pending and answers
\* in any order, the server never holds a layout under another object.
THEOREM NoMixup == Spec => []LayoutsStayApart
<1>1. IndInv => LayoutsStayApart
  BY DEF IndInv, HonestInv, Honest, LayoutsStayApart
<1> QED BY Inductive, <1>1, PTL

\* Without overlaps the grid knows all that is stored for its object.
THEOREM GridIsComplete == Spec => []GridShowsStored
<1>1. IndInv => GridShowsStored
  BY DEF IndInv, CalmInv, GridShowsStored
<1> QED BY Inductive, <1>1, PTL

\* Only a save changes what is stored, and one that overlaps nothing keeps it.
LEMMA StepKeeps == IndInv /\ [Next]_vars => [~overlapped' => NothingLost]_vars
<1> SUFFICES ASSUME IndInv, Next, ~overlapped' PROVE NothingLost
  BY DEF vars
<1>1. TypeOK /\ CalmInv
  BY DEF IndInv
<1>2. ASSUME NEW p \in puts, StorePut(p) PROVE NothingLost
  <2>1. ~overlapped /\ p.at = "sent" /\ stored' = p.settings
    BY <1>1, <1>2 DEF StorePut, TypeOK
  <2>2. cache # NotLoaded /\ Keeps(p.settings)
    BY <1>1, <2>1 DEF CalmInv
  <2> QED BY <2>1, <2>2 DEF Keeps, NothingLost
<1>3. CASE ~\E p \in puts : StorePut(p)
  <2>1. UNCHANGED stored
    BY <1>3 DEF Next, Select, Choose, Reload, Fetch, ServeGet, FetchFails, Loaded, Fire,
                StoreFails, Acknowledge, GiveUp, LoseTouch
  <2> QED BY <2>1 DEF NothingLost
<1> QED BY <1>2, <1>3

\* Saves that replace all settings lose no choice that an earlier one stored, for
\* this object or another, as long as nothing overlaps.
THEOREM NoChoiceLost == Spec => SavesKeepChoices
<1> QED BY Inductive, StepKeeps, PTL DEF Spec, SavesKeepChoices

=============================================================================
