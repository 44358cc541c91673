---------------------------- MODULE ControlProofs ---------------------------
(***************************************************************************)
(* Safety of the control plane for any number of processes and threads:    *)
(* what a call has left to do determines the connections it holds, so the  *)
(* pools can be counted; and what is left also says who holds the ladder's *)
(* lock, the admission lock and the task.                                  *)
(***************************************************************************)
EXTENDS ControlPlane, SequenceTheorems, FiniteSetTheorems, TLAPS

----------------------------------------------------------------------------
(* What a call can have left: a step, and one of these after it. *)

Words == {"flags", "load", "loading", "tiers", "fill", "filling", "open", "lock", "count",
          "insert", "close", "take", "route", "claim", "cost"}

Done == <<>>
ToTiers == <<"tiers", "open", "lock", "count", "insert">>
ToOpen == <<"open", "lock", "count", "insert">>
ToLock == <<"lock", "count", "insert">>
ToCount == <<"count", "insert">>
ToInsert == <<"insert">>
ToNested == <<"tiers", "close">>
ToPlain == <<"open", "close">>
ToClose == <<"close">>
ToTake == <<"take", "flags", "tiers", "route">>
ToFlags == <<"flags", "tiers", "route">>
ToLadder == <<"tiers", "route">>
ToRoute == <<"route">>
ToPrice == <<"tiers", "cost">>
ToCost == <<"cost">>

\* The step that todo begins with, and the rest of it.
First(s) == IF s = Done THEN "idle" ELSE Head(s)
Rest(s) == IF s = Done THEN Done ELSE Tail(s)
Place(s) == <<First(s), Rest(s)>>

FlagSteps == {"flags", "load", "loading"}
TierSteps == {"tiers", "fill", "filling"}

\* A worker's call; a classify that has yet to route, and one that has its task.
RunPlaces ==
  {<<"claim", ToPrice>>} \cup (TierSteps \X {ToCost}) \cup {<<"cost", Done>>}
SortPlaces ==
  (FlagSteps \X {ToLadder}) \cup (TierSteps \X {ToRoute}) \cup {<<"route", Done>>}
ClassifyPlaces == {<<"open", ToTake>>, <<"take", ToFlags>>} \cup SortPlaces
OtherPlaces ==
  (FlagSteps \X {ToTiers, ToOpen})
    \cup (TierSteps \X {ToOpen, ToClose, ToPlain})
    \cup {<<"open", ToLock>>, <<"open", ToNested>>, <<"open", ToClose>>, <<"lock", ToCount>>,
          <<"count", ToInsert>>, <<"insert", Done>>, <<"close", Done>>}
Places == RunPlaces \cup ClassifyPlaces \cup OtherPlaces \cup {<<"idle", Done>>}

\* The transaction of the call is open.
OpenPlaces ==
  SortPlaces \cup (TierSteps \X {ToClose})
    \cup {<<"take", ToFlags>>, <<"lock", ToCount>>, <<"count", ToInsert>>, <<"insert", Done>>,
          <<"close", Done>>}

\* The connections held at a place: that of the transaction and that of a cache.
Held(s) ==
  (IF Place(s) \in OpenPlaces THEN 1 ELSE 0) + (IF First(s) \in {"loading", "filling"} THEN 1 ELSE 0)

Sound(s) == s \in Seq(Words) /\ Place(s) \in Places

LEMMA RestPlaces ==
  /\ Place(Done) = <<"idle", Done>>
  /\ Place(ToTiers) = <<"tiers", ToOpen>> /\ Place(ToOpen) = <<"open", ToLock>>
  /\ Place(ToLock) = <<"lock", ToCount>> /\ Place(ToCount) = <<"count", ToInsert>>
  /\ Place(ToInsert) = <<"insert", Done>> /\ Place(ToNested) = <<"tiers", ToClose>>
  /\ Place(ToPlain) = <<"open", ToClose>> /\ Place(ToClose) = <<"close", Done>>
  /\ Place(ToTake) = <<"take", ToFlags>> /\ Place(ToFlags) = <<"flags", ToLadder>>
  /\ Place(ToLadder) = <<"tiers", ToRoute>> /\ Place(ToRoute) = <<"route", Done>>
  /\ Place(ToPrice) = <<"tiers", ToCost>> /\ Place(ToCost) = <<"cost", Done>>
BY DEF Place, First, Rest, Done, ToTiers, ToOpen, ToLock, ToCount, ToInsert, ToNested, ToPlain,
       ToClose, ToTake, ToFlags, ToLadder, ToRoute, ToPrice, ToCost

Rests == {Done, ToTiers, ToOpen, ToLock, ToCount, ToInsert, ToNested, ToPlain, ToClose, ToTake,
          ToFlags, ToLadder, ToRoute, ToPrice, ToCost}

LEMMA RestsTyped == Rests \subseteq Seq(Words)
<1>1. ToTiers \in Seq(Words) /\ ToOpen \in Seq(Words) /\ ToLock \in Seq(Words)
  BY DEF Words, ToTiers, ToOpen, ToLock
<1>2. ToCount \in Seq(Words) /\ ToInsert \in Seq(Words) /\ ToNested \in Seq(Words)
  BY DEF Words, ToCount, ToInsert, ToNested
<1>3. ToPlain \in Seq(Words) /\ ToClose \in Seq(Words) /\ ToTake \in Seq(Words)
  BY DEF Words, ToPlain, ToClose, ToTake
<1>4. ToFlags \in Seq(Words) /\ ToLadder \in Seq(Words) /\ ToRoute \in Seq(Words)
  BY DEF Words, ToFlags, ToLadder, ToRoute
<1>5. ToPrice \in Seq(Words) /\ ToCost \in Seq(Words) /\ Done \in Seq(Words)
  BY DEF Words, ToPrice, ToCost, Done
<1> QED
  BY <1>1, <1>2, <1>3, <1>4, <1>5 DEF Rests

\* Where a place is a pair of a step and a rest, so no two of these are the same.
LEMMA RestsDistinct ==
  /\ ToClose \notin {ToOpen, ToPlain, ToRoute, ToCost}
  /\ ToRoute \notin {ToOpen, ToPlain, ToCost}
  /\ ToCost \notin {ToOpen, ToPlain} /\ ToOpen # ToPlain
  /\ ToLadder \notin {ToTiers, ToOpen} /\ ToTiers # ToOpen
  /\ ToTake \notin {ToLock, ToNested, ToClose} /\ ToLock \notin {ToNested, ToClose}
  /\ ToNested # ToClose
BY DEF ToTiers, ToOpen, ToLock, ToNested, ToPlain, ToClose, ToTake, ToLadder, ToRoute, ToCost

LEMMA TurnedHead ==
  ASSUME NEW s \in Seq(Words), s # Done, NEW x \in Words
  PROVE /\ <<x>> \o Tail(s) \in Seq(Words)
        /\ Place(<<x>> \o Tail(s)) = <<x, Rest(s)>>
<1> DEFINE u == Tail(s)
<1>1. u \in Seq(Words)
  BY HeadTailProperties DEF Done
<1> HIDE DEF u
<1>2. /\ <<x>> \in Seq(Words)
      /\ Len(<<x>>) = 1
      /\ <<x>>[1] = x
  <2>1. <<x>> \in Seq(Words)
    OBVIOUS
  <2>2. Len(<<x>>) = 1
    OBVIOUS
  <2>3. <<x>>[1] = x
    OBVIOUS
  <2> QED
    BY <2>1, <2>2, <2>3
<1>3. /\ <<x>> \o u \in Seq(Words)
      /\ Len(<<x>> \o u) = 1 + Len(u)
      /\ (<<x>> \o u)[1] = x
  <2> DEFINE v == <<x>>
  <2>1. v \in Seq(Words) /\ Len(v) = 1 /\ v[1] = x
    BY <1>2
  <2> HIDE DEF v
  <2>2. /\ v \o u \in Seq(Words) /\ Len(v \o u) = 1 + Len(u)
        /\ \A i \in 1 .. 1 + Len(u) : (v \o u)[i] = IF i <= 1 THEN v[i] ELSE u[i - 1]
    <3>1. /\ v \o u \in Seq(Words)
          /\ Len(v \o u) = Len(v) + Len(u)
          /\ \A i \in 1 .. Len(v) + Len(u) :
               (v \o u)[i] = IF i <= Len(v) THEN v[i] ELSE u[i - Len(v)]
      BY <1>1, <2>1, ConcatProperties
    <3> QED
      BY <2>1, <3>1
  <2>3. Len(u) \in Nat
    BY <1>1
  <2>4. (v \o u)[1] = x
    BY <2>1, <2>2, <2>3
  <2> QED
    BY <2>2, <2>4 DEF v
<1>4. Tail(<<x>> \o u) = u
  BY <1>1
<1>5. <<x>> \o u # <<>>
  BY <1>1, <1>3
<1> QED
  BY <1>3, <1>4, <1>5 DEF u, Place, First, Rest, Done

LEMMA FirstRest ==
  ASSUME NEW s \in Seq(Words), s # Done
  PROVE Head(s) = First(s) /\ Tail(s) = Rest(s)
BY DEF First, Rest

\* A call that has its price to find.
PricePlaces == (TierSteps \X {ToCost}) \cup {<<"cost", Done>>}

\* Which call a rest belongs to.
LEMMA RestRoles ==
  ASSUME NEW u \in Rests
  PROVE /\ Place(u) \in Places
        /\ Place(u) \in RunPlaces <=> u \in {ToPrice, ToCost}
        /\ Place(u) \in PricePlaces <=> u \in {ToPrice, ToCost}
        /\ Place(u) \in ClassifyPlaces <=> u \in {ToTake, ToFlags, ToLadder, ToRoute}
        /\ Place(u) \in SortPlaces <=> u \in {ToFlags, ToLadder, ToRoute}
        /\ Place(u) \in OpenPlaces <=>
             u \in {ToLock, ToCount, ToInsert, ToNested, ToClose, ToTake, ToFlags, ToLadder, ToRoute}
<1> USE RestPlaces, RestsDistinct
    DEF Places, RunPlaces, PricePlaces, ClassifyPlaces, SortPlaces, OtherPlaces, OpenPlaces,
        FlagSteps, TierSteps
<1>1. CASE u \in {Done, ToTiers, ToOpen}
  BY <1>1
<1>2. CASE u \in {ToLock, ToCount, ToInsert}
  BY <1>2
<1>3. CASE u \in {ToNested, ToPlain, ToClose}
  BY <1>3
<1>4. CASE u \in {ToTake, ToFlags, ToLadder}
  BY <1>4
<1>5. CASE u \in {ToRoute, ToPrice, ToCost}
  BY <1>5
<1> QED
  BY <1>1, <1>2, <1>3, <1>4, <1>5 DEF Rests

\* The steps that end with Passes, and those that turn into another step.
PassingSteps == {"flags", "loading", "tiers", "filling", "open", "lock", "count", "claim", "take"}
Turns == {<<"flags", "load">>, <<"load", "loading">>, <<"tiers", "fill">>, <<"fill", "filling">>}

\* What a call is left with when it passes a step.
LEMMA Passing ==
  ASSUME NEW s, Sound(s), First(s) \in PassingSteps
  PROVE LET t == Tail(s)
        IN /\ Sound(t) /\ t # Done /\ t = Rest(s)
           /\ Held(t) = Held(s) + (IF First(s) = "open" THEN 1 ELSE 0)
                                - (IF First(s) \in {"loading", "filling"} THEN 1 ELSE 0)
           /\ Place(t) \in RunPlaces <=> Place(s) \in RunPlaces
           /\ Place(t) \in ClassifyPlaces => Place(s) \in ClassifyPlaces
           /\ Place(t) \in SortPlaces => Place(s) \in SortPlaces \/ First(s) = "take"
           /\ Place(t) \in PricePlaces => Place(s) \in PricePlaces \/ First(s) = "claim"
           /\ First(t) \notin {"load", "loading", "fill", "filling"}
           /\ First(t) = "count" => First(s) = "lock"
           /\ First(t) = "insert" => First(s) = "count"
           /\ First(t) \in {"route", "cost"} => First(s) \in TierSteps
<1> DEFINE k == First(s)
<1> DEFINE t == Rest(s)
<1>1. s # Done /\ s \in Seq(Words)
  BY DEF Sound, PassingSteps, First
<1>2. Tail(s) = t
  BY <1>1, FirstRest
<1>3. <<k, t>> \in Places /\ Place(s) = <<k, t>> /\ k \in PassingSteps
  BY DEF Sound, Place
<1> HIDE DEF k, t
<1>4. \/ k = "open" /\ t \in {ToLock, ToNested, ToClose, ToTake}
      \/ k \in {"flags", "loading"} /\ t \in {ToTiers, ToOpen, ToLadder}
      \/ k \in {"tiers", "filling"} /\ t \in {ToOpen, ToClose, ToPlain, ToRoute, ToCost}
      \/ k = "lock" /\ t = ToCount
      \/ k = "count" /\ t = ToInsert
      \/ k = "take" /\ t = ToFlags
      \/ k = "claim" /\ t = ToPrice
  BY <1>3
  DEF Places, RunPlaces, ClassifyPlaces, SortPlaces, OtherPlaces, PassingSteps, FlagSteps, TierSteps
<1>5. t \in Rests \ {Done}
  BY <1>4, RestPlaces DEF Rests, Place
<1>6. Sound(t)
  BY <1>5, RestRoles, RestsTyped DEF Sound
<1>7. First(t) \notin {"load", "loading", "fill", "filling"}
  BY <1>5, RestPlaces DEF Rests, Place
<1>8. Held(t) = Held(s) + (IF k = "open" THEN 1 ELSE 0)
                        - (IF k \in {"loading", "filling"} THEN 1 ELSE 0)
  <2>1. Held(t) = IF Place(t) \in OpenPlaces THEN 1 ELSE 0
    BY <1>7 DEF Held
  <2>2. Held(s) = (IF <<k, t>> \in OpenPlaces THEN 1 ELSE 0)
                + (IF k \in {"loading", "filling"} THEN 1 ELSE 0)
    BY <1>3 DEF Held, k
  <2>3. Place(t) \in OpenPlaces <=> k = "open" \/ <<k, t>> \in OpenPlaces
    BY <1>4, RestPlaces, RestsDistinct
    DEF OpenPlaces, SortPlaces, FlagSteps, TierSteps
  <2>4. k = "open" => <<k, t>> \notin OpenPlaces
    BY DEF OpenPlaces, SortPlaces, FlagSteps, TierSteps
  <2> QED
    BY <2>1, <2>2, <2>3, <2>4
<1>9. /\ Place(t) \in RunPlaces <=> <<k, t>> \in RunPlaces
      /\ Place(t) \in ClassifyPlaces => <<k, t>> \in ClassifyPlaces
      /\ Place(t) \in SortPlaces => <<k, t>> \in SortPlaces \/ k = "take"
      /\ Place(t) \in PricePlaces => <<k, t>> \in PricePlaces \/ k = "claim"
  BY <1>4, RestPlaces, RestsDistinct
  DEF RunPlaces, ClassifyPlaces, SortPlaces, PricePlaces, FlagSteps, TierSteps
<1>10. /\ First(t) = "count" => k = "lock"
       /\ First(t) = "insert" => k = "count"
       /\ First(t) \in {"route", "cost"} => k \in TierSteps
  BY <1>4, RestPlaces DEF Place, TierSteps
<1> QED
  BY <1>2, <1>3, <1>5, <1>6, <1>7, <1>8, <1>9, <1>10 DEF k, t

\* What a call is left with when a step turns into the next one of its kind.
LEMMA Turning ==
  ASSUME NEW s, Sound(s), NEW x, <<First(s), x>> \in Turns
  PROVE LET t == <<x>> \o Tail(s)
        IN /\ Sound(t) /\ First(t) = x
           /\ Held(t) = Held(s) + (IF x \in {"loading", "filling"} THEN 1 ELSE 0)
           /\ Place(t) \in RunPlaces <=> Place(s) \in RunPlaces
           /\ Place(t) \in ClassifyPlaces <=> Place(s) \in ClassifyPlaces
           /\ Place(t) \in SortPlaces <=> Place(s) \in SortPlaces
           /\ Place(t) \in PricePlaces <=> Place(s) \in PricePlaces
<1> DEFINE k == First(s)
<1> DEFINE u == Rest(s)
<1> DEFINE t == <<x>> \o Tail(s)
<1>1. s # Done /\ s \in Seq(Words) /\ x \in Words
  BY DEF Sound, Turns, First, Words
<1>2. t \in Seq(Words) /\ Place(t) = <<x, u>> /\ First(t) = x
  <2>1. t \in Seq(Words) /\ Place(t) = <<x, u>>
    BY <1>1, TurnedHead
  <2> QED
    BY <2>1 DEF Place
<1>3. <<k, u>> \in Places /\ Place(s) = <<k, u>> /\ <<k, x>> \in Turns
  BY DEF Sound, Place
<1>4. /\ \/ k \in FlagSteps /\ x \in FlagSteps
         \/ k \in TierSteps /\ x \in TierSteps
      /\ k \notin {"loading", "filling"}
  BY <1>3 DEF Turns, FlagSteps, TierSteps
<1> HIDE DEF k, u, t
<1>5. /\ <<x, u>> \in Places
      /\ <<x, u>> \in OpenPlaces <=> <<k, u>> \in OpenPlaces
      /\ <<x, u>> \in RunPlaces <=> <<k, u>> \in RunPlaces
      /\ <<x, u>> \in ClassifyPlaces <=> <<k, u>> \in ClassifyPlaces
      /\ <<x, u>> \in SortPlaces <=> <<k, u>> \in SortPlaces
      /\ <<x, u>> \in PricePlaces <=> <<k, u>> \in PricePlaces
  BY <1>3, <1>4
  DEF Places, RunPlaces, ClassifyPlaces, SortPlaces, OtherPlaces, PricePlaces, OpenPlaces,
      FlagSteps, TierSteps
<1>6. Held(t) = Held(s) + (IF x \in {"loading", "filling"} THEN 1 ELSE 0)
  BY <1>2, <1>3, <1>4, <1>5 DEF Held, k
<1> QED
  BY <1>2, <1>3, <1>5, <1>6 DEF Sound, t, k

\* What each process starts its calls with.
Starts(p) ==
  CASE Role[p] = "api"          -> {<<"flags", ToTiers>>, <<"flags", ToOpen>>, <<"open", ToNested>>,
                                    <<"tiers", ToPlain>>, <<"open", ToClose>>}
    [] Role[p] = "orchestrator" -> {<<"open", ToTake>>, <<"open", ToNested>>, <<"open", ToClose>>}
    [] Role[p] = "worker"       -> {<<"claim", ToPrice>>}
    [] OTHER                    -> {}

LEMMA Starting ==
  ASSUME NEW p, NEW call \in Serves(p)
  PROVE LET t == Steps(call)
        IN /\ Sound(t) /\ t # Done /\ Held(t) = 0
           /\ Role[p] \in {"api", "orchestrator", "worker"}
           /\ Place(t) \in RunPlaces <=> Role[p] = "worker"
           /\ Place(t) \in ClassifyPlaces => Role[p] = "orchestrator"
           /\ Place(t) \notin SortPlaces \cup PricePlaces
           /\ First(t) \in {"flags", "open", "tiers", "claim"}
<1> DEFINE t == Steps(call)
<1>1. Role[p] \in {"api", "orchestrator", "worker"}
  BY DEF Serves
<1>2. call \in {"submit", "pinned", "nested", "config", "plain", "classify", "run"}
  BY <1>1 DEF Serves
<1>3. t \in Seq(Words) /\ Place(t) \in Starts(p) /\ t # Done
  <2>1. CASE call = "submit"
    BY <1>1, <2>1 DEF Steps, Serves, Starts, Place, First, Rest, Done, Words, ToTiers
  <2>2. CASE call = "pinned"
    BY <1>1, <2>2 DEF Steps, Serves, Starts, Place, First, Rest, Done, Words, ToOpen
  <2>3. CASE call = "nested"
    BY <1>1, <2>3 DEF Steps, Serves, Starts, Place, First, Rest, Done, Words, ToNested
  <2>4. CASE call = "config"
    BY <1>1, <2>4 DEF Steps, Serves, Starts, Place, First, Rest, Done, Words, ToPlain
  <2>5. CASE call = "plain"
    BY <1>1, <2>5 DEF Steps, Serves, Starts, Place, First, Rest, Done, Words, ToClose
  <2>6. CASE call = "classify"
    BY <1>1, <2>6 DEF Steps, Serves, Starts, Place, First, Rest, Done, Words, ToTake
  <2>7. CASE call = "run"
    BY <1>1, <2>7 DEF Steps, Serves, Starts, Place, First, Rest, Done, Words, ToPrice
  <2> QED
    BY <1>2, <2>1, <2>2, <2>3, <2>4, <2>5, <2>6, <2>7
<1> HIDE DEF t
<1>4. Place(t) = <<First(t), Rest(t)>>
  BY DEF Place
<1>5. /\ First(t) \in {"flags", "open", "tiers", "claim"}
      /\ Place(t) \in Places /\ Place(t) \notin OpenPlaces \cup SortPlaces \cup PricePlaces
      /\ Place(t) \in RunPlaces <=> Role[p] = "worker"
      /\ Place(t) \in ClassifyPlaces => Role[p] = "orchestrator"
  BY <1>1, <1>3, <1>4, RestsDistinct
  DEF Starts, Places, RunPlaces, ClassifyPlaces, SortPlaces, OtherPlaces, PricePlaces, OpenPlaces,
      FlagSteps, TierSteps
<1>6. Held(t) = 0
  BY <1>5 DEF Held
<1> QED
  BY <1>1, <1>3, <1>5, <1>6 DEF Sound, t

----------------------------------------------------------------------------
(* The invariant *)

PoolTypes ==
  /\ todo \in [Threads -> Seq(Words)]
  /\ free \in [Processes -> Nat] /\ conns \in [Threads -> Nat]
  /\ lock \in [Processes -> Threads \cup {Nobody}] /\ fresh \in [Processes -> BOOLEAN]
  /\ cache \in [Processes -> SUBSET Tiers]
TaskTypes ==
  /\ ladder \in (SUBSET Tiers) \ {{}}
  /\ advisory \in Threads \cup {Nobody} /\ admitted \in Nat /\ seeded \in Nat
  /\ tier \in Tiers /\ status \in {"pending", "running", "succeeded", "failed", "dead"}
  /\ holder \in Threads \cup {Nobody}
  /\ calls \in [Processes -> Nat]

\* A thread is at a place of a call that its process serves.
Fits(r, s) ==
  /\ Sound(s)
  /\ s # Done => (Place(s) \in RunPlaces <=> Role[Home[r]] = "worker")
  /\ Place(s) \in ClassifyPlaces => Role[Home[r]] = "orchestrator"
OnCourse == \A r \in Threads : Fits(r, todo[r])

\* The connections of p that are checked out of a pool with counts c, one by one.
CheckedOut(c, p) == UNION {{r} \X (1 .. c[r]) : r \in {q \in Threads : Home[q] = p}}
Counted(c, n, p) ==
  IsFiniteSet(CheckedOut(c, p)) /\ n + Cardinality(CheckedOut(c, p)) = PoolMax[p]

\* No connection is lost, and each is where its thread's place says.
PoolCounted ==
  /\ \A r \in Threads : conns[r] = Held(todo[r])
  /\ \A p \in Processes : Counted(conns, free[p], p)

\* The lock of the ladder is taken exactly while the copy is being filled.
Filling(r) == First(todo[r]) \in {"fill", "filling"}
LadderLocked ==
  /\ \A r \in Threads : Filling(r) => lock[Home[r]] = r /\ cache[Home[r]] = Cold
  /\ \A p \in Processes : lock[p] # Nobody => Home[lock[p]] = p /\ Filling(lock[p])

PoolInv == PoolTypes /\ OnCourse /\ PoolCounted /\ LadderLocked

\* Between the count and the commit of an admission, the admission lock is held.
AdmissionLocked ==
  \A r \in Threads :
    /\ First(todo[r]) \in {"count", "insert"} => advisory = r
    /\ First(todo[r]) = "insert" => admitted + Count[r] <= MaxActive
AdmissionInv == AdmissionLocked /\ AdmittedWithinLimit

\* Copies of the ladder are old, never wrong; and a worker's has the tier it drains.
CopiesOld ==
  /\ tier \in ladder
  /\ \A p \in Processes : cache[p] \subseteq ladder
  /\ \A p \in Processes : Role[p] = "worker" /\ cache[p] # Cold => PoolTier[p] \in cache[p]
  /\ \A r \in Threads : First(todo[r]) \in {"route", "cost"} => cache[Home[r]] # Cold

\* Whoever will price the task, or route it, holds it.
TaskHeld ==
  \A r \in Threads :
    /\ Place(todo[r]) \in PricePlaces =>
         holder = r /\ status = "running" /\ tier = PoolTier[Home[r]]
    /\ Place(todo[r]) \in SortPlaces => holder = r /\ status = "failed"
LadderInv == CopiesOld /\ TaskHeld

ControlInv == PoolInv /\ TaskTypes /\ AdmissionInv /\ LadderInv

----------------------------------------------------------------------------
(* Lowest, and the counting of connections *)

\* Every nonempty set of numbers has a least one, which Lowest is.
LEMMA LowestIsLeast ==
  ASSUME NEW S \in SUBSET Nat, S # {}
  PROVE Lowest(S) \in S /\ \A j \in S : Lowest(S) <= j
<1> DEFINE T == {0 .. k : k \in S}
<1>1. PICK x \in T : \A y \in T : <<y, x>> \notin StrictSubsetOrdering(Nat)
  <2>1. T \subseteq FiniteSubsetsOf(Nat) /\ T # {}
    <3>1. \A k \in S : 0 .. k \in SUBSET Nat /\ IsFiniteSet(0 .. k)
      <4>1. \A k \in Int : IsFiniteSet(0 .. k)
        BY FS_Interval
      <4> QED
        BY <4>1
    <3> QED
      BY <3>1 DEF FiniteSubsetsOf
  <2> HIDE DEF T
  <2> QED
    BY <2>1, FS_StrictSubsetOrderingWellFounded, WFMin
<1>2. PICK k \in S : x = 0 .. k
  BY <1>1
<1>3. ASSUME NEW j \in S, j < k PROVE FALSE
  <2>1. 0 .. j \in T /\ 0 .. j \in SUBSET Nat /\ 0 .. k \in SUBSET Nat
    BY <1>3
  <2>2. 0 .. j \subseteq 0 .. k /\ k \in 0 .. k /\ k \notin 0 .. j
    BY <1>3
  <2> QED
    BY <1>1, <1>2, <2>1, <2>2 DEF StrictSubsetOrdering
<1>4. \A j \in S : k <= j
  BY <1>2, <1>3
<1> QED
  BY <1>2, <1>4 DEF Lowest

\* next_tier, with a copy of the ladder whatever it holds.
LEMMA NextTierClimbs ==
  ASSUME NEW rows \in SUBSET Tiers, NEW k \in Tiers
  PROVE LET n == NextTier(rows, k)
        IN /\ n # NoTier => n \in rows /\ n > k /\ n = Lowest(Above(rows, k))
           /\ n = NoTier /\ k \in rows => Above(rows, k) = {}
<1>1. Above(rows, k) \in SUBSET Nat /\ NoTier \notin Above(rows, k)
  BY TierAssumption DEF Above, NoTier
<1>2. Above(rows, k) # {} => Lowest(Above(rows, k)) \in Above(rows, k)
  BY <1>1, LowestIsLeast
<1> QED
  BY <1>1, <1>2 DEF NextTier, Above

LEMMA CountedNone ==
  ASSUME NEW c \in [Threads -> Nat], NEW p \in Processes, \A r \in Threads : Home[r] = p => c[r] = 0
  PROVE Counted(c, PoolMax[p], p)
<1>1. CheckedOut(c, p) = {}
  BY DEF CheckedOut
<1> QED
  BY <1>1, FS_EmptySet, PoolAssumption DEF Counted

LEMMA CountedSame ==
  ASSUME NEW c, NEW d, NEW n, NEW p \in Processes, \A r \in Threads : Home[r] = p => c[r] = d[r]
  PROVE Counted(c, n, p) <=> Counted(d, n, p)
<1>1. CheckedOut(c, p) = CheckedOut(d, p)
  BY DEF CheckedOut
<1> QED
  BY <1>1 DEF Counted

\* One connection more with a thread is one less in the pool, and the other way.
LEMMA CountedOne ==
  ASSUME NEW r \in Threads, NEW c \in [Threads -> Nat], NEW d \in [Threads -> Nat],
         d[r] = c[r] + 1, \A q \in Threads \ {r} : d[q] = c[q], NEW n \in Int
  PROVE Counted(c, n, Home[r]) <=> Counted(d, n - 1, Home[r])
<1> DEFINE p == Home[r]
<1> DEFINE new == <<r, c[r] + 1>>
<1>1. \A b \in [Threads -> Nat] : \A q \in Threads : \A i :
        <<q, i>> \in CheckedOut(b, p) <=> Home[q] = p /\ i \in 1 .. b[q]
  BY DEF CheckedOut
<1>2. \A b \in [Threads -> Nat] : \A x \in CheckedOut(b, p) : \E q \in Threads : \E i : x = <<q, i>>
  BY DEF CheckedOut
<1>3. new \notin CheckedOut(c, p)
  BY <1>1
<1>4. CheckedOut(d, p) = CheckedOut(c, p) \cup {new}
  <2>1. ASSUME NEW q \in Threads, NEW i
        PROVE <<q, i>> \in CheckedOut(d, p) <=> <<q, i>> \in CheckedOut(c, p) \cup {new}
    <3>1. CASE q = r
      <4>1. c[r] \in Nat
        OBVIOUS
      <4>2. i \in 1 .. d[r] <=> i \in 1 .. c[r] \/ i = c[r] + 1
        BY <4>1
      <4> QED
        BY <1>1, <3>1, <4>2
    <3>2. CASE q # r
      BY <1>1, <3>2
    <3> QED
      BY <3>1, <3>2
  <2>2. \A x \in CheckedOut(d, p) : x \in CheckedOut(c, p) \cup {new}
    BY <1>2, <2>1
  <2>3. \A x \in CheckedOut(c, p) \cup {new} : x \in CheckedOut(d, p)
    BY <1>2, <2>1
  <2> QED
    BY <2>2, <2>3
<1> HIDE DEF new
<1>5. ASSUME IsFiniteSet(CheckedOut(c, p))
      PROVE /\ IsFiniteSet(CheckedOut(d, p))
            /\ Cardinality(CheckedOut(d, p)) = Cardinality(CheckedOut(c, p)) + 1
            /\ Cardinality(CheckedOut(c, p)) \in Nat
  BY <1>3, <1>4, <1>5, FS_AddElement, FS_CardinalityType
<1>6. ASSUME IsFiniteSet(CheckedOut(d, p)) PROVE IsFiniteSet(CheckedOut(c, p))
  <2>1. CheckedOut(c, p) \in SUBSET CheckedOut(d, p)
    BY <1>4
  <2> QED
    BY <1>6, <2>1, FS_Subset
<1>7. PoolMax[p] \in Nat
  BY PoolAssumption
<1> QED
  BY <1>5, <1>6, <1>7 DEF Counted

----------------------------------------------------------------------------
(* Connections and locks follow the place of a thread *)

LEMMA HeldType == \A s : Held(s) \in 0 .. 2
BY DEF Held

\* A thread that goes on keeps the others where they are.
LEMMA Going ==
  ASSUME PoolTypes, OnCourse, NEW r \in Threads, NEW t, Goes(r, t), Fits(r, t)
  PROVE /\ todo'[r] = t /\ \A q \in Threads \ {r} : todo'[q] = todo[q]
        /\ todo' \in [Threads -> Seq(Words)] /\ OnCourse'
<1>1. todo'[r] = t /\ \A q \in Threads \ {r} : todo'[q] = todo[q]
  BY DEF Goes, PoolTypes
<1>2. todo' \in [Threads -> Seq(Words)]
  BY DEF Goes, PoolTypes, Fits, Sound
<1> QED
  BY <1>1, <1>2 DEF OnCourse

\* One more, one less or as many connections with r, as its new place says.
LEMMA PoolChange ==
  ASSUME PoolInv, NEW r \in Threads, NEW t, Goes(r, t), Fits(r, t), NEW d \in {-1, 0, 1},
         Held(t) = Held(todo[r]) + d, free[Home[r]] >= d,
         conns' = [conns EXCEPT ![r] = @ + d], free' = [free EXCEPT ![Home[r]] = @ - d]
  PROVE PoolCounted' /\ conns' \in [Threads -> Nat] /\ free' \in [Processes -> Nat]
<1>1. /\ Home[r] \in Processes /\ conns \in [Threads -> Nat] /\ free \in [Processes -> Nat]
      /\ conns[r] = Held(todo[r])
  BY PoolAssumption DEF PoolInv, PoolTypes, PoolCounted
<1>2. conns'[r] = conns[r] + d /\ conns'[r] = Held(t) /\ \A q \in Threads \ {r} : conns'[q] = conns[q]
  BY <1>1
<1>3. conns' \in [Threads -> Nat]
  BY <1>1, <1>2, HeldType
<1>4. free'[Home[r]] = free[Home[r]] - d /\ \A p \in Processes \ {Home[r]} : free'[p] = free[p]
  BY <1>1
<1>5. free' \in [Processes -> Nat]
  BY <1>1, <1>4
<1>6. \A q \in Threads : conns'[q] = Held(todo'[q])
  BY <1>2, Going DEF PoolInv, PoolCounted
<1>7. ASSUME NEW p \in Processes PROVE Counted(conns', free'[p], p)
  <2>1. Counted(conns, free[p], p)
    BY DEF PoolInv, PoolCounted
  <2>2. CASE p # Home[r] \/ d = 0
    <3>1. \A q \in Threads : Home[q] = p => conns'[q] = conns[q]
      BY <1>1, <1>2, <2>2
    <3>2. free'[p] = free[p]
      BY <1>1, <1>4, <2>2
    <3> QED
      BY <2>1, <3>1, <3>2, CountedSame
  <2>3. CASE p = Home[r] /\ d = 1
    <3>1. /\ conns'[r] = conns[r] + 1 /\ free'[p] = free[p] - 1 /\ free[p] \in Int
          /\ Counted(conns, free[p], Home[r])
      BY <1>1, <1>2, <1>4, <2>1, <2>3
    <3>2. Counted(conns', free[p] - 1, Home[r])
      BY <1>1, <1>2, <1>3, <3>1, CountedOne
    <3> QED
      BY <2>3, <3>1, <3>2
  <2>4. CASE p = Home[r] /\ d = -1
    <3>1. /\ conns[r] = conns'[r] + 1 /\ free'[p] - 1 = free[p] /\ free'[p] \in Int
          /\ Counted(conns, free'[p] - 1, Home[r])
      BY <1>1, <1>2, <1>4, <2>1, <2>4
    <3>2. Counted(conns', free'[p], Home[r])
      BY <1>1, <1>2, <1>3, <3>1, CountedOne
    <3> QED
      BY <2>4, <3>2
  <2> QED
    BY <2>2, <2>3, <2>4
<1> QED
  BY <1>3, <1>5, <1>6, <1>7 DEF PoolCounted

LEMMA FitsDone == ASSUME NEW r PROVE Fits(r, Done) /\ Held(Done) = 0 /\ First(Done) = "idle"
<1>1. Place(Done) = <<"idle", Done>> /\ Done \in Rests /\ First(Done) = "idle"
  BY RestPlaces DEF Rests, Place
<1>2. Place(Done) \in Places /\ Place(Done) \notin OpenPlaces \cup ClassifyPlaces
  BY <1>1
  DEF Places, OpenPlaces, ClassifyPlaces, SortPlaces, FlagSteps, TierSteps
<1> QED
  BY <1>1, <1>2, RestsTyped DEF Fits, Sound, Held

\* A call that ends, or whose process does, gives back all it has.
LEMMA PoolEnds ==
  ASSUME PoolInv, NEW r \in Threads, Goes(r, Done),
         conns' = [conns EXCEPT ![r] = 0], free' = [free EXCEPT ![Home[r]] = @ + conns[r]]
  PROVE PoolCounted' /\ conns' \in [Threads -> Nat] /\ free' \in [Processes -> Nat]
<1>1. /\ Home[r] \in Processes /\ conns \in [Threads -> Nat] /\ free \in [Processes -> Nat]
      /\ conns[r] = Held(todo[r]) /\ conns[r] \in 0 .. 2
  <2>1. Held(todo[r]) \in 0 .. 2
    BY HeldType
  <2> QED
    BY <2>1, PoolAssumption DEF PoolInv, PoolTypes, PoolCounted
<1>2. /\ conns' \in [Threads -> Nat] /\ free' \in [Processes -> Nat]
      /\ conns'[r] = 0 /\ \A q \in Threads \ {r} : conns'[q] = conns[q]
      /\ free'[Home[r]] = free[Home[r]] + conns[r]
      /\ \A p \in Processes \ {Home[r]} : free'[p] = free[p]
  BY <1>1
<1>3. \A q \in Threads : conns'[q] = Held(todo'[q])
  BY <1>2, FitsDone, Going DEF PoolInv, PoolCounted
<1>4. ASSUME NEW p \in Processes PROVE Counted(conns', free'[p], p)
  <2>1. Counted(conns, free[p], p)
    BY DEF PoolInv, PoolCounted
  <2>2. CASE p # Home[r] \/ conns[r] = 0
    <3>1. \A q \in Threads : Home[q] = p => conns'[q] = conns[q]
      BY <1>1, <1>2, <2>2
    <3>2. free'[p] = free[p]
      BY <1>1, <1>2, <2>2
    <3> QED
      BY <2>1, <3>1, <3>2, CountedSame
  <2>3. CASE p = Home[r] /\ conns[r] = 1
    <3>1. /\ conns[r] = conns'[r] + 1 /\ free'[p] - 1 = free[p] /\ free'[p] \in Int
          /\ Counted(conns, free'[p] - 1, Home[r])
      BY <1>1, <1>2, <2>1, <2>3
    <3> QED
      BY <1>1, <1>2, <2>3, <3>1, CountedOne
  <2>4. CASE p = Home[r] /\ conns[r] = 2
    <3> DEFINE c == [conns EXCEPT ![r] = 1]
    <3>1. /\ c \in [Threads -> Nat] /\ c[r] = 1 /\ conns[r] = c[r] + 1
          /\ \A q \in Threads \ {r} : c[q] = conns[q]
      BY <1>1, <2>4
    <3> HIDE DEF c
    <3>2. free'[p] - 1 \in Int /\ (free'[p] - 1) - 1 = free[p] /\ free'[p] \in Int
      BY <1>1, <1>2, <2>4
    <3>3. Counted(conns, (free'[p] - 1) - 1, Home[r])
      BY <2>1, <2>4, <3>2
    <3>4. Counted(c, free'[p] - 1, Home[r])
      BY <1>1, <3>1, <3>2, <3>3, CountedOne
    <3>5. c[r] = conns'[r] + 1 /\ \A q \in Threads \ {r} : c[q] = conns'[q]
      BY <1>2, <3>1
    <3> QED
      BY <1>2, <2>4, <3>1, <3>2, <3>4, <3>5, CountedOne
  <2> QED
    BY <1>1, <2>2, <2>3, <2>4
<1> QED
  BY <1>2, <1>3, <1>4 DEF PoolCounted

\* A process that is started again has its whole pool, and its threads no call.
LEMMA PoolRestarts ==
  ASSUME PoolInv, NEW p \in Processes, Restarts(p)
  PROVE PoolInv'
<1>1. \A r \in Threads : /\ Home[r] \in Processes
                         /\ todo'[r] = IF Home[r] = p THEN Done ELSE todo[r]
                         /\ conns'[r] = IF Home[r] = p THEN 0 ELSE conns[r]
  BY PoolAssumption DEF Restarts, Done
<1>2. \A q \in Processes : /\ free'[q] = IF q = p THEN PoolMax[q] ELSE free[q]
                           /\ lock'[q] = IF q = p THEN Nobody ELSE lock[q]
                           /\ cache'[q] = IF q = p THEN Cold ELSE cache[q]
  BY DEF Restarts, PoolInv, PoolTypes
<1>3. PoolTypes'
  <2>1. Done \in Seq(Words)
    BY RestsTyped DEF Rests
  <2>2. Cold \in SUBSET Tiers /\ PoolMax[p] \in Nat
    BY PoolAssumption DEF Cold
  <2> QED
    BY <2>1, <2>2 DEF Restarts, PoolInv, PoolTypes, Done
<1>4. OnCourse'
  BY <1>1, FitsDone DEF PoolInv, OnCourse
<1>5. PoolCounted'
  <2>1. \A r \in Threads : conns'[r] = Held(todo'[r])
    BY <1>1, FitsDone DEF PoolInv, PoolCounted
  <2>2. ASSUME NEW q \in Processes PROVE Counted(conns', free'[q], q)
    <3>1. CASE q = p
      <4>1. \A r \in Threads : Home[r] = p => conns'[r] = 0
        BY <1>1
      <4>2. Counted(conns', PoolMax[p], p)
        BY <1>3, <4>1, CountedNone DEF PoolTypes
      <4> QED
        BY <1>2, <3>1, <4>2
    <3>2. CASE q # p
      <4>1. \A r \in Threads : Home[r] = q => conns'[r] = conns[r]
        BY <1>1, <3>2
      <4>2. Counted(conns, free[q], q) /\ free'[q] = free[q]
        BY <1>2, <3>2 DEF PoolInv, PoolCounted
      <4> QED
        BY <4>1, <4>2, CountedSame
    <3> QED
      BY <3>1, <3>2
  <2> QED
    BY <2>1, <2>2 DEF PoolCounted
<1>6. LadderLocked'
  <2>1. \A r \in Threads : Filling(r)' => Home[r] # p /\ Filling(r)
    BY <1>1, FitsDone DEF Filling
  <2>2. \A r \in Threads : Home[r] # p /\ Filling(r) => Filling(r)'
    BY <1>1 DEF Filling
  <2>3. \A q \in Processes : lock'[q] # Nobody => q # p /\ lock'[q] \in Threads
    BY <1>2, <1>3 DEF PoolTypes
  <2> QED
    BY <1>1, <1>2, <2>1, <2>2, <2>3 DEF PoolInv, LadderLocked
<1> QED
  BY <1>3, <1>4, <1>5, <1>6 DEF PoolInv

\* The lock of the ladder when a thread goes on: kept, taken, or left.
LEMMA LockKept ==
  ASSUME PoolInv, NEW r \in Threads, NEW t, Goes(r, t), Fits(r, t), UNCHANGED <<lock, cache>>,
         First(t) \in {"fill", "filling"} <=> Filling(r)
  PROVE LadderLocked'
<1>1. \A q \in Threads : Filling(q)' <=> Filling(q)
  BY Going DEF PoolInv, Filling
<1> QED
  BY <1>1 DEF PoolInv, PoolTypes, LadderLocked

LEMMA LockTaken ==
  ASSUME PoolInv, NEW r \in Threads, NEW t, Goes(r, t), Fits(r, t), First(t) = "fill",
         lock[Home[r]] = Nobody, lock' = [lock EXCEPT ![Home[r]] = r],
         cache[Home[r]] = Cold, UNCHANGED cache
  PROVE LadderLocked'
<1>1. \A q \in Threads : Filling(q)' <=> q = r \/ Filling(q)
  BY Going DEF PoolInv, Filling
<1>2. Home[r] \in Processes /\ r # Nobody /\ \A q \in Threads : Filling(q) => Home[q] # Home[r]
  BY PoolAssumption DEF PoolInv, LadderLocked
<1>3. lock'[Home[r]] = r /\ \A p \in Processes \ {Home[r]} : lock'[p] = lock[p]
  BY <1>2 DEF PoolInv, PoolTypes
<1> QED
  BY <1>1, <1>2, <1>3, PoolAssumption DEF PoolInv, PoolTypes, LadderLocked

LEMMA LockLeft ==
  ASSUME PoolInv, NEW r \in Threads, NEW t, Goes(r, t), Fits(r, t),
         First(t) \notin {"fill", "filling"},
         lock' = [lock EXCEPT ![Home[r]] = IF @ = r THEN Nobody ELSE @],
         \/ UNCHANGED cache
         \/ /\ Filling(r)
            /\ \A p \in Processes \ {Home[r]} : cache'[p] = cache[p]
  PROVE LadderLocked'
<1>1. \A q \in Threads : Filling(q)' <=> q # r /\ Filling(q)
  BY Going DEF PoolInv, Filling
<1>2. Home[r] \in Processes /\ \A q \in Threads : Home[q] \in Processes
  BY PoolAssumption
<1>3. /\ lock'[Home[r]] = IF lock[Home[r]] = r THEN Nobody ELSE lock[Home[r]]
      /\ \A p \in Processes \ {Home[r]} : lock'[p] = lock[p]
  BY <1>2 DEF PoolInv, PoolTypes
<1>4. ASSUME NEW q \in Threads, Filling(q)' PROVE lock'[Home[q]] = q /\ cache'[Home[q]] = Cold
  <2>1. q # r /\ lock[Home[q]] = q /\ cache[Home[q]] = Cold
    BY <1>1, <1>4 DEF PoolInv, LadderLocked
  <2>2. Filling(r) => Home[q] # Home[r]
    BY <2>1 DEF PoolInv, LadderLocked
  <2> QED
    BY <1>2, <1>3, <2>1, <2>2
<1>5. ASSUME NEW p \in Processes, lock'[p] # Nobody
      PROVE Home[lock'[p]] = p /\ First(todo'[lock'[p]]) \in {"fill", "filling"}
  <2>1. lock'[p] = lock[p] /\ lock[p] # Nobody
    BY <1>3, <1>5
  <2>2. lock[p] \in Threads /\ Home[lock[p]] = p /\ Filling(lock[p])
    BY <2>1 DEF PoolInv, PoolTypes, LadderLocked
  <2>3. lock[p] # r
    BY <1>3, <1>5, <2>1, <2>2
  <2> QED
    BY <1>1, <2>1, <2>2, <2>3 DEF Filling
<1> QED
  BY <1>4, <1>5 DEF LadderLocked, Filling

----------------------------------------------------------------------------
(* Every step keeps the pools *)

LEMMA DoingFirst ==
  ASSUME PoolInv, NEW r \in Threads
  PROVE /\ Fits(r, todo[r]) /\ Home[r] \in Processes
        /\ \A step : Doing(r, step) => First(todo[r]) = step
        /\ ~Serving(r) => todo[r] = Done
BY PoolAssumption DEF PoolInv, OnCourse, Doing, Serving, First, Done

LEMMA FitsPassing ==
  ASSUME NEW r, NEW s, Fits(r, s), First(s) \in PassingSteps
  PROVE Fits(r, Tail(s)) /\ First(Tail(s)) \notin {"load", "loading", "fill", "filling"}
<1>1. Sound(s) /\ s # Done
  BY DEF Fits, First, PassingSteps
<1> QED
  BY <1>1, Passing DEF Fits

LEMMA FitsTurning ==
  ASSUME NEW r, NEW s, Fits(r, s), NEW x, <<First(s), x>> \in Turns
  PROVE Fits(r, <<x>> \o Tail(s)) /\ First(<<x>> \o Tail(s)) = x
<1>1. Sound(s) /\ s # Done
  BY DEF Fits, First, Turns
<1> QED
  BY <1>1, Turning DEF Fits

\* A step that takes a thread to t and leaves its connections and the lock.
LEMMA PoolQuiet ==
  ASSUME PoolInv, NEW r \in Threads, NEW t, Goes(r, t), Fits(r, t), Held(t) = Held(todo[r]),
         First(t) \in {"fill", "filling"} <=> Filling(r),
         UNCHANGED <<free, conns, lock, fresh, cache>>
  PROVE PoolInv'
<1>1. conns' = [conns EXCEPT ![r] = @ + 0] /\ free' = [free EXCEPT ![Home[r]] = @ - 0]
  BY PoolAssumption DEF PoolInv, PoolTypes
<1>2. Held(t) = Held(todo[r]) + 0 /\ free[Home[r]] >= 0 /\ 0 \in {-1, 0, 1}
  <2>1. Held(todo[r]) \in 0 .. 2 /\ free[Home[r]] \in Nat
    BY HeldType, PoolAssumption DEF PoolInv, PoolTypes
  <2> QED
    BY <2>1
<1>3. PoolCounted'
  BY <1>1, <1>2, PoolChange
<1> QED
  BY <1>3, Going, LockKept DEF PoolInv, PoolTypes

LEMMA PoolPasses ==
  ASSUME PoolInv, NEW r \in Threads, Passes(r),
         \E step \in {"flags", "tiers", "lock", "count", "claim", "take"} : Doing(r, step),
         UNCHANGED <<free, conns, lock, fresh, cache>>
  PROVE PoolInv'
<1>1. First(todo[r]) \in {"flags", "tiers", "lock", "count", "claim", "take"}
  BY DoingFirst
<1>2. /\ Fits(r, todo[r]) /\ Fits(r, Tail(todo[r])) /\ Sound(todo[r])
      /\ First(Tail(todo[r])) \notin {"fill", "filling"}
  BY <1>1, DoingFirst, FitsPassing DEF PassingSteps, Fits
<1>3. Held(Tail(todo[r])) = Held(todo[r])
  <2>1. Held(Tail(todo[r])) = Held(todo[r]) + 0 - 0
    BY <1>1, <1>2, Passing DEF PassingSteps
  <2> QED
    BY <2>1, HeldType
<1> QED
  BY <1>1, <1>2, <1>3, PoolQuiet DEF Passes, Filling

LEMMA PoolCallEnds ==
  ASSUME PoolInv, NEW r \in Threads, Ends(r)
  PROVE PoolInv'
<1>1. Goes(r, Done) /\ Fits(r, Done) /\ First(Done) \notin {"fill", "filling"}
  BY FitsDone DEF Ends, Done
<1>2. PoolCounted' /\ conns' \in [Threads -> Nat] /\ free' \in [Processes -> Nat]
  BY <1>1, PoolEnds DEF Ends
<1>3. LadderLocked'
  BY <1>1, LockLeft DEF Ends
<1>4. lock' \in [Processes -> Threads \cup {Nobody}] /\ UNCHANGED <<fresh, cache>>
  BY DEF Ends, PoolInv, PoolTypes
<1>5. OnCourse' /\ todo' \in [Threads -> Seq(Words)]
  BY <1>1, Going DEF PoolInv
<1> QED
  BY <1>2, <1>3, <1>4, <1>5 DEF PoolInv, PoolTypes

LEMMA PoolCheckout ==
  ASSUME PoolInv, NEW r \in Threads, Checkout(r)
  PROVE PoolInv'
<1> DEFINE s == todo[r]
<1>1. Fits(r, s) /\ Sound(s) /\ Home[r] \in Processes
  BY DoingFirst DEF Fits
<1>2. PICK t : /\ Goes(r, t) /\ Fits(r, t) /\ Held(t) = Held(s) + 1
               /\ First(t) \in {"fill", "filling"} <=> Filling(r)
  <2>1. CASE Doing(r, "open") /\ Passes(r)
    <3>1. First(s) = "open"
      BY <2>1, DoingFirst
    <3>2. Fits(r, Tail(s)) /\ First(Tail(s)) \notin {"fill", "filling"}
      BY <1>1, <3>1, FitsPassing DEF PassingSteps
    <3>3. Held(Tail(s)) = Held(s) + 1 - 0
      BY <1>1, <3>1, Passing DEF PassingSteps
    <3> QED
      BY <2>1, <3>1, <3>2, <3>3, HeldType DEF Passes, Filling
  <2>2. ASSUME NEW x \in {"load", "fill"}, NEW y \in {"loading", "filling"}, <<x, y>> \in Turns,
               Doing(r, x), Goes(r, <<y>> \o Tail(s))
        PROVE \E t : /\ Goes(r, t) /\ Fits(r, t) /\ Held(t) = Held(s) + 1
                     /\ First(t) \in {"fill", "filling"} <=> Filling(r)
    <3>1. First(s) = x
      BY <2>2, DoingFirst
    <3>2. Fits(r, <<y>> \o Tail(s)) /\ First(<<y>> \o Tail(s)) = y
      BY <1>1, <2>2, <3>1, FitsTurning
    <3>3. Held(<<y>> \o Tail(s)) = Held(s) + 1
      BY <1>1, <2>2, <3>1, Turning
    <3>4. y \in {"fill", "filling"} <=> x \in {"fill", "filling"}
      BY <2>2 DEF Turns
    <3> QED
      BY <2>2, <3>1, <3>2, <3>3, <3>4 DEF Filling
  <2>3. <<"load", "loading">> \in Turns /\ <<"fill", "filling">> \in Turns
    BY DEF Turns
  <2> QED
    BY <2>1, <2>2, <2>3 DEF Checkout
<1>3. /\ free[Home[r]] >= 1 /\ 1 \in {-1, 0, 1} /\ UNCHANGED <<lock, fresh, cache>>
      /\ conns' = [conns EXCEPT ![r] = @ + 1] /\ free' = [free EXCEPT ![Home[r]] = @ - 1]
  BY <1>1 DEF Checkout, PoolInv, PoolTypes
<1>4. PoolCounted' /\ conns' \in [Threads -> Nat] /\ free' \in [Processes -> Nat]
  BY <1>2, <1>3, PoolChange
<1> QED
  BY <1>2, <1>3, <1>4, Going, LockKept DEF PoolInv, PoolTypes

\* A connection that was taken for a cache is given back with the step.
LEMMA PoolFilled ==
  ASSUME PoolInv, NEW r \in Threads, LoadsFlags(r) \/ FillsTiers(r), ladder \in SUBSET Tiers
  PROVE PoolInv'
<1> DEFINE s == todo[r]
<1> DEFINE t == Tail(s)
<1>1. /\ Fits(r, s) /\ Sound(s) /\ Home[r] \in Processes
      /\ First(s) = IF LoadsFlags(r) THEN "loading" ELSE "filling"
  BY DoingFirst DEF Fits, LoadsFlags, FillsTiers
<1>2. Fits(r, t) /\ First(t) \notin {"fill", "filling"} /\ Goes(r, t) /\ GivesBack(r)
  BY <1>1, FitsPassing DEF PassingSteps, LoadsFlags, FillsTiers, Passes
<1>3. Held(t) = Held(s) + (-1)
  <2>1. Held(t) = Held(s) + 0 - 1
    BY <1>1, Passing DEF PassingSteps
  <2> QED
    BY <2>1, HeldType
<1>4. /\ conns' = [conns EXCEPT ![r] = @ + (-1)] /\ free' = [free EXCEPT ![Home[r]] = @ - (-1)]
      /\ free[Home[r]] >= -1
  <2>1. conns[r] \in Nat /\ free[Home[r]] \in Nat
    BY <1>1 DEF PoolInv, PoolTypes
  <2>2. conns[r] - 1 = conns[r] + (-1) /\ free[Home[r]] + 1 = free[Home[r]] - (-1)
    BY <2>1
  <2>3. free[Home[r]] >= -1
    BY <2>1
  <2> QED
    BY <1>2, <2>2, <2>3 DEF GivesBack
<1>5. PoolCounted' /\ conns' \in [Threads -> Nat] /\ free' \in [Processes -> Nat]
  BY <1>2, <1>3, <1>4, PoolChange
<1>6. LadderLocked' /\ lock' \in [Processes -> Threads \cup {Nobody}]
      /\ fresh' \in [Processes -> BOOLEAN] /\ cache' \in [Processes -> SUBSET Tiers]
  <2>1. CASE LoadsFlags(r)
    BY <1>1, <1>2, <2>1, LockKept DEF LoadsFlags, Filling, PoolInv, PoolTypes
  <2>2. CASE ~LoadsFlags(r)
    <3>1. Filling(r) /\ FillsTiers(r)
      BY <1>1, <2>2 DEF Filling
    <3>2. lock[Home[r]] = r
      BY <3>1 DEF PoolInv, LadderLocked
    <3>3. lock' = [lock EXCEPT ![Home[r]] = IF @ = r THEN Nobody ELSE @]
      BY <3>1, <3>2 DEF FillsTiers
    <3>4. \A p \in Processes \ {Home[r]} : cache'[p] = cache[p]
      BY <3>1 DEF FillsTiers, FillCache, PoolInv, PoolTypes
    <3>5. LadderLocked'
      BY <1>2, <3>1, <3>3, <3>4, LockLeft
    <3> QED
      BY <3>1, <3>5 DEF FillsTiers, FillCache, PoolInv, PoolTypes
  <2> QED
    BY <2>1, <2>2
<1> QED
  BY <1>2, <1>5, <1>6, Going DEF PoolInv, PoolTypes

LEMMA PoolAsks ==
  ASSUME PoolInv, NEW r \in Threads, AsksFlags(r) \/ AsksTiers(r)
  PROVE PoolInv'
<1> DEFINE s == todo[r]
<1>1. Fits(r, s) /\ Sound(s) /\ Home[r] \in Processes
  BY DoingFirst DEF Fits
<1>2. CASE Passes(r) /\ UNCHANGED lock
  BY <1>2, PoolPasses DEF AsksFlags, AsksTiers
<1>3. CASE Doing(r, "flags") /\ Goes(r, <<"load">> \o Tail(s)) /\ AsksFlags(r)
  <2>1. First(s) = "flags" /\ <<"flags", "load">> \in Turns
    BY <1>3, DoingFirst DEF Turns
  <2>2. Fits(r, <<"load">> \o Tail(s)) /\ First(<<"load">> \o Tail(s)) = "load"
    BY <1>1, <2>1, FitsTurning
  <2>3. Held(<<"load">> \o Tail(s)) = Held(s) + 0
    BY <1>1, <2>1, Turning
  <2>4. Held(<<"load">> \o Tail(s)) = Held(s)
    BY <2>3, HeldType
  <2> QED
    BY <1>3, <2>1, <2>2, <2>4, PoolQuiet DEF AsksFlags, Filling
<1>4. CASE /\ Doing(r, "tiers") /\ lock[Home[r]] = Nobody /\ cache[Home[r]] = Cold
           /\ Goes(r, <<"fill">> \o Tail(s)) /\ lock' = [lock EXCEPT ![Home[r]] = r]
           /\ UNCHANGED <<free, conns, fresh, cache>>
  <2> DEFINE t == <<"fill">> \o Tail(s)
  <2>1. First(s) = "tiers" /\ <<"tiers", "fill">> \in Turns
    BY <1>4, DoingFirst DEF Turns
  <2>2. Fits(r, t) /\ First(t) = "fill"
    BY <1>1, <2>1, FitsTurning
  <2>3. Held(t) = Held(s) + 0
    BY <1>1, <2>1, Turning
  <2> HIDE DEF t
  <2>4. LadderLocked'
    BY <1>4, <2>2, LockTaken DEF t
  <2>5. conns' = [conns EXCEPT ![r] = @ + 0] /\ free' = [free EXCEPT ![Home[r]] = @ - 0]
    BY <1>1, <1>4 DEF PoolInv, PoolTypes
  <2>6. free[Home[r]] >= 0 /\ 0 \in {-1, 0, 1}
    BY <1>1 DEF PoolInv, PoolTypes
  <2>7. PoolCounted'
    BY <1>4, <2>2, <2>3, <2>5, <2>6, PoolChange DEF t
  <2>8. OnCourse' /\ todo' \in [Threads -> Seq(Words)]
    BY <1>4, <2>2, Going DEF t, PoolInv
  <2>9. lock' \in [Processes -> Threads \cup {Nobody}]
    BY <1>4 DEF PoolInv, PoolTypes
  <2> QED
    BY <1>4, <2>4, <2>7, <2>8, <2>9 DEF PoolInv, PoolTypes
<1> QED
  BY <1>2, <1>3, <1>4 DEF AsksFlags, AsksTiers

LEMMA PoolBegins ==
  ASSUME PoolInv, NEW r \in Threads, Begins(r)
  PROVE PoolInv'
<1>1. PICK call \in Serves(Home[r]) : Goes(r, Steps(call))
  BY DEF Begins
<1> DEFINE t == Steps(call)
<1>2. todo[r] = Done
  BY DoingFirst DEF Begins
<1>3. Fits(r, t) /\ Held(t) = 0 /\ First(t) \notin {"fill", "filling"}
  BY Starting DEF Fits
<1>4. Held(todo[r]) = 0 /\ ~Filling(r)
  BY <1>2, FitsDone DEF Filling
<1> QED
  BY <1>1, <1>3, <1>4, PoolQuiet DEF Begins

LEMMA PoolTakes ==
  ASSUME PoolInv, NEW r \in Threads, Doing(r, "take"), Goes(r, ToClose),
         UNCHANGED <<free, conns, lock, fresh, cache>>
  PROVE PoolInv'
<1>1. /\ Fits(r, todo[r]) /\ First(todo[r]) = "take"
      /\ Place(todo[r]) = <<"take", Rest(todo[r])>>
  BY DoingFirst DEF Place
<1>2. Place(todo[r]) \in ClassifyPlaces /\ Place(todo[r]) \in OpenPlaces
  BY <1>1
  DEF Fits, Sound, Places, RunPlaces, ClassifyPlaces, SortPlaces, OtherPlaces, OpenPlaces,
      FlagSteps, TierSteps
<1>3. /\ ToClose \in Seq(Words) /\ Place(ToClose) = <<"close", Done>> /\ First(ToClose) = "close"
      /\ Place(ToClose) \in Places /\ Place(ToClose) \in OpenPlaces
      /\ Place(ToClose) \notin RunPlaces \cup ClassifyPlaces
  BY RestPlaces, RestsTyped
  DEF Rests, Place, Places, RunPlaces, ClassifyPlaces, SortPlaces, OtherPlaces, OpenPlaces,
      FlagSteps, TierSteps
<1>4. Fits(r, ToClose)
  BY <1>1, <1>2, <1>3 DEF Fits, Sound
<1>5. Held(ToClose) = 1 /\ Held(todo[r]) = 1
  BY <1>1, <1>2, <1>3 DEF Held
<1> QED
  BY <1>1, <1>3, <1>4, <1>5, PoolQuiet DEF Filling

\* Whatever a thread does, its place, its connections and the locks go together.
LEMMA PoolThread ==
  ASSUME PoolInv, ladder \in SUBSET Tiers, NEW r \in Threads, Begins(r) \/ ThreadStep(r) \/ Fails(r)
  PROVE PoolInv'
<1>1. CASE Begins(r)
  BY <1>1, PoolBegins
<1>2. CASE Plumbing(r)
  BY <1>2, PoolCheckout, PoolAsks, PoolFilled, PoolCallEnds DEF Plumbing
<1>3. CASE Admits(r)
  BY <1>3, PoolPasses, PoolCallEnds DEF Admits, Locks, Counts, Inserts
<1>4. CASE RollsBack(r)
  BY <1>4, PoolCallEnds DEF RollsBack
<1>5. CASE Claims(r)
  BY <1>5, PoolPasses, PoolCallEnds DEF Claims
<1>6. CASE Costs(r) \/ Routes(r)
  BY <1>6, PoolCallEnds DEF Costs, Routes
<1>7. CASE Takes(r)
  BY <1>7, PoolPasses, PoolTakes DEF Takes, ToClose
<1> QED
  BY <1>1, <1>2, <1>3, <1>4, <1>5, <1>6, <1>7 DEF ThreadStep, TimesOut, Fails

LEMMA PoolAround ==
  ASSUME PoolInv, Around
  PROVE PoolInv'
<1>1. UNCHANGED <<todo, free, conns, lock, cache>> /\ fresh' \in [Processes -> BOOLEAN]
  BY DEF Around, Seeds, AgentEnds, FlagsAge, Reaped, InsertTier, pvars, PoolInv, PoolTypes
<1> QED
  BY <1>1 DEF PoolInv, PoolTypes, OnCourse, PoolCounted, LadderLocked, Filling

----------------------------------------------------------------------------
(* Where a step can bring a thread *)

ThreadActs(r) == Begins(r) \/ ThreadStep(r) \/ Fails(r)

\* What it takes for thread r to come to a place where something is held.
Entered(r) ==
  LET s == todo[r]
      t == todo'[r]
  IN /\ First(t) = "count" => Locks(r)
     /\ First(t) = "insert" => First(s) = "count" /\ ~Full(r) /\ Counts(r) /\ UNCHANGED advisory
     /\ First(t) \in {"route", "cost"} =>
          \/ cache[Home[r]] # Cold /\ UNCHANGED cache
          \/ FillsTiers(r)
     /\ Place(t) \in PricePlaces =>
          \/ Place(s) \in PricePlaces /\ UNCHANGED qvars
          \/ Claims(r) /\ status' = "running" /\ holder' = r /\ tier' = PoolTier[Home[r]]
     /\ Place(t) \in SortPlaces =>
          \/ Place(s) \in SortPlaces /\ UNCHANGED qvars
          \/ Takes(r) /\ status' = "failed" /\ holder' = r

LEMMA DoneNowhere ==
  Place(Done) \notin PricePlaces \cup SortPlaces \cup RunPlaces /\ First(Done) = "idle"
BY RestPlaces DEF Place, PricePlaces, SortPlaces, RunPlaces, FlagSteps, TierSteps

LEMMA EnteredByEnding ==
  ASSUME PoolInv, NEW r \in Threads, Ends(r)
  PROVE Entered(r)
<1>1. todo'[r] = Done
  BY DEF Ends, Goes, Done, PoolInv, PoolTypes
<1> QED
  BY <1>1, DoneNowhere DEF Entered

\* Steps that pass, of a thread that keeps its hold on the task.
LEMMA EnteredByPassing ==
  ASSUME PoolInv, NEW r \in Threads, Passes(r), UNCHANGED qvars,
         First(todo[r]) \in PassingSteps \ {"claim", "take"},
         First(todo[r]) = "lock" => Locks(r),
         First(todo[r]) = "count" => ~Full(r) /\ Counts(r) /\ UNCHANGED advisory,
         First(todo[r]) = "tiers" => cache[Home[r]] # Cold /\ UNCHANGED cache,
         First(todo[r]) = "filling" => FillsTiers(r)
  PROVE Entered(r)
<1> DEFINE s == todo[r]
<1> DEFINE t == Tail(s)
<1>1. Sound(s) /\ todo'[r] = t
  BY DoingFirst DEF Fits, Passes, Goes, PoolInv, PoolTypes
<1>2. /\ Place(t) \in SortPlaces => Place(s) \in SortPlaces \/ First(s) = "take"
      /\ Place(t) \in PricePlaces => Place(s) \in PricePlaces \/ First(s) = "claim"
      /\ First(t) = "count" => First(s) = "lock"
      /\ First(t) = "insert" => First(s) = "count"
      /\ First(t) \in {"route", "cost"} => First(s) \in TierSteps
  BY <1>1, Passing
<1>3. First(s) \in TierSteps => First(s) \in {"tiers", "filling"}
  BY DEF TierSteps, PassingSteps
<1> HIDE DEF t
<1> QED
  BY <1>1, <1>2, <1>3 DEF Entered

LEMMA EnteredByTurning ==
  ASSUME PoolInv, NEW r \in Threads, NEW x, Goes(r, <<x>> \o Tail(todo[r])), UNCHANGED qvars,
         <<First(todo[r]), x>> \in Turns
  PROVE Entered(r)
<1> DEFINE s == todo[r]
<1> DEFINE t == <<x>> \o Tail(s)
<1>1. Sound(s) /\ todo'[r] = t
  BY DoingFirst DEF Fits, Goes, PoolInv, PoolTypes
<1>2. /\ First(t) = x
      /\ Place(t) \in SortPlaces <=> Place(s) \in SortPlaces
      /\ Place(t) \in PricePlaces <=> Place(s) \in PricePlaces
  BY <1>1, Turning
<1>3. x \in {"load", "loading", "fill", "filling"}
  BY DEF Turns
<1> HIDE DEF t
<1> QED
  BY <1>1, <1>2, <1>3 DEF Entered

LEMMA EnteredClaims ==
  ASSUME PoolInv, NEW r \in Threads, Claims(r)
  PROVE Entered(r)
<1> DEFINE s == todo[r]
<1> DEFINE t == Tail(s)
<1>1. CASE Passes(r) /\ status' = "running" /\ holder' = r /\ tier = PoolTier[Home[r]] /\ UNCHANGED tier
  <2>1. Sound(s) /\ First(s) = "claim" /\ todo'[r] = t
    BY <1>1, DoingFirst DEF Fits, Passes, Goes, PoolInv, PoolTypes, Claims
  <2>2. /\ Place(t) \in SortPlaces => Place(s) \in SortPlaces \/ First(s) = "take"
        /\ First(t) = "count" => First(s) = "lock"
        /\ First(t) = "insert" => First(s) = "count"
        /\ First(t) \in {"route", "cost"} => First(s) \in TierSteps
    BY <2>1, Passing DEF PassingSteps
  <2>3. Place(s) \notin SortPlaces
    BY <2>1 DEF Place, SortPlaces, FlagSteps, TierSteps
  <2> HIDE DEF t
  <2> QED
    BY <1>1, <2>1, <2>2, <2>3 DEF Entered, TierSteps
<1>2. CASE Ends(r)
  BY <1>2, EnteredByEnding
<1> QED
  BY <1>1, <1>2 DEF Claims

LEMMA EnteredTakes ==
  ASSUME PoolInv, NEW r \in Threads, Takes(r)
  PROVE Entered(r)
<1> DEFINE s == todo[r]
<1> DEFINE t == Tail(s)
<1>1. Sound(s) /\ First(s) = "take"
  BY DoingFirst DEF Fits, Takes
<1>2. CASE Passes(r) /\ status = "failed" /\ holder' = r /\ UNCHANGED status
  <2>1. todo'[r] = t
    BY <1>2 DEF Passes, Goes, PoolInv, PoolTypes
  <2>2. /\ Place(t) \in PricePlaces => Place(s) \in PricePlaces \/ First(s) = "claim"
        /\ First(t) = "count" => First(s) = "lock"
        /\ First(t) = "insert" => First(s) = "count"
        /\ First(t) \in {"route", "cost"} => First(s) \in TierSteps
    BY <1>1, Passing DEF PassingSteps
  <2>3. Place(s) \notin PricePlaces
    BY <1>1 DEF Place, PricePlaces, TierSteps
  <2> HIDE DEF t
  <2> QED
    BY <1>1, <1>2, <2>1, <2>2, <2>3 DEF Entered, TierSteps
<1>3. CASE Goes(r, ToClose)
  <2>1. todo'[r] = ToClose /\ Place(ToClose) = <<"close", Done>> /\ First(ToClose) = "close"
    BY <1>3, RestPlaces DEF Goes, PoolInv, PoolTypes, Place
  <2> QED
    BY <2>1 DEF Entered, PricePlaces, SortPlaces, FlagSteps, TierSteps
<1> QED
  BY <1>2, <1>3 DEF Takes, ToClose

LEMMA ThreadEnters ==
  ASSUME PoolInv, NEW r \in Threads, ThreadActs(r)
  PROVE Entered(r)
<1> USE DEF PassingSteps, Turns
<1>1. CASE Begins(r)
  <2>1. PICK call \in Serves(Home[r]) : Goes(r, Steps(call))
    BY <1>1 DEF Begins
  <2>2. todo'[r] = Steps(call)
    BY <2>1 DEF Goes, PoolInv, PoolTypes
  <2> QED
    BY <2>2, Starting DEF Entered
<1>2. CASE Plumbing(r)
  <2>1. UNCHANGED qvars
    BY <1>2 DEF Plumbing
  <2>2. CASE Checkout(r)
    BY <2>1, <2>2, DoingFirst, EnteredByPassing, EnteredByTurning DEF Checkout
  <2>3. CASE AsksFlags(r)
    BY <2>1, <2>3, DoingFirst, EnteredByPassing, EnteredByTurning DEF AsksFlags
  <2>4. CASE LoadsFlags(r)
    BY <2>1, <2>4, DoingFirst, EnteredByPassing DEF LoadsFlags
  <2>5. CASE AsksTiers(r)
    BY <2>1, <2>5, DoingFirst, EnteredByPassing, EnteredByTurning DEF AsksTiers
  <2>6. CASE FillsTiers(r)
    BY <2>1, <2>6, DoingFirst, EnteredByPassing DEF FillsTiers
  <2> QED
    BY <1>2, <2>2, <2>3, <2>4, <2>5, <2>6, EnteredByEnding DEF Plumbing
<1>3. CASE Admits(r)
  <2>1. UNCHANGED qvars
    BY <1>3 DEF Admits
  <2>2. CASE Locks(r)
    BY <2>1, <2>2, DoingFirst, EnteredByPassing DEF Locks
  <2>3. CASE Counts(r)
    BY <2>1, <2>3, DoingFirst, EnteredByPassing, EnteredByEnding DEF Counts
  <2> QED
    BY <1>3, <2>2, <2>3, EnteredByEnding DEF Admits, Inserts
<1>4. CASE RollsBack(r) \/ Costs(r) \/ Routes(r)
  BY <1>4, EnteredByEnding DEF RollsBack, Costs, Routes
<1> QED
  BY <1>1, <1>2, <1>3, <1>4, EnteredClaims, EnteredTakes DEF ThreadActs, ThreadStep, TimesOut, Fails

----------------------------------------------------------------------------
(* The initial states, and the types of what the calls work on *)

LEMMA ControlStarts ==
  ASSUME ControlInit
  PROVE ControlInv
<1> USE DEF ControlInit, PoolInit, AdmissionInit
<1>1. PICK s \in Scenarios : ladder = s.ladder /\ calls = s.calls
  OBVIOUS
<1>2. ladder \in (SUBSET Tiers) \ {{}} /\ calls \in [Processes -> Nat]
  BY <1>1, ControlAssumption
<1>3. tier \in ladder
  <2>1. ladder \in SUBSET Nat /\ ladder # {}
    BY <1>2, TierAssumption
  <2> QED
    BY <2>1, LowestIsLeast
<1>4. \A r \in Threads : todo[r] = Done
  BY DEF Done
<1>5. PoolTypes
  <2>1. Done \in Seq(Words)
    BY RestsTyped DEF Rests
  <2> QED
    BY <2>1, PoolAssumption DEF PoolTypes, Done, Cold
<1>6. OnCourse
  BY <1>4, FitsDone DEF OnCourse
<1>7. PoolCounted
  <2>1. \A r \in Threads : conns[r] = Held(todo[r])
    BY <1>4, FitsDone
  <2>2. ASSUME NEW p \in Processes PROVE Counted(conns, free[p], p)
    <3>1. conns \in [Threads -> Nat] /\ \A r \in Threads : Home[r] = p => conns[r] = 0
      OBVIOUS
    <3>2. Counted(conns, PoolMax[p], p)
      BY <3>1, CountedNone
    <3> QED
      BY <3>2
  <2> QED
    BY <2>1, <2>2 DEF PoolCounted
<1>8. LadderLocked
  BY <1>4, FitsDone DEF LadderLocked, Filling
<1>9. TaskTypes
  BY <1>2, <1>3 DEF TaskTypes
<1>10. AdmissionInv
  <2>1. 0 <= MaxActive
    BY AdmissionAssumption
  <2> QED
    BY <1>4, <2>1, FitsDone DEF AdmissionInv, AdmissionLocked, AdmittedWithinLimit
<1>11. LadderInv
  BY <1>3, <1>4, DoneNowhere DEF LadderInv, CopiesOld, TaskHeld, Cold
<1> QED
  BY <1>5, <1>6, <1>7, <1>8, <1>9, <1>10, <1>11 DEF ControlInv, PoolInv

\* A step of a thread, a restart or an event around them.
LEMMA ControlMoves ==
  ASSUME ControlNext
  PROVE \/ \E r \in Threads : ThreadActs(r)
        \/ \E p \in Processes : Restart(p)
        \/ Around
BY DEF ControlNext, ThreadActs

LEMMA TypesStep ==
  ASSUME PoolInv, TaskTypes, ControlNext
  PROVE TaskTypes'
<1> DEFINE Agents == /\ advisory' \in Threads \cup {Nobody}
                     /\ admitted' \in Nat /\ seeded' \in Nat
<1> DEFINE Task == /\ ladder' \in (SUBSET Tiers) \ {{}} /\ tier' \in Tiers
                   /\ status' \in {"pending", "running", "succeeded", "failed", "dead"}
                   /\ holder' \in Threads \cup {Nobody}
<1> DEFINE Bounds == calls' \in [Processes -> Nat]
<1>1. \A p \in Processes : Spends(p) => Bounds
  BY DEF Spends, TaskTypes
<1>2. CASE \E r \in Threads : ThreadActs(r)
  <2>1. PICK r \in Threads : ThreadActs(r)
    BY <1>2
  <2>2. Home[r] \in Processes
    BY PoolAssumption
  <2>3. CASE Begins(r) \/ Plumbing(r)
    BY <1>1, <2>2, <2>3 DEF Begins, Plumbing, TaskTypes, avars, qvars
  <2>4. CASE Admits(r)
    <3>1. Count[r] \in Nat
      BY AdmissionAssumption
    <3> QED
      BY <2>4, <3>1 DEF Admits, Locks, Counts, Inserts, Unlocks, TaskTypes, qvars
  <2>5. CASE RollsBack(r)
    BY <2>5 DEF RollsBack, Unlocks, TaskTypes
  <2>6. CASE Claims(r) \/ Takes(r)
    BY <2>6 DEF Claims, Takes, TaskTypes, avars, qvars
  <2>7. CASE Costs(r)
    BY <2>7 DEF Costs, TaskTypes, avars
  <2>8. CASE Routes(r)
    <3>1. cache[Home[r]] \in SUBSET Tiers
      BY <2>2 DEF PoolInv, PoolTypes
    <3>2. \A n : n = NextTier(cache[Home[r]], tier) /\ n # NoTier => n \in Tiers
      BY <3>1, NextTierClimbs DEF TaskTypes
    <3> QED
      BY <2>8, <3>2 DEF Routes, TaskTypes, avars
  <2> QED
    BY <2>1, <2>3, <2>4, <2>5, <2>6, <2>7, <2>8 DEF ThreadActs, ThreadStep, TimesOut, Fails, TaskTypes
<1>3. CASE \E p \in Processes : Restart(p)
  BY <1>1, <1>3 DEF Restart, TaskTypes
<1>4. CASE Around
  BY <1>1, <1>4
  DEF Around, Seeds, AgentEnds, FlagsAge, Reaped, InsertTier, TaskTypes, avars, qvars
<1> QED
  BY <1>2, <1>3, <1>4, ControlMoves

----------------------------------------------------------------------------
(* Every step keeps the admission lock *)

LEMMA OthersStay ==
  ASSUME PoolInv, NEW r \in Threads, ThreadActs(r)
  PROVE \A q \in Threads \ {r} : todo'[q] = todo[q]
<1>1. \E t : Goes(r, t)
  BY DEF ThreadActs, Begins, ThreadStep, Fails, TimesOut, RollsBack, Plumbing, Admits, Claims, Costs,
         Takes, Routes, Checkout, AsksFlags, LoadsFlags, AsksTiers, FillsTiers, Locks, Counts, Inserts,
         Passes, Ends
<1> QED
  BY <1>1 DEF Goes, PoolInv, PoolTypes

\* A process that is started again leaves the calls of the others alone.
LEMMA RestartStay ==
  ASSUME NEW p \in Processes, Restart(p), NEW r \in Threads
  PROVE todo'[r] = IF Home[r] = p THEN Done ELSE todo[r]
BY DEF Restart, Restarts, Done

LEMMA AdvisoryMoves ==
  ASSUME NEW r \in Threads, ThreadActs(r)
  PROVE /\ UNCHANGED admitted \/ Inserts(r)
        /\ UNCHANGED advisory \/ Locks(r) \/ Unlocks(r)
BY DEF ThreadActs, Begins, ThreadStep, Fails, TimesOut, RollsBack, Plumbing, Admits, Claims, Costs,
       Takes, Routes, Locks, Counts, Inserts, avars

LEMMA AdmissionStep ==
  ASSUME PoolInv, TaskTypes, AdmissionInv, ControlNext
  PROVE AdmissionInv'
<1>1. ASSUME NEW r \in Threads, ThreadActs(r) PROVE AdmissionInv'
  <2>1. r # Nobody /\ Count[r] \in Nat /\ MaxActive \in Nat /\ admitted \in Nat /\ seeded \in Nat
    BY PoolAssumption, AdmissionAssumption DEF TaskTypes
  <2>2. ASSUME NEW q \in Threads \ {r}, First(todo[q]) \in {"count", "insert"} PROVE advisory' = q
    <3>1. advisory = q /\ q # Nobody
      BY <2>2, PoolAssumption DEF AdmissionInv, AdmissionLocked
    <3> QED
      BY <1>1, <3>1, AdvisoryMoves DEF Locks, Unlocks
  <2>3. First(todo'[r]) = "count" => advisory' = r
    BY <1>1, ThreadEnters DEF Entered, Locks
  <2>4. First(todo'[r]) = "insert" => advisory' = r /\ admitted' + Count[r] <= MaxActive
    <3>1. ASSUME First(todo'[r]) = "insert"
          PROVE First(todo[r]) = "count" /\ ~Full(r) /\ UNCHANGED <<advisory, admitted>>
      BY <1>1, <3>1, ThreadEnters DEF Entered, Counts
    <3>2. First(todo[r]) = "count" => advisory = r
      BY DEF AdmissionInv, AdmissionLocked
    <3>3. ~Full(r) => admitted + Count[r] <= MaxActive
      BY <2>1 DEF Full
    <3> QED
      BY <3>1, <3>2, <3>3
  <2>5. AdmissionLocked' /\ AdmittedWithinLimit'
    <3>1. CASE UNCHANGED admitted
      <4>1. \A q \in Threads \ {r} : First(todo[q]) = "insert" => admitted' + Count[q] <= MaxActive
        BY <3>1 DEF AdmissionInv, AdmissionLocked
      <4>2. \A q \in Threads : /\ First(todo'[q]) \in {"count", "insert"} => advisory' = q
                               /\ First(todo'[q]) = "insert" => admitted' + Count[q] <= MaxActive
        BY <1>1, <2>2, <2>3, <2>4, <4>1, OthersStay
      <4> QED
        BY <3>1, <4>2 DEF AdmissionInv, AdmissionLocked, AdmittedWithinLimit
    <3>2. CASE Inserts(r)
      <4>1. First(todo[r]) = "insert" /\ todo'[r] = Done /\ admitted' = admitted + Count[r]
        BY <3>2, DoingFirst DEF Inserts, Ends, Goes, Done, PoolInv, PoolTypes
      <4>2. advisory = r /\ admitted + Count[r] <= MaxActive
        BY <4>1 DEF AdmissionInv, AdmissionLocked
      <4>3. \A q \in Threads : First(todo'[q]) \notin {"count", "insert"}
        BY <1>1, <4>1, <4>2, OthersStay, DoneNowhere DEF AdmissionInv, AdmissionLocked
      <4> QED
        BY <4>1, <4>2, <4>3 DEF AdmissionLocked, AdmittedWithinLimit
    <3> QED
      BY <1>1, <3>1, <3>2, AdvisoryMoves
  <2> QED
    BY <2>5 DEF AdmissionInv
<1>2. ASSUME NEW p \in Processes, Restart(p) PROVE AdmissionInv'
  <2>1. UNCHANGED admitted
    BY <1>2 DEF Restart
  <2>2. ASSUME NEW q \in Threads, First(todo'[q]) \in {"count", "insert"}
        PROVE todo'[q] = todo[q] /\ advisory' = q
    <3>1. Home[q] # p /\ todo'[q] = todo[q]
      BY <1>2, <2>2, RestartStay, DoneNowhere
    <3>2. advisory = q
      BY <2>2, <3>1 DEF AdmissionInv, AdmissionLocked
    <3> QED
      BY <1>2, <3>1, <3>2 DEF Restart
  <2> QED
    BY <2>1, <2>2 DEF AdmissionInv, AdmissionLocked, AdmittedWithinLimit
<1>3. ASSUME Around PROVE AdmissionInv'
  <2>1. UNCHANGED <<todo, advisory>> /\ admitted' \in Nat /\ admitted' <= admitted
    BY <1>3 DEF Around, Seeds, AgentEnds, FlagsAge, Reaped, InsertTier, TaskTypes, avars, pvars
  <2>2. \A q \in Threads : Count[q] \in Nat /\ MaxActive \in Nat /\ admitted \in Nat
    BY AdmissionAssumption DEF TaskTypes
  <2>3. AdmittedWithinLimit'
    BY <2>1, AdmissionAssumption DEF AdmissionInv, AdmittedWithinLimit, TaskTypes
  <2> QED
    BY <2>1, <2>2, <2>3 DEF AdmissionInv, AdmissionLocked
<1> QED
  BY <1>1, <1>2, <1>3, ControlMoves

----------------------------------------------------------------------------
(* Every step keeps the copies of the ladder, and whoever holds the task *)

\* No call changes the table; it copies the table only where it fills a cache.
LEMMA LadderMoves ==
  ASSUME PoolInv, TaskTypes, NEW r \in Threads, ThreadActs(r)
  PROVE /\ UNCHANGED ladder
        /\ UNCHANGED cache \/ (FillsTiers(r) /\ UNCHANGED tier)
BY DEF ThreadActs, Begins, ThreadStep, Fails, TimesOut, RollsBack, Plumbing, Admits, Claims, Costs,
       Takes, Routes, Checkout, AsksFlags, LoadsFlags, AsksTiers, Locks, Counts, Inserts, Ends, qvars

\* The task and its holder: only who has it, or finds it free, changes them.
LEMMA TaskMoves ==
  ASSUME PoolInv, NEW r \in Threads, ThreadActs(r)
  PROVE \/ UNCHANGED qvars
        \/ UNCHANGED <<tier, status>> /\ holder = r
        \/ Claims(r) /\ status = "pending"
        \/ Takes(r) /\ holder = Nobody
        \/ Costs(r) \/ Routes(r)
BY DEF ThreadActs, Begins, ThreadStep, Fails, TimesOut, RollsBack, Plumbing, Admits, Claims, Takes, qvars

\* A worker that fills its copy has a task of its tier, which the table has.
LEMMA FillsOwn ==
  ASSUME PoolInv, LadderInv, NEW r \in Threads, FillsTiers(r), Role[Home[r]] = "worker"
  PROVE PoolTier[Home[r]] \in ladder
<1>1. Fits(r, todo[r]) /\ First(todo[r]) = "filling" /\ todo[r] # Done
  BY DoingFirst, DoneNowhere DEF FillsTiers
<1>2. Place(todo[r]) \in RunPlaces /\ Place(todo[r]) = <<"filling", Rest(todo[r])>>
  BY <1>1 DEF Fits, Place
<1>3. Place(todo[r]) \in PricePlaces
  BY <1>2 DEF RunPlaces, PricePlaces
<1> QED
  BY <1>3 DEF LadderInv, TaskHeld, CopiesOld

\* What costs has its price to find, and what routes has the task.
LEMMA HolderActs ==
  ASSUME PoolInv, LadderInv, NEW r \in Threads
  PROVE /\ Doing(r, "cost") => /\ holder = r /\ status = "running" /\ tier = PoolTier[Home[r]]
                               /\ Role[Home[r]] = "worker" /\ cache[Home[r]] # Cold
        /\ Doing(r, "route") => holder = r /\ status = "failed" /\ cache[Home[r]] # Cold
<1>1. /\ Fits(r, todo[r]) /\ Place(todo[r]) = <<First(todo[r]), Rest(todo[r])>>
      /\ \A step : Doing(r, step) => First(todo[r]) = step
  BY DoingFirst DEF Place
<1>2. First(todo[r]) = "cost" => Place(todo[r]) \in PricePlaces /\ Place(todo[r]) \in RunPlaces
  BY <1>1
  DEF Fits, Sound, Places, RunPlaces, ClassifyPlaces, SortPlaces, OtherPlaces, PricePlaces,
      FlagSteps, TierSteps
<1>3. First(todo[r]) = "route" => Place(todo[r]) \in SortPlaces
  BY <1>1
  DEF Fits, Sound, Places, RunPlaces, ClassifyPlaces, SortPlaces, OtherPlaces,
      FlagSteps, TierSteps
<1>4. First(todo[r]) \in {"cost", "route"} => todo[r] # Done /\ cache[Home[r]] # Cold
  BY DoneNowhere DEF LadderInv, CopiesOld
<1> QED
  BY <1>1, <1>2, <1>3, <1>4 DEF LadderInv, TaskHeld, Fits

LEMMA TaskHeldStep ==
  ASSUME PoolInv, TaskTypes, LadderInv, ControlNext
  PROVE TaskHeld'
<1> DEFINE Holds(q) == Place(todo[q]) \in PricePlaces \/ Place(todo[q]) \in SortPlaces
<1>1. \A q \in Threads : Holds(q) => holder = q /\ q # Nobody /\ status \in {"running", "failed"}
  BY PoolAssumption DEF LadderInv, TaskHeld
<1>2. ASSUME NEW r \in Threads, ThreadActs(r) PROVE TaskHeld'
  <2>1. ASSUME NEW q \in Threads \ {r}, Holds(q) PROVE UNCHANGED qvars
    <3>1. holder = q /\ q # r /\ q # Nobody /\ status \in {"running", "failed"}
      BY <1>1, <2>1
    <3>2. ~Costs(r) /\ ~Routes(r)
      BY <3>1, HolderActs DEF Costs, Routes
    <3> QED
      BY <1>2, <3>1, <3>2, TaskMoves
  <2>2. ASSUME NEW q \in Threads \ {r}
        PROVE /\ Place(todo'[q]) \in PricePlaces =>
                   holder' = q /\ status' = "running" /\ tier' = PoolTier[Home[q]]
              /\ Place(todo'[q]) \in SortPlaces => holder' = q /\ status' = "failed"
    <3>1. todo'[q] = todo[q]
      BY <1>2, OthersStay
    <3> QED
      BY <2>1, <3>1 DEF LadderInv, TaskHeld, qvars
  <2>3. /\ Place(todo'[r]) \in PricePlaces =>
             holder' = r /\ status' = "running" /\ tier' = PoolTier[Home[r]]
        /\ Place(todo'[r]) \in SortPlaces => holder' = r /\ status' = "failed"
    BY <1>2, ThreadEnters DEF Entered, LadderInv, TaskHeld, qvars
  <2> QED
    BY <2>2, <2>3 DEF TaskHeld
<1>3. ASSUME NEW p \in Processes, Restart(p) PROVE TaskHeld'
  <2>1. ASSUME NEW q \in Threads,
               Place(todo'[q]) \in PricePlaces \/ Place(todo'[q]) \in SortPlaces
        PROVE todo'[q] = todo[q] /\ UNCHANGED qvars
    <3>1. Home[q] # p /\ todo'[q] = todo[q]
      BY <1>3, <2>1, RestartStay, DoneNowhere
    <3>2. holder = q
      BY <1>1, <2>1, <3>1
    <3> QED
      BY <1>3, <3>1, <3>2 DEF Restart, qvars
  <2> QED
    BY <2>1 DEF LadderInv, TaskHeld, qvars
<1>4. ASSUME Around PROVE TaskHeld'
  <2>1. UNCHANGED todo /\ (UNCHANGED qvars \/ Reaped)
    BY <1>4 DEF Around, Seeds, AgentEnds, FlagsAge, Reaped, InsertTier, pvars
  <2>2. Reaped => \A q \in Threads : ~Holds(q)
    BY <1>1 DEF Reaped
  <2> QED
    BY <2>1, <2>2 DEF LadderInv, TaskHeld, qvars
<1> QED
  BY <1>2, <1>3, <1>4, ControlMoves

LEMMA CopiesStep ==
  ASSUME PoolInv, TaskTypes, LadderInv, ControlNext
  PROVE CopiesOld'
<1> USE DEF LadderInv, CopiesOld
<1>1. ASSUME NEW r \in Threads, ThreadActs(r) PROVE CopiesOld'
  <2>1. Home[r] \in Processes /\ UNCHANGED ladder
    BY <1>1, PoolAssumption, LadderMoves
  <2>2. tier' \in ladder
    <3>1. CASE Routes(r)
      <4>1. cache[Home[r]] \in SUBSET Tiers /\ cache[Home[r]] \subseteq ladder /\ tier \in Tiers
        BY <2>1 DEF PoolInv, PoolTypes, TaskTypes
      <4>2. \A n : n = NextTier(cache[Home[r]], tier) /\ n # NoTier => n \in ladder
        BY <4>1, NextTierClimbs
      <4> QED
        BY <3>1, <4>2 DEF Routes
    <3>2. CASE ~Routes(r)
      <4>1. UNCHANGED tier
        BY <1>1, <3>2, TaskMoves DEF Claims, Takes, Costs, qvars
      <4> QED
        BY <4>1
    <3> QED
      BY <3>1, <3>2
  <2>3. CASE UNCHANGED cache
    <3>1. ~FillsTiers(r) \/ cache[Home[r]] # Cold
      <4>1. FillsTiers(r) => cache'[Home[r]] = ladder
        BY <2>1 DEF FillsTiers, FillCache, PoolInv, PoolTypes
      <4> QED
        BY <2>3, <4>1 DEF Cold
    <3>2. First(todo'[r]) \in {"route", "cost"} => cache[Home[r]] # Cold
      BY <1>1, <3>1, ThreadEnters DEF Entered
    <3> QED
      BY <1>1, <2>1, <2>2, <2>3, <3>2, OthersStay
  <2>4. CASE FillsTiers(r) /\ UNCHANGED tier
    <3>1. cache'[Home[r]] = ladder /\ \A p \in Processes \ {Home[r]} : cache'[p] = cache[p]
      BY <2>1, <2>4 DEF FillsTiers, FillCache, PoolInv, PoolTypes
    <3>2. ladder # Cold
      BY DEF TaskTypes, Cold
    <3>3. \A p \in Processes : cache'[p] \subseteq ladder'
      BY <2>1, <3>1
    <3>4. \A p \in Processes : Role[p] = "worker" /\ cache'[p] # Cold => PoolTier[p] \in cache'[p]
      BY <2>4, <3>1, FillsOwn
    <3>5. \A q \in Threads : First(todo'[q]) \in {"route", "cost"} => cache'[Home[q]] # Cold
      BY <1>1, <3>1, <3>2, OthersStay, PoolAssumption
    <3> QED
      BY <2>1, <2>2, <3>3, <3>4, <3>5
  <2> QED
    BY <1>1, <2>3, <2>4, LadderMoves
<1>2. ASSUME NEW p \in Processes, Restart(p) PROVE CopiesOld'
  <2>1. UNCHANGED <<ladder, tier>> /\ cache' = [cache EXCEPT ![p] = Cold]
    BY <1>2 DEF Restart, Restarts
  <2>2. \A q \in Processes : cache'[q] = IF q = p THEN Cold ELSE cache[q]
    BY <2>1 DEF PoolInv, PoolTypes
  <2>3. \A q \in Threads : First(todo'[q]) \in {"route", "cost"} => cache'[Home[q]] # Cold
    BY <1>2, <2>2, RestartStay, DoneNowhere, PoolAssumption
  <2> QED
    BY <2>1, <2>2, <2>3 DEF Cold
<1>3. ASSUME Around PROVE CopiesOld'
  <2>1. UNCHANGED <<todo, cache, tier>> /\ ladder \subseteq ladder'
    BY <1>3 DEF Around, Seeds, AgentEnds, FlagsAge, Reaped, InsertTier, pvars, qvars
  <2> QED
    BY <2>1
<1> QED
  BY <1>1, <1>2, <1>3, ControlMoves

----------------------------------------------------------------------------
(* The invariant holds *)

LEMMA PoolStep ==
  ASSUME PoolInv, TaskTypes, ControlNext
  PROVE PoolInv'
<1>1. ladder \in SUBSET Tiers
  BY DEF TaskTypes
<1>2. ASSUME NEW r \in Threads, ThreadActs(r) PROVE PoolInv'
  BY <1>1, <1>2, PoolThread DEF ThreadActs
<1>3. ASSUME NEW p \in Processes, Restart(p) PROVE PoolInv'
  BY <1>3, PoolRestarts DEF Restart
<1> QED
  BY <1>2, <1>3, PoolAround, ControlMoves

LEMMA ControlStep ==
  ASSUME ControlInv, [ControlNext]_cvars
  PROVE ControlInv'
<1>1. CASE ControlNext
  BY <1>1, PoolStep, TypesStep, AdmissionStep, CopiesStep, TaskHeldStep DEF ControlInv, LadderInv
<1>2. CASE UNCHANGED cvars
  BY <1>2
  DEF cvars, pvars, avars, qvars, ControlInv, PoolInv, PoolTypes, OnCourse, PoolCounted,
      LadderLocked, Filling, TaskTypes, AdmissionInv, AdmissionLocked, AdmittedWithinLimit, LadderInv,
      CopiesOld, TaskHeld
<1> QED
  BY <1>1, <1>2

LEMMA ControlInvariant == ControlSpec => []ControlInv
<1>1. ControlInit => ControlInv
  BY ControlStarts
<1>2. ControlInv /\ [ControlNext]_cvars => ControlInv'
  BY ControlStep
<1> QED
  BY <1>1, <1>2, PTL DEF ControlSpec

----------------------------------------------------------------------------
(* Theorems *)

\* No connection is lost and none is handed out twice: those in the pool and those with
\* threads are DB_POOL_MAX together, through timeouts, failed statements and restarts;
\* and a thread holds none but those its place in its call says (src/db/pool.py).
THEOREM ConnectionsAccounted == ControlSpec => []PoolCounted
<1>1. ControlInv => PoolCounted
  BY DEF ControlInv, PoolInv
<1> QED
  BY <1>1, ControlInvariant, PTL

\* However many API threads count and insert, and however many agents are seeded or
\* end meanwhile, those that POST /agents admits never pass MAX_ACTIVE_AGENTS
\* (src/api/main.py:151-157).
THEOREM AdmittedWithinLimitHolds == ControlSpec => []AdmittedWithinLimit
<1>1. ControlInv => AdmittedWithinLimit
  BY DEF ControlInv, AdmissionInv
<1> QED
  BY <1>1, ControlInvariant, PTL

\* For any ladder, and any rows inserted into it at any time, a worker finds the
\* price of the tier it has finished a task of (src/worker/executor.py:135).
THEOREM CostKnownHolds == ControlSpec => []CostKnown
<1>1. ControlInv => CostKnown
  BY HolderActs, PoolAssumption DEF ControlInv, LadderInv, CopiesOld, CostKnown
<1> QED
  BY <1>1, ControlInvariant, PTL

\* Only a classifier moves the task, or finds it dead.
LEMMA TierMoves ==
  ASSUME ControlInv, ControlNext, tier' # tier \/ (status' = "dead" /\ status # "dead")
  PROVE \E r \in Threads : Routes(r)
<1>1. ASSUME NEW r \in Threads, ThreadActs(r) PROVE Routes(r)
  BY <1>1, TaskMoves DEF ControlInv, qvars, Claims, Takes, Costs
<1>2. ~\E p \in Processes : Restart(p)
  BY DEF Restart
<1>3. ~Around
  BY DEF Around, AgentEnds, FlagsAge, Reaped, qvars
<1> QED
  BY <1>1, <1>2, <1>3, ControlMoves

\* A promotion takes the least tier above the task's own in the classifier's copy,
\* which the copy's table has or had; none above it is the end of the task.
LEMMA RouteClimbs ==
  ASSUME ControlInv, NEW r \in Threads, Routes(r)
  PROVE /\ cache[Home[r]] # Cold /\ tier \in ladder
        /\ tier' # tier =>
             tier' > tier /\ tier' \in ladder /\ tier' = Lowest(Above(cache[Home[r]], tier))
        /\ status' = "dead" /\ tier \in cache[Home[r]] => Above(cache[Home[r]], tier) = {}
<1> DEFINE copy == cache[Home[r]]
<1>1. /\ copy \in SUBSET Tiers /\ copy \subseteq ladder /\ tier \in Tiers /\ tier \in ladder
      /\ copy # Cold
  BY PoolAssumption, HolderActs
  DEF Routes, ControlInv, PoolInv, PoolTypes, TaskTypes, LadderInv, CopiesOld
<1> HIDE DEF copy
<1>2. \A n : n = NextTier(copy, tier) =>
        /\ n # NoTier => n \in copy /\ n > tier /\ n = Lowest(Above(copy, tier))
        /\ n = NoTier /\ tier \in copy => Above(copy, tier) = {}
  BY <1>1, NextTierClimbs
<1>3. \/ NextTier(copy, tier) = NoTier /\ status' = "dead" /\ UNCHANGED tier
      \/ NextTier(copy, tier) # NoTier /\ status' = "pending" /\ tier' = NextTier(copy, tier)
  BY DEF Routes, copy
<1> QED
  BY <1>1, <1>2, <1>3 DEF copy

\* Whatever mixture of old copies the orchestrators hold, a promotion moves a task
\* up to a tier of the table (src/common/tiers.py:65-76).
THEOREM PromotionClimbsHolds == ControlSpec => PromotionClimbs
<1>1. ControlInv /\ [ControlNext]_cvars => [tier' # tier => tier' > tier /\ tier' \in ladder]_cvars
  <2>1. ASSUME ControlInv, ControlNext, tier' # tier PROVE tier' > tier /\ tier' \in ladder
    BY <2>1, TierMoves, RouteClimbs
  <2> QED
    BY <2>1
<1> QED
  BY <1>1, ControlInvariant, PTL DEF ControlSpec, PromotionClimbs

\* Where every copy is empty or up to date, promotion takes the very next tier of the
\* table, and a task is dead-lettered only where there is none.
THEOREM LadderFollowedHolds == ControlSpec => LadderFollowed
<1> DEFINE Followed ==
      Current => /\ tier' # tier => tier' = Lowest(Above(ladder, tier))
                 /\ status' = "dead" /\ status # "dead" => Above(ladder, tier) = {}
<1>1. ControlInv /\ [ControlNext]_cvars => [Followed]_cvars
  <2>1. ASSUME ControlInv, ControlNext, Current,
               tier' # tier \/ (status' = "dead" /\ status # "dead")
        PROVE Followed
    <3>1. PICK r \in Threads : Routes(r)
      BY <2>1, TierMoves
    <3>2. cache[Home[r]] = ladder
      BY <2>1, <3>1, RouteClimbs, PoolAssumption DEF Current
    <3> QED
      BY <2>1, <3>1, <3>2, RouteClimbs
  <2> QED
    BY <2>1
<1> QED
  BY <1>1, ControlInvariant, PTL DEF ControlSpec, LadderFollowed

\* A thread that waits has at most the connection of its transaction; only an
\* orchestrator's waits for a cache with that one, and it waits at the ladder with
\* the ladder's lock.
LEMMA WaitingHolds ==
  ASSUME PoolInv, NEW r \in Threads, Waiting(r)
  PROVE /\ conns[r] \in {0, 1}
        /\ conns[r] = 1 => Filling(r) \/ Role[Home[r]] = "orchestrator"
<1>1. /\ Fits(r, todo[r]) /\ First(todo[r]) \in {"open", "load", "fill"}
      /\ Place(todo[r]) = <<First(todo[r]), Rest(todo[r])>>
  BY DoingFirst DEF Waiting, Asking, Place
<1>2. conns[r] = IF Place(todo[r]) \in OpenPlaces THEN 1 ELSE 0
  BY <1>1 DEF PoolInv, PoolCounted, Held
<1>3. Place(todo[r]) \in OpenPlaces => Filling(r) \/ Place(todo[r]) \in ClassifyPlaces
  BY <1>1 DEF OpenPlaces, SortPlaces, ClassifyPlaces, FlagSteps, TierSteps, Filling
<1> QED
  BY <1>1, <1>2, <1>3 DEF Fits

\* An orchestrator has two connections and one loop, which never holds more than one
\* when it asks for another (src/scale/autoscaler.py:57).
THEOREM TwoAreAmpleHolds == ControlSpec => []TwoAreAmple
<1>1. ControlInv => TwoAreAmple
  <2>1. ASSUME ControlInv, NEW r \in Threads, Role[Home[r]] = "orchestrator", Waiting(r)
        PROVE FALSE
    <3> DEFINE p == Home[r]
    <3>1. p \in Processes /\ PoolMax[p] = 2 /\ free[p] = 0
      BY <2>1, PoolAssumption, ControlAssumption DEF Waiting
    <3>2. conns[r] \in {0, 1}
      BY <2>1, WaitingHolds DEF ControlInv
    <3>3. CheckedOut(conns, p) \subseteq {<<r, 1>>}
      <4>1. \A q \in Threads : Home[q] = p => q = r
        BY <2>1, OneLoop
      <4> QED
        BY <3>2, <4>1 DEF CheckedOut
    <3>4. Cardinality({<<r, 1>>}) = 1 /\ IsFiniteSet({<<r, 1>>})
      BY FS_Singleton
    <3>5. Cardinality(CheckedOut(conns, p)) \in Nat /\ Cardinality(CheckedOut(conns, p)) <= 1
      BY <3>3, <3>4, FS_Subset, FS_CardinalityType
    <3>6. 0 + Cardinality(CheckedOut(conns, p)) = 2
      BY <2>1, <3>1 DEF ControlInv, PoolInv, PoolCounted, Counted
    <3> QED
      BY <3>5, <3>6
  <2> QED
    BY <2>1 DEF TwoAreAmple
<1> QED
  BY <1>1, ControlInvariant, PTL

\* For any number of threads and connections, a pool whose process has the ladder's
\* copy filled is never all in the hands of threads that wait for it: some connection
\* is with a thread that will give it back (src/common/metrics.py:92-96).
THEOREM StarvedOnlyColdHolds == ControlSpec => []StarvedOnlyCold
<1>1. ControlInv /\ TwoAreAmple => StarvedOnlyCold
  <2>1. ASSUME ControlInv, TwoAreAmple, NEW p \in Processes, Starved(p), cache[p] # Cold
        PROVE FALSE
    <3>1. lock[p] = Nobody /\ \A r \in Threads : Home[r] = p => ~Filling(r)
      BY <2>1 DEF ControlInv, PoolInv, PoolTypes, LadderLocked
    <3>2. ASSUME NEW r \in Threads, Home[r] = p, conns[r] > 0 PROVE FALSE
      <4>1. Waiting(r)
        BY <2>1, <3>1, <3>2 DEF Starved
      <4>2. conns[r] = 1
        BY <2>1, <3>2, <4>1, WaitingHolds DEF ControlInv
      <4>3. Role[Home[r]] = "orchestrator"
        BY <2>1, <3>1, <3>2, <4>1, <4>2, WaitingHolds DEF ControlInv
      <4> QED
        BY <2>1, <4>1, <4>3 DEF TwoAreAmple
    <3>3. \A r \in Threads : conns[r] \in Nat
      BY <2>1 DEF ControlInv, PoolInv, PoolTypes
    <3>4. conns \in [Threads -> Nat] /\ \A r \in Threads : Home[r] = p => conns[r] = 0
      BY <2>1, <3>2, <3>3 DEF ControlInv, PoolInv, PoolTypes
    <3>5. CheckedOut(conns, p) = {}
      BY <3>4 DEF CheckedOut
    <3>6. 0 + Cardinality({}) = PoolMax[p]
      BY <2>1, <3>5 DEF Starved, ControlInv, PoolInv, PoolCounted, Counted
    <3> QED
      BY <3>6, FS_EmptySet, PoolAssumption
  <2> QED
    BY <2>1 DEF StarvedOnlyCold
<1> QED
  BY <1>1, ControlInvariant, TwoAreAmpleHolds, PTL
=============================================================================
