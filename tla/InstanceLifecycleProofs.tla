---------------------- MODULE InstanceLifecycleProofs ----------------------
(***************************************************************************)
(* Proofs about InstanceLifecycle when calls do not overlap, for any       *)
(* number of threads, instances and inits: the counter is the number of    *)
(* holders, so that no release fails its assertion, the last one destroys, *)
(* and a holder has the one living instance.                               *)
(***************************************************************************)
EXTENDS InstanceLifecycle, FiniteSetTheorems, TLAPS

(* The callers that the counter counts: the one that returns from            *)
(* getInstance is counted before it has the pointer.                         *)
Counted == {c \in Caller : held[c] # Null \/ At(c, "return")}

(* The lock of the application.                                              *)
Alone == \A c, d \in Caller : InCall(c) /\ InCall(d) => c = d

CounterIsExact ==
    /\ g_instanceRefCounter = Cardinality(Counted)
    /\ \A c \in Caller : At(c, "counted") \/ At(c, "uncount") => local[c] = g_instanceRefCounter

(* Where each caller is in its call says what it has and what the others     *)
(* may have.                                                                 *)
HasNothing == {"create", "count", "counted", "return", "uncounted", "shutdown", "join", "clear"}
Leaving    == {"shutdown", "join", "clear"}

CallersAgree ==
    \A c \in Caller :
        /\ held[c] # Null => held[c] = g_instance
        /\ pc[c] \in HasNothing => held[c] = Null
        /\ pc[c] \in {"release", "uncount"} => held[c] # Null
        /\ At(c, "create") => g_instance = Null
        /\ pc[c] \in HasNothing \ {"create"} => g_instance # Null
        /\ pc[c] \in Leaving => Counted = {}

(* The global pointer is null or to the living instance, except between the  *)
(* end of the destructor and the assignment after it.                        *)
PointerAgrees ==
    /\ alive \subseteq {g_instance}
    /\ g_instance # Null => g_instance \in alive \/ \E c \in Caller : At(c, "clear")
    /\ g_instance # Null => Counted # {} \/ \E c \in Caller : InCall(c)
    /\ \A c \in Caller : At(c, "clear") => alive = {}

LoopsAreKnown == \A l \in loops : l[2] <= threadClientMaintenance[l[1]]

LInv ==
    /\ TypeOK
    /\ Alone
    /\ CounterIsExact
    /\ CallersAgree
    /\ PointerAgrees
    /\ LoopsAreKnown
    /\ LoopsOnLivingInstance
    /\ ReleaseIsCounted

-----------------------------------------------------------------------------
(* Counting. *)

LEMMA CallersAreFinite == IsFiniteSet(Caller) /\ Cardinality(Caller) \in Nat
<1>1. IsFiniteSet(Instance) /\ IsFiniteSet(1 .. MaxInit)
  BY LifecycleAssumption, FS_Interval DEF Instance
<1>2. IsFiniteSet(Loop)
  BY <1>1, FS_Product DEF Loop
<1>3. IsFiniteSet(Caller)
  BY <1>2, FS_Union, LifecycleAssumption DEF Caller
<1>. QED
  BY <1>3, FS_CardinalityType

LEMMA CountedIsFinite ==
  /\ IsFiniteSet(Counted)
  /\ Cardinality(Counted) \in 0 .. Cardinality(Caller)
  /\ Cardinality(Counted) = 0 <=> Counted = {}
<1>1. Counted \in SUBSET Caller
  BY DEF Counted
<1>2. IsFiniteSet(Counted) /\ Cardinality(Counted) <= Cardinality(Caller)
  BY <1>1, CallersAreFinite, FS_Subset
<1>3. Cardinality(Counted) \in Nat
  BY <1>2, FS_CardinalityType
<1>. QED
  BY <1>2, <1>3, FS_EmptySet, CallersAreFinite

LEMMA CountedIsFiniteNext ==
  /\ Cardinality(Counted') \in 0 .. Cardinality(Caller)
  /\ Cardinality(Counted') = 0 <=> Counted' = {}
<1>1. Counted' \in SUBSET Caller
  BY DEF Counted
<1>2. IsFiniteSet(Counted') /\ Cardinality(Counted') <= Cardinality(Caller)
  BY <1>1, CallersAreFinite, FS_Subset
<1>3. Cardinality(Counted') \in Nat
  BY <1>2, FS_CardinalityType
<1>. QED
  BY <1>2, <1>3, FS_EmptySet, CallersAreFinite

-----------------------------------------------------------------------------
(* One lemma for the steps of each function. *)

(* What every step is taken in.                                              *)
Before == LInv /\ ended = "no" /\ ~Concurrent

(* A call only one caller can be in.                                         *)
LEMMA AloneStep ==
  ASSUME Before, NEW t \in Caller, NEW l, pc' = [pc EXCEPT ![t] = l],
         InCall(t) \/ Enter(t) \/ l = "wait"
  PROVE  Alone'
<1>. USE DEF Before, LInv, TypeOK, Alone, InCall, At, Enter
<1>1. CASE InCall(t)
  BY <1>1
<1>2. CASE Enter(t)
  BY <1>2
<1>3. CASE l = "wait"
  BY <1>3
<1>. QED
  BY <1>1, <1>2, <1>3

(* The invariant of a step that leaves the counter and who is counted alone. *)
LEMMA SameCount ==
  ASSUME Before, g_instanceRefCounter' = g_instanceRefCounter,
         held' = held, \A c \in Caller : At(c, "return") <=> At(c, "return")'
  PROVE  Counted' = Counted
  BY DEF Counted

LEMMA LookForInstanceStep ==
  ASSUME Before, NEW t \in Caller, LookForInstance(t)
  PROVE  LInv'
<1>. USE DEF Before, LInv
<1>1. Alone'
  BY AloneStep DEF LookForInstance, Goto
<1>2. Counted' = Counted
  BY SameCount DEF LookForInstance, Goto, At, TypeOK, globals, Enter
<1>3. TypeOK'
  BY DEF TypeOK, LookForInstance, Goto, globals, objects
<1>4. CounterIsExact'
  BY <1>2 DEF CounterIsExact, LookForInstance, Goto, At, TypeOK, globals
<1>5. CallersAgree'
  BY <1>2 DEF CallersAgree, LookForInstance, Goto, At, TypeOK, globals, HasNothing, Leaving
<1>6. PointerAgrees'
  BY <1>2 DEF PointerAgrees, LookForInstance, Goto, At, TypeOK, globals, objects, Enter, InCall
<1>7. LoopsAreKnown' /\ LoopsOnLivingInstance' /\ ReleaseIsCounted'
  BY DEF LoopsAreKnown, LoopsOnLivingInstance, ReleaseIsCounted, LookForInstance, objects
<1>. QED
  BY <1>1, <1>3, <1>4, <1>5, <1>6, <1>7

LEMMA CreateInstanceStep ==
  ASSUME Before, NEW t \in Caller, CreateInstance(t)
  PROVE  LInv'
<1>. USE DEF Before, LInv
<1>1. Alone'
  BY AloneStep DEF CreateInstance, Goto, InCall, At
<1>2. Counted' = Counted
  BY SameCount DEF CreateInstance, Goto, At, TypeOK
<1>3. TypeOK'
  BY LifecycleAssumption DEF TypeOK, CreateInstance, Goto, Instance
<1>4. CounterIsExact'
  BY <1>2 DEF CounterIsExact, CreateInstance, Goto, At, TypeOK
<1>5. g_instance = Null /\ alive = {} /\ \A c \in Caller : held[c] = Null /\ (c # t => ~InCall(c))
  <2>1. g_instance = Null
    BY DEF CallersAgree, CreateInstance
  <2>2. alive = {}
    BY <2>1 DEF PointerAgrees, TypeOK, Null, Instance
  <2>. QED
    BY <2>1, <2>2 DEF CallersAgree, Alone, InCall, At, CreateInstance
<1>6. CallersAgree'
  BY <1>2, <1>5 DEF CallersAgree, CreateInstance, Goto, At, TypeOK, HasNothing, Leaving, InCall, Null
<1>7. PointerAgrees'
  BY <1>5 DEF PointerAgrees, CreateInstance, Goto, At, TypeOK, InCall, Null
<1>8. LoopsAreKnown' /\ LoopsOnLivingInstance' /\ ReleaseIsCounted'
  BY DEF LoopsAreKnown, LoopsOnLivingInstance, ReleaseIsCounted, CreateInstance
<1>. QED
  BY <1>1, <1>3, <1>4, <1>6, <1>7, <1>8

LEMMA CountReferenceStep ==
  ASSUME Before, NEW t \in Caller, CountReference(t)
  PROVE  LInv'
<1>. USE DEF Before, LInv
<1>1. Alone'
  BY AloneStep DEF CountReference, Goto, ReadCounter, InCall, At
<1>2. Counted' = Counted
  BY SameCount DEF CountReference, Goto, ReadCounter, At, TypeOK, globals, Enter
<1>3. TypeOK'
  BY DEF TypeOK, CountReference, Goto, ReadCounter, globals, objects
<1>4. CounterIsExact'
  BY <1>2 DEF CounterIsExact, CountReference, Goto, ReadCounter, At, TypeOK, globals
<1>5. CallersAgree'
  BY <1>2 DEF CallersAgree, CountReference, Goto, ReadCounter, At, TypeOK, globals, HasNothing, Leaving, InCall
<1>6. PointerAgrees'
  BY <1>2 DEF PointerAgrees, CountReference, Goto, ReadCounter, At, TypeOK, globals, objects, Enter, InCall
<1>7. LoopsAreKnown' /\ LoopsOnLivingInstance' /\ ReleaseIsCounted'
  BY DEF LoopsAreKnown, LoopsOnLivingInstance, ReleaseIsCounted, CountReference, ReadCounter, objects
<1>. QED
  BY <1>1, <1>3, <1>4, <1>5, <1>6, <1>7

LEMMA StoreReferenceStep ==
  ASSUME Before, NEW t \in Caller, StoreReference(t)
  PROVE  LInv'
<1>. USE DEF Before, LInv
<1>1. Alone'
  BY AloneStep DEF StoreReference, Goto, InCall, At
<1>2. t \notin Counted /\ Counted' = Counted \cup {t}
  BY DEF Counted, CallersAgree, HasNothing, StoreReference, Goto, At, TypeOK
<1>3. CounterIsExact'
  <2>1. Cardinality(Counted') = Cardinality(Counted) + 1
    BY <1>2, CountedIsFinite, FS_AddElement
  <2>2. g_instanceRefCounter' = g_instanceRefCounter + 1
    BY DEF CounterIsExact, StoreReference
  <2>3. \A c \in Caller : ~At(c, "counted")' /\ ~At(c, "uncount")'
    BY DEF Alone, InCall, StoreReference, Goto, At, TypeOK
  <2>. QED
    BY <2>1, <2>2, <2>3 DEF CounterIsExact
<1>4. TypeOK'
  <2>1. g_instanceRefCounter' \in -Cardinality(Caller) .. Cardinality(Caller)
    BY <1>3, CountedIsFiniteNext, CallersAreFinite DEF CounterIsExact
  <2>. QED
    BY <2>1, CallersAreFinite DEF TypeOK, StoreReference, Goto, objects
<1>5. CallersAgree'
  BY DEF CallersAgree, StoreReference, Goto, At, TypeOK, HasNothing, Leaving, Alone, InCall
<1>6. PointerAgrees'
  BY <1>2 DEF PointerAgrees, StoreReference, Goto, At, TypeOK, objects, InCall
<1>7. LoopsAreKnown' /\ LoopsOnLivingInstance' /\ ReleaseIsCounted'
  BY DEF LoopsAreKnown, LoopsOnLivingInstance, ReleaseIsCounted, StoreReference, objects
<1>. QED
  BY <1>1, <1>3, <1>4, <1>5, <1>6, <1>7

LEMMA ReturnInstanceStep ==
  ASSUME Before, NEW t \in Caller, ReturnInstance(t)
  PROVE  LInv'
<1>. USE DEF Before, LInv
<1>1. Alone'
  BY AloneStep DEF ReturnInstance, Goto, InCall, At
<1>2. g_instance # Null
  BY DEF CallersAgree, HasNothing, ReturnInstance, At
<1>3. t \in Counted /\ Counted' = Counted
  BY <1>2 DEF Counted, ReturnInstance, Goto, At, TypeOK
<1>4. TypeOK'
  BY DEF TypeOK, ReturnInstance, Goto, globals, objects
<1>5. CounterIsExact'
  BY <1>3 DEF CounterIsExact, ReturnInstance, Goto, At, TypeOK, globals
<1>6. CallersAgree'
  BY <1>3 DEF CallersAgree, ReturnInstance, Goto, At, TypeOK, globals, HasNothing, Leaving
<1>7. PointerAgrees'
  BY <1>3 DEF PointerAgrees, ReturnInstance, Goto, At, TypeOK, globals, objects
<1>8. LoopsAreKnown' /\ LoopsOnLivingInstance' /\ ReleaseIsCounted'
  BY DEF LoopsAreKnown, LoopsOnLivingInstance, ReleaseIsCounted, ReturnInstance, objects
<1>. QED
  BY <1>1, <1>4, <1>5, <1>6, <1>7, <1>8

LEMMA InitInstanceStep ==
  ASSUME Before, NEW t \in Caller, InitInstance(t)
  PROVE  LInv'
<1>. USE DEF Before, LInv
<1>. DEFINE i == held[t]
            n == threadClientMaintenance[i] + 1
<1>1. Counted' = Counted
  BY SameCount DEF InitInstance, globals, At
<1>2. i \in Instance /\ i \in alive /\ n \in 1 .. MaxInit
  BY LifecycleAssumption DEF TypeOK, InitInstance
<1>3. /\ threadClientMaintenance' = [threadClientMaintenance EXCEPT ![i] = n]
      /\ loops' = loops \cup {<<i, n>>}
  BY <1>2 DEF InitInstance, TypeOK
<1>4. TypeOK'
  BY <1>2, <1>3 DEF TypeOK, InitInstance, Loop, globals
<1>5. Alone' /\ CounterIsExact' /\ CallersAgree' /\ PointerAgrees' /\ ReleaseIsCounted'
  BY <1>1 DEF InitInstance, globals, Alone, InCall, At, CounterIsExact, CallersAgree, PointerAgrees,
              ReleaseIsCounted
<1>6. LoopsAreKnown' /\ LoopsOnLivingInstance'
  <2>. SUFFICES ASSUME NEW l \in loops'
                PROVE  /\ l[2] <= threadClientMaintenance'[l[1]]
                       /\ l[1] \in alive' \/ threadClientMaintenance'[l[1]] > 1
    BY DEF LoopsAreKnown, LoopsOnLivingInstance
  <2>1. CASE l = <<i, n>>
    BY <2>1, <1>2, <1>3 DEF InitInstance, TypeOK
  <2>2. CASE l \in loops
    <3>1. l[1] \in Instance /\ l[2] \in 1 .. MaxInit
      BY <2>2 DEF TypeOK, Loop
    <3>2. l[2] <= threadClientMaintenance[l[1]]
      BY <2>2 DEF LoopsAreKnown
    <3>3. l[1] \in alive \/ threadClientMaintenance[l[1]] > 1
      BY <2>2 DEF LoopsOnLivingInstance
    <3>4. threadClientMaintenance'[l[1]] >= threadClientMaintenance[l[1]]
      BY <3>1, <1>2, <1>3 DEF TypeOK
    <3>. QED
      BY <3>1, <3>2, <3>3, <3>4, <1>4, LifecycleAssumption DEF TypeOK, InitInstance
  <2>. QED
    BY <1>3, <2>1, <2>2
<1>. QED
  BY <1>4, <1>5, <1>6

LEMMA AssertCountedStep ==
  ASSUME Before, NEW t \in Caller, AssertCounted(t)
  PROVE  LInv'
<1>. USE DEF Before, LInv
<1>1. g_instanceRefCounter > 0
  <2>1. t \in Counted
    BY DEF Counted, AssertCounted
  <2>. QED
    BY <2>1, CountedIsFinite, CallersAreFinite DEF CounterIsExact
<1>2. Goto(t, "release") /\ UNCHANGED ended
  BY <1>1 DEF AssertCounted
<1>3. Alone'
  BY <1>2, AloneStep DEF AssertCounted, Goto
<1>4. Counted' = Counted
  BY <1>2, SameCount DEF AssertCounted, Goto, At, TypeOK, globals, Enter
<1>5. TypeOK'
  BY <1>2 DEF TypeOK, AssertCounted, Goto, globals, objects
<1>6. CounterIsExact'
  BY <1>2, <1>4 DEF CounterIsExact, AssertCounted, Goto, At, TypeOK, globals
<1>7. CallersAgree'
  BY <1>2, <1>4 DEF CallersAgree, AssertCounted, Goto, At, TypeOK, globals, HasNothing, Leaving
<1>8. PointerAgrees'
  BY <1>2, <1>4 DEF PointerAgrees, AssertCounted, Goto, At, TypeOK, globals, objects, Enter, InCall
<1>9. LoopsAreKnown' /\ LoopsOnLivingInstance' /\ ReleaseIsCounted'
  BY <1>2 DEF LoopsAreKnown, LoopsOnLivingInstance, ReleaseIsCounted, AssertCounted, objects
<1>. QED
  BY <1>3, <1>5, <1>6, <1>7, <1>8, <1>9

LEMMA ReleaseReferenceStep ==
  ASSUME Before, NEW t \in Caller, ReleaseReference(t)
  PROVE  LInv'
<1>. USE DEF Before, LInv
<1>1. Alone'
  BY AloneStep DEF ReleaseReference, Goto, ReadCounter, InCall, At
<1>2. Counted' = Counted
  BY SameCount DEF ReleaseReference, Goto, ReadCounter, At, TypeOK, globals, Enter
<1>3. TypeOK'
  BY DEF TypeOK, ReleaseReference, Goto, ReadCounter, globals, objects
<1>4. CounterIsExact'
  BY <1>2 DEF CounterIsExact, ReleaseReference, Goto, ReadCounter, At, TypeOK, globals
<1>5. CallersAgree'
  BY <1>2 DEF CallersAgree, ReleaseReference, Goto, ReadCounter, At, TypeOK, globals, HasNothing, Leaving, InCall
<1>6. PointerAgrees'
  BY <1>2 DEF PointerAgrees, ReleaseReference, Goto, ReadCounter, At, TypeOK, globals, objects, Enter, InCall
<1>7. LoopsAreKnown' /\ LoopsOnLivingInstance' /\ ReleaseIsCounted'
  BY DEF LoopsAreKnown, LoopsOnLivingInstance, ReleaseIsCounted, ReleaseReference, ReadCounter, objects
<1>. QED
  BY <1>1, <1>3, <1>4, <1>5, <1>6, <1>7

LEMMA DropReferenceStep ==
  ASSUME Before, NEW t \in Caller, DropReference(t)
  PROVE  LInv'
<1>. USE DEF Before, LInv
<1>1. Alone'
  BY AloneStep DEF DropReference, Goto, InCall, At
<1>2. held[t] # Null /\ g_instance = held[t]
  BY DEF CallersAgree, DropReference, At
<1>3. t \in Counted /\ Counted' = Counted \ {t}
  BY <1>2 DEF Counted, DropReference, Goto, At, TypeOK
<1>4. CounterIsExact'
  <2>1. Cardinality(Counted') = Cardinality(Counted) - 1
    BY <1>3, CountedIsFinite, FS_RemoveElement
  <2>2. g_instanceRefCounter' = g_instanceRefCounter - 1
    BY DEF CounterIsExact, DropReference
  <2>3. \A c \in Caller : ~At(c, "counted")' /\ ~At(c, "uncount")'
    BY DEF Alone, InCall, DropReference, Goto, At, TypeOK
  <2>. QED
    BY <2>1, <2>2, <2>3 DEF CounterIsExact
<1>5. TypeOK'
  <2>1. g_instanceRefCounter' \in -Cardinality(Caller) .. Cardinality(Caller)
    BY <1>4, CountedIsFiniteNext, CallersAreFinite DEF CounterIsExact
  <2>. QED
    BY <2>1, CallersAreFinite DEF TypeOK, DropReference, Goto, objects
<1>6. CallersAgree'
  BY <1>2 DEF CallersAgree, DropReference, Goto, At, TypeOK, HasNothing, Leaving, Alone, InCall
<1>7. PointerAgrees'
  BY DEF PointerAgrees, DropReference, Goto, At, TypeOK, objects, InCall
<1>8. LoopsAreKnown' /\ LoopsOnLivingInstance' /\ ReleaseIsCounted'
  BY DEF LoopsAreKnown, LoopsOnLivingInstance, ReleaseIsCounted, DropReference, objects
<1>. QED
  BY <1>1, <1>4, <1>5, <1>6, <1>7, <1>8

LEMMA TestLastStep ==
  ASSUME Before, NEW t \in Caller, TestLast(t)
  PROVE  LInv'
<1>. USE DEF Before, LInv
<1>1. Alone'
  BY AloneStep DEF TestLast, Goto, InCall, At
<1>2. Counted' = Counted
  BY SameCount DEF TestLast, Goto, At, TypeOK, globals
<1>3. g_instanceRefCounter = 0 <=> Counted = {}
  BY CountedIsFinite DEF CounterIsExact
<1>4. TypeOK'
  BY DEF TypeOK, TestLast, Goto, globals, objects
<1>5. CounterIsExact'
  BY <1>2 DEF CounterIsExact, TestLast, Goto, At, TypeOK, globals
<1>6. CallersAgree'
  BY <1>2, <1>3 DEF CallersAgree, TestLast, Goto, At, TypeOK, globals, HasNothing, Leaving
<1>7. PointerAgrees'
  BY <1>2, <1>3 DEF PointerAgrees, TestLast, Goto, At, TypeOK, globals, objects, InCall
<1>8. LoopsAreKnown' /\ LoopsOnLivingInstance' /\ ReleaseIsCounted'
  BY DEF LoopsAreKnown, LoopsOnLivingInstance, ReleaseIsCounted, TestLast, objects
<1>. QED
  BY <1>1, <1>4, <1>5, <1>6, <1>7, <1>8

LEMMA CallShutdownStep ==
  ASSUME Before, NEW t \in Caller, CallShutdown(t)
  PROVE  LInv'
<1>. USE DEF Before, LInv
<1>1. Alone'
  BY AloneStep DEF CallShutdown, Goto, InCall, At
<1>2. Counted' = Counted
  BY SameCount DEF CallShutdown, Goto, At, TypeOK, globals, Enter
<1>3. TypeOK'
  BY DEF TypeOK, CallShutdown, Goto, globals, objects
<1>4. CounterIsExact'
  BY <1>2 DEF CounterIsExact, CallShutdown, Goto, At, TypeOK, globals
<1>5. CallersAgree'
  BY <1>2 DEF CallersAgree, CallShutdown, Goto, At, TypeOK, globals, HasNothing, Leaving, InCall
<1>6. PointerAgrees'
  BY <1>2 DEF PointerAgrees, CallShutdown, Goto, At, TypeOK, globals, objects, Enter, InCall
<1>7. LoopsAreKnown' /\ LoopsOnLivingInstance' /\ ReleaseIsCounted'
  BY DEF LoopsAreKnown, LoopsOnLivingInstance, ReleaseIsCounted, CallShutdown, objects
<1>. QED
  BY <1>1, <1>3, <1>4, <1>5, <1>6, <1>7

LEMMA JoinStep ==
  ASSUME Before, NEW t \in Caller, Join(t)
  PROVE  LInv'
<1>. USE DEF Before, LInv
<1>1. Alone'
  BY AloneStep DEF Join, Goto, InCall, At
<1>2. Counted' = Counted
  BY SameCount DEF Join, Goto, At, TypeOK, globals
<1>3. TypeOK'
  BY DEF TypeOK, Join, Goto, globals
<1>4. CounterIsExact'
  BY <1>2 DEF CounterIsExact, Join, Goto, At, TypeOK, globals
<1>5. CallersAgree'
  BY <1>2 DEF CallersAgree, Join, Goto, At, TypeOK, globals, HasNothing, Leaving
<1>6. PointerAgrees'
  BY <1>2 DEF PointerAgrees, Join, Goto, At, TypeOK, globals, InCall
<1>7. LoopsAreKnown' /\ ReleaseIsCounted'
  BY DEF LoopsAreKnown, ReleaseIsCounted, Join
<1>8. LoopsOnLivingInstance'
  <2>. SUFFICES ASSUME NEW l \in loops, l[1] \in alive,
                       threadClientMaintenance[l[1]] <= 1
                PROVE  l[1] \in alive'
    BY DEF LoopsOnLivingInstance, Join, TypeOK, Loop
  <2>1. l \in Instance \X (1 .. MaxInit)
    BY DEF TypeOK, Loop
  <2>2. l[2] = 1 /\ threadClientMaintenance[l[1]] = 1
    BY <2>1 DEF LoopsAreKnown, TypeOK
  <2>3. l = <<l[1], threadClientMaintenance[l[1]]>>
    BY <2>1, <2>2
  <2>4. l[1] # g_instance
    BY <2>3 DEF Join, KnownLoop
  <2>. QED
    BY <2>4 DEF Join
<1>. QED
  BY <1>1, <1>3, <1>4, <1>5, <1>6, <1>7, <1>8

LEMMA JoinSelfStep ==
  ASSUME Before, NEW t \in Caller, JoinSelf(t)
  PROVE  LInv'
<1>. USE DEF Before, LInv
<1>1. TypeOK' /\ Counted' = Counted
  BY DEF TypeOK, JoinSelf, globals, objects, Counted, At
<1>2. Alone' /\ CounterIsExact' /\ CallersAgree' /\ PointerAgrees'
  BY <1>1 DEF JoinSelf, globals, objects, Alone, InCall, At, CounterIsExact, CallersAgree,
              PointerAgrees
<1>3. LoopsAreKnown' /\ LoopsOnLivingInstance' /\ ReleaseIsCounted'
  BY DEF LoopsAreKnown, LoopsOnLivingInstance, ReleaseIsCounted, JoinSelf, objects
<1>. QED
  BY <1>1, <1>2, <1>3

LEMMA ClearInstanceStep ==
  ASSUME Before, NEW t \in Caller, ClearInstance(t)
  PROVE  LInv'
<1>. USE DEF Before, LInv
<1>1. Alone'
  BY AloneStep DEF ClearInstance, Goto, InCall, At
<1>2. Counted' = Counted
  BY SameCount DEF ClearInstance, Goto, At, TypeOK
<1>3. Counted = {} /\ alive = {} /\ \A c \in Caller : held[c] = Null
  BY DEF CallersAgree, PointerAgrees, Counted, ClearInstance, At, HasNothing, Leaving
<1>4. TypeOK'
  BY DEF TypeOK, ClearInstance, Goto, objects
<1>5. CounterIsExact'
  BY <1>2 DEF CounterIsExact, ClearInstance, Goto, At, TypeOK
<1>6. CallersAgree'
  BY <1>2, <1>3 DEF CallersAgree, ClearInstance, Goto, At, TypeOK, HasNothing, Leaving, Alone, InCall
<1>7. PointerAgrees'
  BY <1>3 DEF PointerAgrees, ClearInstance, Goto, At, TypeOK, objects
<1>8. LoopsAreKnown' /\ LoopsOnLivingInstance' /\ ReleaseIsCounted'
  BY DEF LoopsAreKnown, LoopsOnLivingInstance, ReleaseIsCounted, ClearInstance, objects
<1>. QED
  BY <1>1, <1>4, <1>5, <1>6, <1>7, <1>8

LEMMA LoopStep ==
  ASSUME Before, NEW t \in Loop, SlotCalls(t) \/ LoopEnds(t)
  PROVE  LInv'
<1>. USE DEF Before, LInv
<1>0. t \in Caller
  BY DEF Caller
<1>1. CASE SlotCalls(t)
  <2>1. Alone'
    BY <1>0, <1>1, AloneStep DEF SlotCalls, Goto
  <2>2. Counted' = Counted
    BY <1>0, <1>1, SameCount DEF SlotCalls, Goto, At, TypeOK, globals
  <2>3. TypeOK'
    BY <1>0, <1>1 DEF TypeOK, SlotCalls, Goto, globals, objects
  <2>4. CounterIsExact' /\ CallersAgree'
    BY <1>0, <1>1, <2>2 DEF CounterIsExact, CallersAgree, SlotCalls, Goto, At, TypeOK, globals,
                            HasNothing, Leaving
  <2>5. PointerAgrees'
    BY <1>0, <1>1, <2>2 DEF PointerAgrees, SlotCalls, Goto, At, TypeOK, globals, objects, InCall
  <2>6. LoopsAreKnown' /\ LoopsOnLivingInstance' /\ ReleaseIsCounted'
    BY <1>1 DEF LoopsAreKnown, LoopsOnLivingInstance, ReleaseIsCounted, SlotCalls, objects
  <2>. QED
    BY <2>1, <2>3, <2>4, <2>5, <2>6
<1>2. CASE LoopEnds(t)
  <2>1. TypeOK' /\ Counted' = Counted
    BY <1>2 DEF TypeOK, LoopEnds, globals, Counted, At
  <2>2. Alone' /\ CounterIsExact' /\ CallersAgree' /\ PointerAgrees'
    BY <1>2, <2>1 DEF LoopEnds, globals, Alone, InCall, At, CounterIsExact, CallersAgree,
                      PointerAgrees
  <2>3. LoopsAreKnown' /\ LoopsOnLivingInstance' /\ ReleaseIsCounted'
    BY <1>2 DEF LoopsAreKnown, LoopsOnLivingInstance, ReleaseIsCounted, LoopEnds
  <2>. QED
    BY <2>1, <2>2, <2>3
<1>. QED
  BY <1>1, <1>2

-----------------------------------------------------------------------------
(* The theorems: one call at a time. *)

LEMMA InitHolds == Init => LInv
<1>. SUFFICES ASSUME Init PROVE LInv
  OBVIOUS
<1>1. Counted = {}
  BY DEF Init, Counted, At, Null
<1>2. TypeOK
  BY LifecycleAssumption, CallersAreFinite DEF Init, TypeOK, Null
<1>3. CounterIsExact
  BY <1>1, FS_EmptySet DEF Init, CounterIsExact, At
<1>. QED
  BY <1>1, <1>2, <1>3 DEF Init, LInv, Alone, InCall, At, CallersAgree, PointerAgrees, LoopsAreKnown,
                          LoopsOnLivingInstance, ReleaseIsCounted, HasNothing, Leaving, Null

LEMMA NextHolds ==
  ASSUME LInv, [Next]_vars, ~Concurrent
  PROVE  LInv'
<1>1. CASE UNCHANGED vars
  BY <1>1 DEF vars, globals, objects, LInv, TypeOK, Alone, InCall, At, CounterIsExact, Counted,
              CallersAgree, PointerAgrees, LoopsAreKnown, LoopsOnLivingInstance, ReleaseIsCounted
<1>2. CASE Next
  BY <1>2, LookForInstanceStep, CreateInstanceStep, CountReferenceStep, StoreReferenceStep,
     ReturnInstanceStep, InitInstanceStep, AssertCountedStep, ReleaseReferenceStep,
     DropReferenceStep, TestLastStep, CallShutdownStep, JoinStep, JoinSelfStep, ClearInstanceStep,
     LoopStep
     DEF Next, Before
<1>. QED
  BY <1>1, <1>2

LEMMA Invariance ==
  ASSUME ~Concurrent
  PROVE  Safety => []LInv
<1>1. LInv /\ [Next]_vars => LInv'
  BY NextHolds
<1>. QED
  BY <1>1, InitHolds, PTL DEF Safety

(* Type correctness; the counter never leaves 0 .. the number of callers.    *)
THEOREM TypeCorrect ==
  ASSUME ~Concurrent
  PROVE  Safety => []TypeOK
<1>1. LInv => TypeOK
  BY DEF LInv
<1>. QED
  BY <1>1, Invariance, PTL

(* assert( g_instanceRefCounter > 0 ) never fails.                           *)
THEOREM ReleasesAreCounted ==
  ASSUME ~Concurrent
  PROVE  Safety => []ReleaseIsCounted
<1>1. LInv => ReleaseIsCounted
  BY DEF LInv
<1>. QED
  BY <1>1, Invariance, PTL

(* Every holder has the one living instance.                                 *)
THEOREM HoldersShareOneInstance ==
  ASSUME ~Concurrent
  PROVE  Safety => []HolderHasSingleton
<1>1. LInv => HolderHasSingleton
  <2>. SUFFICES ASSUME LInv PROVE HolderHasSingleton
    OBVIOUS
  <2>1. ASSUME NEW t \in Caller, held[t] # Null PROVE held[t] \in alive
    <3>1. held[t] = g_instance /\ t \in Counted
      BY <2>1 DEF LInv, CallersAgree, Counted
    <3>2. \A c \in Caller : ~At(c, "clear")
      BY <3>1 DEF LInv, CallersAgree, At, Leaving
    <3>. QED
      BY <2>1, <3>1, <3>2 DEF LInv, PointerAgrees
  <2>2. IsFiniteSet({g_instance}) /\ Cardinality({g_instance}) = 1
    BY FS_Singleton
  <2>3. Cardinality(alive) <= 1
    BY <2>2, FS_Subset DEF LInv, PointerAgrees
  <2>. QED
    BY <2>1, <2>3 DEF HolderHasSingleton
<1>. QED
  BY <1>1, Invariance, PTL

(* No loop of an instance that was initialised once outlives it.             *)
THEOREM LoopsEndFirst ==
  ASSUME ~Concurrent
  PROVE  Safety => []LoopsOnLivingInstance
<1>1. LInv => LoopsOnLivingInstance
  BY DEF LInv
<1>. QED
  BY <1>1, Invariance, PTL

(* What nobody has is destroyed.                                             *)
THEOREM LastReleaseIsFinal ==
  ASSUME ~Concurrent
  PROVE  Safety => []LastReleaseDestroys
<1>1. LInv => LastReleaseDestroys
  <2>. SUFFICES ASSUME LInv, \A t \in Caller : held[t] = Null /\ ~InCall(t)
                PROVE  alive = {} /\ g_instance = Null
    BY DEF LastReleaseDestroys
  <2>1. Counted = {}
    BY DEF Counted, InCall, At
  <2>2. g_instance = Null
    BY <2>1 DEF LInv, PointerAgrees
  <2>3. alive = {}
    BY <2>2 DEF LInv, PointerAgrees, TypeOK, Null, Instance
  <2>. QED
    BY <2>2, <2>3
<1>. QED
  BY <1>1, Invariance, PTL

-----------------------------------------------------------------------------
(* The calls implement SharedInstance. *)

LEMMA SharedInitRefined == Init => Shared!SharedInit
<1>. SUFFICES ASSUME Init PROVE Shared!SharedInit
  OBVIOUS
<1>1. HasInstance = [c \in Caller |-> Null]
  BY DEF Init, HasInstance
<1>2. 1 .. created = {} /\ LivingInstance = Null
  BY DEF Init, LivingInstance
<1>. QED
  BY <1>1, <1>2 DEF Shared!SharedInit

(* A caller with the instance is one that is counted or will be.             *)
LEMMA UsersAre ==
  /\ Shared!Users = {c \in Caller : HasInstance[c] # Null}
  /\ \A c \in Caller : HasInstance[c] =
        IF pc[c] \in {"count", "counted", "return"} THEN g_instance ELSE held[c]
BY DEF Shared!Users, HasInstance

(* Where one caller moves on and the pointers stay, only what this caller    *)
(* has may change.                                                           *)
LEMMA MoveRefined ==
  ASSUME Before, NEW t \in Caller, NEW l, NEW h,
         pc' = [pc EXCEPT ![t] = l], held' = [held EXCEPT ![t] = h], g_instance' = g_instance
  PROVE  HasInstance' = [HasInstance EXCEPT ![t] =
            IF l \in {"count", "counted", "return"} THEN g_instance ELSE h]
BY DEF Before, LInv, TypeOK, HasInstance

LEMMA HoldStaysRefined ==
  ASSUME Before, NEW t \in Caller, NEW l,
         pc' = [pc EXCEPT ![t] = l], held' = held, g_instance' = g_instance,
         (IF l \in {"count", "counted", "return"} THEN g_instance ELSE held[t]) = HasInstance[t]
  PROVE  HasInstance' = HasInstance
<1>1. held' = [held EXCEPT ![t] = held[t]]
  BY DEF Before, LInv, TypeOK
<1>2. HasInstance' = [HasInstance EXCEPT ![t] =
            IF l \in {"count", "counted", "return"} THEN g_instance ELSE held[t]]
  BY <1>1, MoveRefined, Zenon
<1>. QED
  BY <1>2 DEF HasInstance

LEMMA LookForInstanceRefined ==
  ASSUME Before, NEW t \in Caller, LookForInstance(t)
  PROVE  Shared!GetShared(t) \/ UNCHANGED Shared!sharedVars
<1>. USE DEF Before, LInv, TypeOK, At, Enter, InCall
<1>0. HasInstance[t] = Null /\ held' = held /\ g_instance' = g_instance
      /\ created' = created /\ alive' = alive /\ LivingInstance' = LivingInstance
  BY UsersAre DEF LookForInstance, globals, objects, LivingInstance
<1>1. CASE g_instance = Null
  <2>1. pc' = [pc EXCEPT ![t] = "create"]
    BY <1>1 DEF LookForInstance, Goto
  <2>2. HasInstance' = HasInstance
    BY <1>0, <2>1, HoldStaysRefined DEF LookForInstance
  <2>. QED
    BY <1>0, <2>2 DEF Shared!sharedVars
<1>2. CASE g_instance # Null
  <2>1. pc' = [pc EXCEPT ![t] = "count"]
    BY <1>2 DEF LookForInstance, Goto
  <2>2. held' = [held EXCEPT ![t] = held[t]]
    BY <1>0
  <2>3. HasInstance' = [HasInstance EXCEPT ![t] = g_instance]
    BY <1>0, <2>1, <2>2, MoveRefined
  <2>4. g_instance \in alive /\ Counted # {}
    BY <1>2 DEF LookForInstance, PointerAgrees
  <2>5. Shared!Users # {}
    <3>1. PICK c \in Counted : TRUE
      BY <2>4
    <3>. QED
      BY <3>1, UsersAre DEF LookForInstance, Counted
  <2>. QED
    BY <1>0, <2>3, <2>4, <2>5 DEF Shared!GetShared, LivingInstance
<1>. QED
  BY <1>1, <1>2

LEMMA CreateInstanceRefined ==
  ASSUME Before, NEW t \in Caller, CreateInstance(t)
  PROVE  Shared!GetFirst(t)
<1>. USE DEF Before, LInv, TypeOK, At, InCall
<1>1. g_instance = Null /\ alive = {}
  BY DEF CreateInstance, CallersAgree, PointerAgrees, Null, Instance
<1>2. \A c \in Caller : held[c] = Null /\ (pc[c] \in {"count", "counted", "return"} => FALSE)
  BY <1>1 DEF CreateInstance, CallersAgree, Alone
<1>3. Shared!Users = {} /\ HasInstance = [c \in Caller |-> Null]
  BY <1>2, UsersAre DEF HasInstance
<1>4. created' \in Instance \ (1 .. created) /\ 1 .. created' = (1 .. created) \cup {created'}
      /\ created' # Null
  BY LifecycleAssumption DEF CreateInstance, Instance, Null
<1>5. LivingInstance = Null /\ LivingInstance' = created'
  BY <1>1 DEF LivingInstance, CreateInstance
<1>6. HasInstance' = [HasInstance EXCEPT ![t] = created']
  BY <1>2, <1>3 DEF HasInstance, CreateInstance, Goto
<1>. QED
  BY <1>3, <1>4, <1>5, <1>6 DEF Shared!GetFirst

LEMMA DropReferenceRefined ==
  ASSUME Before, NEW t \in Caller, DropReference(t)
  PROVE  Shared!Release(t)
<1>. USE DEF Before, LInv, TypeOK, At
<1>1. HasInstance[t] # Null
  BY UsersAre DEF DropReference, CallersAgree
<1>2. HasInstance' = [HasInstance EXCEPT ![t] = Null]
  BY MoveRefined DEF DropReference, Goto
<1>3. UNCHANGED <<LivingInstance, 1 .. created>>
  BY DEF LivingInstance, DropReference, objects
<1>. QED
  BY <1>1, <1>2, <1>3 DEF Shared!Release

LEMMA JoinRefined ==
  ASSUME Before, NEW t \in Caller, Join(t)
  PROVE  Shared!Destroy
<1>. USE DEF Before, LInv, TypeOK, At, InCall
<1>1. LivingInstance = g_instance /\ g_instance # Null
  BY DEF Join, LivingInstance, Null, Instance
<1>2. LivingInstance' = Null
  BY DEF Join, LivingInstance, PointerAgrees
<1>3. Counted = {}
  BY DEF Join, CallersAgree, Leaving
<1>4. Shared!Users = {}
  BY <1>3, UsersAre DEF Join, Alone, Counted
<1>5. HasInstance' = HasInstance
  BY HoldStaysRefined, UsersAre DEF Join, Goto, globals
<1>. QED
  BY <1>1, <1>2, <1>4, <1>5 DEF Shared!Destroy, Join

LEMMA ClearInstanceRefined ==
  ASSUME Before, NEW t \in Caller, ClearInstance(t)
  PROVE  UNCHANGED Shared!sharedVars
<1>. USE DEF Before, LInv, TypeOK, At, InCall
<1>1. LivingInstance = Null /\ LivingInstance' = Null /\ created' = created
  BY DEF ClearInstance, LivingInstance, PointerAgrees, objects
<1>2. \A c \in Caller : pc[c] \notin {"count", "counted", "return"}
  BY DEF ClearInstance, Alone
<1>3. HasInstance' = HasInstance
  BY <1>2 DEF HasInstance, ClearInstance, Goto
<1>. QED
  BY <1>1, <1>3 DEF Shared!sharedVars

(* The other steps are inside of the calls.                                  *)
LEMMA InsideRefined ==
  ASSUME Before, NEW t \in Caller,
         \/ CountReference(t) \/ StoreReference(t) \/ ReturnInstance(t) \/ InitInstance(t)
         \/ AssertCounted(t) \/ ReleaseReference(t) \/ TestLast(t) \/ CallShutdown(t)
         \/ JoinSelf(t)
  PROVE  UNCHANGED Shared!sharedVars
<1>. USE DEF Before, LInv, TypeOK, At, Goto
<1>1. UNCHANGED <<LivingInstance, created>> /\ g_instance' = g_instance
  BY DEF CountReference, StoreReference, ReturnInstance, InitInstance, AssertCounted,
         ReleaseReference, ReadCounter, TestLast, CallShutdown, JoinSelf, globals, objects,
         LivingInstance
<1>2. CASE ReturnInstance(t)
  <2>1. HasInstance' = HasInstance
    BY <1>1, <1>2 DEF ReturnInstance, HasInstance
  <2>. QED
    BY <1>1, <2>1 DEF Shared!sharedVars
<1>3. CASE CountReference(t) \/ StoreReference(t)
  BY <1>1, <1>3, HoldStaysRefined, UsersAre
     DEF CountReference, StoreReference, ReadCounter, Shared!sharedVars
<1>4. CASE UNCHANGED pc /\ UNCHANGED held
  BY <1>1, <1>4 DEF HasInstance, Shared!sharedVars
<1>5. CASE AssertCounted(t) \/ ReleaseReference(t) \/ TestLast(t) \/ CallShutdown(t)
  <2>1. CASE UNCHANGED pc
    BY <1>4, <1>5, <2>1 DEF AssertCounted, ReleaseReference, ReadCounter, TestLast, CallShutdown
  <2>2. CASE pc' # pc
    BY <1>1, <1>5, <2>2, HoldStaysRefined, UsersAre
       DEF AssertCounted, ReleaseReference, ReadCounter, TestLast, CallShutdown, Enter,
           Shared!sharedVars
  <2>. QED
    BY <2>1, <2>2
<1>. QED
  BY <1>2, <1>3, <1>4, <1>5 DEF InitInstance, JoinSelf

LEMMA LoopRefined ==
  ASSUME Before, NEW l \in Loop, SlotCalls(l) \/ LoopEnds(l)
  PROVE  UNCHANGED Shared!sharedVars
<1>1. UNCHANGED <<LivingInstance, created, g_instance, held>>
  BY DEF SlotCalls, LoopEnds, globals, objects, LivingInstance
<1>2. CASE SlotCalls(l)
  <2>1. HasInstance[l] = held[l] /\ l \in Caller
    BY <1>2, UsersAre DEF SlotCalls, At, Caller
  <2>2. HasInstance' = HasInstance
    BY <1>1, <1>2, <2>1, HoldStaysRefined DEF SlotCalls, Goto
  <2>. QED
    BY <1>1, <2>2 DEF Shared!sharedVars
<1>3. CASE LoopEnds(l)
  BY <1>1, <1>3 DEF LoopEnds, HasInstance, Shared!sharedVars
<1>. QED
  BY <1>2, <1>3

(* The global pointer, the counter and the steps of the destructor implement *)
(* one shared instance when calls do not overlap: getInstance never hands    *)
(* out what is on its way out or was used before, and the last release       *)
(* destroys (dss_client.cpp:383-416).                                        *)
THEOREM InstanceIsShared ==
  ASSUME ~Concurrent
  PROVE  Safety => ImplementsSharedInstance
<1>1. LInv /\ [Next]_vars => [Shared!SharedNext]_(Shared!sharedVars)
  <2>. SUFFICES ASSUME LInv, [Next]_vars PROVE [Shared!SharedNext]_(Shared!sharedVars)
    OBVIOUS
  <2>1. CASE UNCHANGED vars
    BY <2>1 DEF vars, globals, objects, HasInstance, LivingInstance, Shared!sharedVars
  <2>2. CASE Next
    <3>. Before
      BY <2>2 DEF Before, Next
    <3>1. ASSUME NEW t \in Caller,
                 \/ LookForInstance(t) \/ CreateInstance(t) \/ DropReference(t)
                 \/ Join(t) \/ ClearInstance(t)
          PROVE  [Shared!SharedNext]_(Shared!sharedVars)
      BY <3>1, LookForInstanceRefined, CreateInstanceRefined, DropReferenceRefined, JoinRefined,
         ClearInstanceRefined DEF Shared!SharedNext
    <3>. QED
      BY <2>2, <3>1, InsideRefined, LoopRefined DEF Next
  <2>. QED
    BY <2>1, <2>2
<1>. QED
  BY <1>1, SharedInitRefined, Invariance, PTL DEF Safety, ImplementsSharedInstance, Shared!SharedSpec
=============================================================================
