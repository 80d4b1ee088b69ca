------------------------- MODULE InstanceLifecycle -------------------------
(***************************************************************************)
(* The one DssClient of a process: getInstance, init, releaseInstance and  *)
(* the destructor of dss_client.cpp, called by the threads of the          *)
(* application and by its slots, which the maintenance loops run when they *)
(* emit a signal of the client.                                            *)
(*                                                                         *)
(* g_instance and g_instanceRefCounter are plain globals without a lock,   *)
(* so every access is a step.  With Concurrent FALSE the application holds *)
(* a lock of its own around each call, and a slot that calls waits for it; *)
(* with TRUE calls overlap, and the interleavings of single accesses are   *)
(* what a build can make of the race.                                      *)
(***************************************************************************)
EXTENDS Integers, FiniteSets

CONSTANTS
    Thread,         \* the threads of the application
    MaxInstance,    \* bound on instances made
    MaxInit,        \* bound on the inits of one instance
    Concurrent      \* whether calls overlap

Null     == 0
Instance == 1 .. MaxInstance
Loop     == Instance \X (1 .. MaxInit)  \* maintenance threads
Caller   == Thread \cup Loop

ASSUME LifecycleAssumption ==
    /\ IsFiniteSet(Thread)
    /\ MaxInstance \in Nat
    /\ MaxInit \in Nat
    /\ Thread \cap Loop = {}
    /\ Concurrent \in BOOLEAN

VARIABLES
    g_instance,     \* the global pointer
    g_instanceRefCounter,
    created,        \* counter: instances made so far
    alive,          \* constructed and not destroyed
    shutdownCalled, \* instances whose loops have to end
    loops,          \* the maintenance threads that run
    threadClientMaintenance, \* the last one that each instance started
    held,           \* the pointer that each caller has
    pc,             \* how far each caller is in its call
    local,          \* the counter it has read and not yet written
    ended           \* what ended the process, or made it undefined

globals == <<g_instance, g_instanceRefCounter>>
objects == <<created, alive, shutdownCalled, loops, threadClientMaintenance>>
vars    == <<globals, objects, held, pc, local, ended>>

TypeOK ==
    /\ g_instance \in Instance \cup {Null}
    /\ g_instanceRefCounter \in -Cardinality(Caller) .. Cardinality(Caller)
    /\ created \in 0 .. MaxInstance
    /\ alive \in SUBSET Instance
    /\ shutdownCalled \in SUBSET Instance
    /\ loops \in SUBSET Loop
    /\ threadClientMaintenance \in [Instance -> 0 .. MaxInit]
    /\ held \in [Caller -> Instance \cup {Null}]
    /\ pc \in [Caller -> {"out", "wait", "create", "count", "counted", "return", "release",
                          "uncount", "uncounted", "shutdown", "join", "clear"}]
    /\ local \in [Caller -> -Cardinality(Caller) .. Cardinality(Caller)]
    /\ ended \in {"no", "assertion", "join", "orphan"}

Init ==
    /\ g_instance = Null
    /\ g_instanceRefCounter = 0
    /\ created = 0
    /\ alive = {}
    /\ shutdownCalled = {}
    /\ loops = {}
    /\ threadClientMaintenance = [i \in Instance |-> 0]
    /\ held = [c \in Caller |-> Null]
    /\ pc = [c \in Caller |-> "out"]
    /\ local = [c \in Caller |-> 0]
    /\ ended = "no"

-----------------------------------------------------------------------------
(* Definitions named Bad... hold one plausible mistake each and are used by  *)
(* no behaviour; each stands before the definition it would replace.         *)

At(t, l)   == pc[t] = l
Goto(t, l) == pc' = [pc EXCEPT ![t] = l]

InCall(t) == ~At(t, "out") /\ ~At(t, "wait")

(* The thread that the destructor of the instance joins.                     *)
KnownLoop == <<g_instance, threadClientMaintenance[g_instance]>>

(* A slot, which a maintenance thread runs, is about to call.                *)
SlotCalls(l) ==
    /\ l \in loops
    /\ At(l, "out")
    /\ Goto(l, "wait")
    /\ UNCHANGED <<globals, objects, held, local, ended>>

(* A thread, or a slot that waits for its turn, enters one of the functions. *)
Enter(t) ==
    /\ At(t, IF t \in Loop THEN "wait" ELSE "out")
    /\ Concurrent \/ \A u \in Caller : ~InCall(u)

ReadCounter(t, from, to) ==
    /\ At(t, from)
    /\ local' = [local EXCEPT ![t] = g_instanceRefCounter]
    /\ Goto(t, to)
    /\ UNCHANGED <<globals, objects, held, ended>>

-----------------------------------------------------------------------------
(* getInstance.                                                              *)
\* Without the test of g_instance.
BadLookForInstance(t) ==
    /\ Enter(t)
    /\ held[t] = Null
    /\ created < MaxInstance
    /\ Goto(t, "create")
    /\ UNCHANGED <<globals, objects, held, local, ended>>

LookForInstance(t) ==
    /\ Enter(t)
    /\ held[t] = Null
    /\ g_instance # Null \/ created < MaxInstance
    /\ Goto(t, IF g_instance = Null THEN "create" ELSE "count")
    /\ UNCHANGED <<globals, objects, held, local, ended>>

CreateInstance(t) ==
    /\ At(t, "create")
    /\ created < MaxInstance
    /\ created' = created + 1
    /\ alive' = alive \cup {created'}
    /\ g_instance' = created'
    /\ Goto(t, "count")
    /\ UNCHANGED <<g_instanceRefCounter, shutdownCalled, loops, threadClientMaintenance, held,
                   local, ended>>

CountReference(t) == ReadCounter(t, "count", "counted")

\* Only the first caller is counted.
BadStoreReference(t) ==
    /\ At(t, "counted")
    /\ g_instanceRefCounter' = 1
    /\ Goto(t, "return")
    /\ local' = [local EXCEPT ![t] = 0]
    /\ UNCHANGED <<g_instance, objects, held, ended>>

StoreReference(t) ==
    /\ At(t, "counted")
    /\ g_instanceRefCounter' = local[t] + 1
    /\ Goto(t, "return")
    /\ local' = [local EXCEPT ![t] = 0]
    /\ UNCHANGED <<g_instance, objects, held, ended>>

(* return g_instance: the global is read again.                              *)
ReturnInstance(t) ==
    /\ At(t, "return")
    /\ held' = [held EXCEPT ![t] = g_instance]
    /\ Goto(t, "out")
    /\ UNCHANGED <<globals, objects, local, ended>>

-----------------------------------------------------------------------------
(* init of the instance the thread has: a maintenance thread is started and  *)
(* its pointer stored over the one of an earlier init.                       *)
InitInstance(t) ==
    LET i == held[t] IN
    /\ t \in Thread
    /\ Enter(t)
    /\ i \in alive
    /\ threadClientMaintenance[i] < MaxInit
    /\ threadClientMaintenance' = [threadClientMaintenance EXCEPT ![i] = @ + 1]
    /\ loops' = loops \cup {<<i, threadClientMaintenance'[i]>>}
    /\ UNCHANGED <<globals, created, alive, shutdownCalled, held, pc, local, ended>>

(* threadMaintenance leaves its loop, which it cannot in the middle of a     *)
(* slot.                                                                     *)
LoopEnds(l) ==
    /\ l \in loops
    /\ l[1] \in shutdownCalled
    /\ At(l, "out")
    /\ loops' = loops \ {l}
    /\ UNCHANGED <<globals, created, alive, shutdownCalled, threadClientMaintenance, held, pc,
                   local, ended>>

-----------------------------------------------------------------------------
(* releaseInstance; a null pointer is none to release.                       *)
AssertCounted(t) ==
    /\ Enter(t)
    /\ held[t] # Null
    /\ IF g_instanceRefCounter > 0
       THEN Goto(t, "release") /\ UNCHANGED ended
       ELSE ended' = "assertion" /\ UNCHANGED pc
    /\ UNCHANGED <<globals, objects, held, local>>

ReleaseReference(t) == ReadCounter(t, "release", "uncount")

\* The reference is not taken off the counter.
BadDropReference(t) ==
    /\ At(t, "uncount")
    /\ g_instanceRefCounter' = local[t]
    /\ held' = [held EXCEPT ![t] = Null]
    /\ Goto(t, "uncounted")
    /\ local' = [local EXCEPT ![t] = 0]
    /\ UNCHANGED <<g_instance, objects, ended>>

DropReference(t) ==
    /\ At(t, "uncount")
    /\ g_instanceRefCounter' = local[t] - 1
    /\ held' = [held EXCEPT ![t] = Null]
    /\ Goto(t, "uncounted")
    /\ local' = [local EXCEPT ![t] = 0]
    /\ UNCHANGED <<g_instance, objects, ended>>

\* The last but one reference counts as the last.
BadTestLast(t) ==
    /\ At(t, "uncounted")
    /\ Goto(t, IF g_instanceRefCounter <= 1 THEN "shutdown" ELSE "out")
    /\ UNCHANGED <<globals, objects, held, local, ended>>

TestLast(t) ==
    /\ At(t, "uncounted")
    /\ Goto(t, IF g_instanceRefCounter = 0 THEN "shutdown" ELSE "out")
    /\ UNCHANGED <<globals, objects, held, local, ended>>

\* The loop is not told to end.
BadCallShutdown(t) ==
    /\ At(t, "shutdown")
    /\ g_instance \in alive
    /\ Goto(t, "join")
    /\ UNCHANGED <<globals, objects, held, local, ended>>

(* delete g_instance: the destructor tells the loop to end, joins the thread *)
(* the instance knows, and frees the implementation.                         *)
CallShutdown(t) ==
    /\ At(t, "shutdown")
    /\ g_instance \in alive
    /\ shutdownCalled' = shutdownCalled \cup {g_instance}
    /\ Goto(t, "join")
    /\ UNCHANGED <<globals, created, alive, loops, threadClientMaintenance, held, local, ended>>

\* Without threadShutdown.
BadJoin(t) ==
    /\ At(t, "join")
    /\ alive' = alive \ {g_instance}
    /\ Goto(t, "clear")
    /\ UNCHANGED <<globals, created, shutdownCalled, loops, threadClientMaintenance, held, local,
                   ended>>

(* A loop that init started before the known one runs on what is freed.      *)
Join(t) ==
    /\ At(t, "join")
    /\ g_instance \in alive
    /\ KnownLoop \notin loops
    /\ alive' = alive \ {g_instance}
    /\ ended' = IF \E l \in loops : l[1] = g_instance THEN "orphan" ELSE ended
    /\ Goto(t, "clear")
    /\ UNCHANGED <<globals, created, shutdownCalled, loops, threadClientMaintenance, held, local>>

(* A thread that joins itself gets an exception, in a destructor.            *)
JoinSelf(t) ==
    /\ At(t, "join")
    /\ t = KnownLoop
    /\ ended' = "join"
    /\ UNCHANGED <<globals, objects, held, pc, local>>

\* The pointer to the destroyed instance is kept.
BadClearInstance(t) ==
    /\ At(t, "clear")
    /\ Goto(t, "out")
    /\ UNCHANGED <<globals, objects, held, local, ended>>

ClearInstance(t) ==
    /\ At(t, "clear")
    /\ g_instance' = Null
    /\ Goto(t, "out")
    /\ UNCHANGED <<g_instanceRefCounter, objects, held, local, ended>>

(* A failed assertion and an exception end the process.                      *)
Next ==
    /\ ended = "no"
    /\ \/ \E t \in Caller :
            \/ LookForInstance(t) \/ CreateInstance(t)
            \/ CountReference(t) \/ StoreReference(t) \/ ReturnInstance(t)
            \/ InitInstance(t)
            \/ AssertCounted(t) \/ ReleaseReference(t) \/ DropReference(t) \/ TestLast(t)
            \/ CallShutdown(t) \/ Join(t) \/ JoinSelf(t) \/ ClearInstance(t)
       \/ \E l \in Loop : SlotCalls(l) \/ LoopEnds(l)

(* A call that has begun goes on, and a loop that is told to end ends.       *)
Fairness ==
    /\ \A t \in Caller :
        /\ WF_vars(CreateInstance(t) \/ CountReference(t) \/ StoreReference(t))
        /\ WF_vars(ReturnInstance(t))
        /\ WF_vars(ReleaseReference(t) \/ DropReference(t) \/ TestLast(t))
        /\ WF_vars(CallShutdown(t) \/ Join(t) \/ JoinSelf(t) \/ ClearInstance(t))
    /\ \A l \in Loop : WF_vars(LoopEnds(l))

Safety == Init /\ [][Next]_vars
Spec   == Safety /\ Fairness

-----------------------------------------------------------------------------
(* Properties *)

(* assert( g_instanceRefCounter > 0 ) (dss_client.cpp:405) holds whenever a  *)
(* pointer is released.                                                      *)
ReleaseIsCounted == ended # "assertion"

(* "singleton" (dss_client.h:41): who has a pointer has one to a living      *)
(* instance, the only one there is, however many others have released theirs *)
(* and made a new one.                                                       *)
HolderHasSingleton ==
    /\ \A t \in Caller : held[t] # Null => held[t] \in alive
    /\ Cardinality(alive) <= 1

(* No maintenance thread runs on the implementation of an instance that is   *)
(* destroyed (dss_client.cpp:375-380), unless it was initialised twice       *)
(* (dss_client.cpp:438).                                                     *)
LoopsOnLivingInstance ==
    \A l \in loops : l[1] \in alive \/ threadClientMaintenance[l[1]] > 1

(* What nobody has any more is destroyed, and the next getInstance makes a   *)
(* new one (dss_client.cpp:410-412).                                         *)
LastReleaseDestroys ==
    (\A t \in Caller : held[t] = Null /\ ~InCall(t)) => alive = {} /\ g_instance = Null

(* Every call returns, the one that destroys the instance included, unless   *)
(* the thread it joins is in a slot that calls the library too: the slot     *)
(* that waits for its turn and the release that waits for the slot's thread  *)
(* hang together, and a slot that releases the last pointer joins itself     *)
(* (dss_client.cpp:377).                                                     *)
CallsReturn ==
    \A t \in Caller :
        InCall(t) ~> \/ At(t, "out")
                     \/ At(t, "join") /\ KnownLoop \in loops /\ ~At(KnownLoop, "out")
                     \/ ended # "no"

(* A caller has the instance from where getInstance finds or makes it to     *)
(* where releaseInstance takes it off the counter.                           *)
HasInstance ==
    [c \in Caller |-> IF pc[c] \in {"count", "counted", "return"} THEN g_instance ELSE held[c]]

(* The global pointer is not reset before the destructor has returned.       *)
LivingInstance == IF alive = {} THEN Null ELSE g_instance

Shared == INSTANCE SharedInstance WITH
    instance <- LivingInstance,
    has <- HasInstance,
    made <- 1 .. created

(* getInstance and releaseInstance do what SharedInstance promises: nobody   *)
(* gets an instance on its way out (dss_client.cpp:385, 410-412), the one a  *)
(* caller gets is the one the others have, and a new one was never used.     *)
ImplementsSharedInstance == Shared!SharedSpec
=============================================================================
