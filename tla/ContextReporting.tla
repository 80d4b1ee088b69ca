-------------------------- MODULE ContextReporting --------------------------
(***************************************************************************)
(* How the player learns which objrepr context this client works in.       *)
(*                                                                         *)
(* Two threads report it: the one that loads and unloads contexts, through *)
(* callbackContextOpened and callbackContextClosed of dss_client.cpp, and  *)
(* the maintenance thread, which calls callbackContextOpened from          *)
(* setIdFromPlayer because what was reported before the registration       *)
(* carried no valid id.  They share the id and the current context without *)
(* a lock.  Both publish on one connection, so the player gets the reports *)
(* in the order in which they were published.  A report that is lost, that *)
(* expires or whose publish fails is not repeated.                         *)
(*                                                                         *)
(* Which container keeps the sent commands is the business of              *)
(* CommandQueue.                                                           *)
(***************************************************************************)
EXTENDS Naturals, Sequences

CONSTANTS
    Context,        \* the names of contexts
    NoContext,      \* currentContext() is null
    OurId,          \* the id that the player gives to this client
    InvalidId,      \* INVALID_CLIENT_ID
    MaxEvents,      \* bound on loads and unloads
    MaxFault        \* bound on lost reports

ASSUME ContextAssumption ==
    /\ NoContext \notin Context
    /\ OurId # InvalidId
    /\ MaxEvents \in Nat
    /\ MaxFault \in Nat

Thread == {"maintenance", "objrepr"}

(* A report: context_open with a name, or context_close.                     *)
Report == [user : {OurId, InvalidId}, context : Context \cup {NoContext}]

VARIABLES
    currentContext, \* objrepr: the context that is loaded
    clientUniqueId, \* clientUniqueIdForPlayer
    pc,             \* how far each thread is in its handler
    command,        \* the report that each thread is about to send
    toPlayer,       \* published reports
    playerContext,  \* the player: the context of this client
    crashed,        \* currentContext()->name() of a null context
    events,         \* counter of loads and unloads
    faults,         \* counter of lost reports
    overtaken,      \* history: setIdFromPlayer was reporting at the last event
    unheard         \* history: the last report with our id was lost

vars == <<currentContext, clientUniqueId, pc, command, toPlayer, playerContext, crashed,
          events, faults, overtaken, unheard>>

TypeOK ==
    /\ currentContext \in Context \cup {NoContext}
    /\ clientUniqueId \in {OurId, InvalidId}
    /\ pc \in [Thread -> {"idle", "test", "open", "close", "publish"}]
    /\ command \in [Thread -> Report]
    /\ toPlayer \in Seq(Report)
    /\ playerContext \in Context \cup {NoContext}
    /\ crashed \in BOOLEAN
    /\ events \in 0 .. MaxEvents
    /\ faults \in 0 .. MaxFault
    /\ overtaken \in BOOLEAN
    /\ unheard \in BOOLEAN

NoReport == [user |-> InvalidId, context |-> NoContext]

Init ==
    /\ currentContext \in Context \cup {NoContext}
    /\ clientUniqueId = InvalidId
    /\ pc = [t \in Thread |-> "idle"]
    /\ command = [t \in Thread |-> NoReport]
    /\ toPlayer = <<>>
    /\ playerContext = NoContext
    /\ crashed = FALSE
    /\ events = 0
    /\ faults = 0
    /\ overtaken = FALSE
    /\ unheard = FALSE

-----------------------------------------------------------------------------
(* Definitions named Bad... hold one plausible mistake each and are used by  *)
(* no behaviour; each stands before the definition it would replace.         *)

At(t, l)   == pc[t] = l
Goto(t, l) == pc' = [pc EXCEPT ![t] = l]

(* The maintenance thread has seen a context and not yet reported it.        *)
Reporting == pc["maintenance"] \in {"open", "publish"}

(* The signals contextLoadingFinished and contextUnloaded are emitted on the *)
(* thread that changes the context, after the change.                        *)
ContextEvent ==
    /\ At("objrepr", "idle")
    /\ events < MaxEvents
    /\ events' = events + 1
    /\ overtaken' = Reporting
    /\ UNCHANGED <<clientUniqueId, command, toPlayer, playerContext, crashed, faults, unheard>>

LoadContext ==
    /\ ContextEvent
    /\ currentContext = NoContext
    /\ currentContext' \in Context
    /\ Goto("objrepr", "open")

UnloadContext ==
    /\ ContextEvent
    /\ currentContext # NoContext
    /\ currentContext' = NoContext
    /\ Goto("objrepr", "close")

-----------------------------------------------------------------------------
\* The id is stored, the context is not looked at.
BadSetId ==
    /\ At("maintenance", "idle")
    /\ clientUniqueId = InvalidId
    /\ clientUniqueId' = OurId
    /\ UNCHANGED <<currentContext, pc, command, toPlayer, playerContext, crashed, events,
                   faults, overtaken, unheard>>

(* setIdFromPlayer, once (PlayerSession): first the id, then the context.    *)
SetId ==
    /\ At("maintenance", "idle")
    /\ clientUniqueId = InvalidId
    /\ clientUniqueId' = OurId
    /\ Goto("maintenance", "test")
    /\ UNCHANGED <<currentContext, command, toPlayer, playerContext, crashed, events,
                   faults, overtaken, unheard>>

\* Without the test of currentContext().
BadTestContext ==
    /\ At("maintenance", "test")
    /\ Goto("maintenance", "open")
    /\ UNCHANGED <<currentContext, clientUniqueId, command, toPlayer, playerContext, crashed,
                   events, faults, overtaken, unheard>>

TestContext ==
    /\ At("maintenance", "test")
    /\ Goto("maintenance", IF currentContext = NoContext THEN "idle" ELSE "open")
    /\ UNCHANGED <<currentContext, clientUniqueId, command, toPlayer, playerContext, crashed,
                   events, faults, overtaken, unheard>>

\* The command is made without its user id.
BadOpenCommand(t) ==
    /\ At(t, "open")
    /\ currentContext # NoContext
    /\ command' = [command EXCEPT ![t] = [context |-> currentContext]]
    /\ Goto(t, "publish")
    /\ UNCHANGED <<currentContext, clientUniqueId, toPlayer, playerContext, crashed, events,
                   faults, overtaken, unheard>>

(* callbackContextOpened.  Each thread changes one of the two values itself, *)
(* so reading both is one step.                                              *)
OpenCommand(t) ==
    /\ At(t, "open")
    /\ currentContext # NoContext
    /\ command' = [command EXCEPT ![t] = [user |-> clientUniqueId, context |-> currentContext]]
    /\ Goto(t, "publish")
    /\ UNCHANGED <<currentContext, clientUniqueId, toPlayer, playerContext, crashed, events,
                   faults, overtaken, unheard>>

DereferenceNull(t) ==
    /\ At(t, "open")
    /\ currentContext = NoContext
    /\ crashed' = TRUE
    /\ UNCHANGED <<currentContext, clientUniqueId, pc, command, toPlayer, playerContext, events,
                   faults, overtaken, unheard>>

(* callbackContextClosed.                                                    *)
CloseCommand ==
    /\ At("objrepr", "close")
    /\ command' = [command EXCEPT !["objrepr"] = [user |-> clientUniqueId, context |-> NoContext]]
    /\ Goto("objrepr", "publish")
    /\ UNCHANGED <<currentContext, clientUniqueId, toPlayer, playerContext, crashed, events,
                   faults, overtaken, unheard>>

(* execAsync of the command.                                                 *)
PublishReport(t) ==
    /\ At(t, "publish")
    /\ toPlayer' = Append(toPlayer, command[t])
    /\ unheard' = (unheard /\ command[t].user # OurId)
    /\ command' = [command EXCEPT ![t] = NoReport]
    /\ Goto(t, "idle")
    /\ UNCHANGED <<currentContext, clientUniqueId, playerContext, crashed, events, faults,
                   overtaken>>

(* The player takes the next report; it does not know the invalid id.        *)
Deliver ==
    /\ toPlayer # <<>>
    /\ toPlayer' = Tail(toPlayer)
    /\ playerContext' = IF Head(toPlayer).user = OurId THEN Head(toPlayer).context
                                                       ELSE playerContext
    /\ UNCHANGED <<currentContext, clientUniqueId, pc, command, crashed, events, faults,
                   overtaken, unheard>>

(* The next report does not reach the player.                                *)
LoseReport ==
    /\ toPlayer # <<>>
    /\ faults < MaxFault
    /\ faults' = faults + 1
    /\ toPlayer' = Tail(toPlayer)
    /\ unheard' = \/ unheard
                   \/ /\ Head(toPlayer).user = OurId
                      /\ \A i \in 2 .. Len(toPlayer) : toPlayer[i].user # OurId
    /\ UNCHANGED <<currentContext, clientUniqueId, pc, command, playerContext, crashed, events,
                   overtaken>>

Next ==
    /\ ~crashed
    /\ \/ LoadContext \/ UnloadContext
       \/ SetId \/ TestContext
       \/ \E t \in Thread : OpenCommand(t) \/ DereferenceNull(t) \/ PublishReport(t)
       \/ CloseCommand
       \/ Deliver \/ LoseReport

Spec == Init /\ [][Next]_vars

-----------------------------------------------------------------------------
(* Properties *)

(* Everything that happened has been reported and has arrived.               *)
Quiet ==
    /\ \A t \in Thread : At(t, "idle")
    /\ toPlayer = <<>>
    /\ clientUniqueId = OurId

(* "context monitoring" (dss_client.cpp:234): however a registration and the *)
(* context events interleave, the player ends with the context the client    *)
(* works in, unless the last event fell between the test of line 235 and the *)
(* publish of the same setIdFromPlayer, or the last report with a valid id   *)
(* was lost: whatever went wrong before, the next report that arrives        *)
(* corrects it.  Only in the same window is the name of a null context asked *)
(* for (line 270).                                                           *)
OnlyOvertakenReportsMislead ==
    /\ Quiet /\ ~overtaken /\ ~unheard => playerContext = currentContext
    /\ crashed => overtaken
=============================================================================
