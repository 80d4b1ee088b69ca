---------------------------- MODULE CommandQueue ----------------------------
(***************************************************************************)
(* Who owns the sent commands of dss_client.cpp until they are settled:    *)
(* the vector commandsInProgress and the pointer commandOpenContext.       *)
(*                                                                         *)
(* commandsProcessing walks the vector and erases what isReady; a ready    *)
(* command has just parsed its answer, which may send another command      *)
(* (setIdFromPlayer calls callbackContextOpened).  The maintenance thread  *)
(* itself pushes only outside the walk.  The commands of Foreign are       *)
(* pushed by other threads: addCommmand for the methods of the player      *)
(* handler, callbackContextClosed and callbackContextOpened for objrepr.   *)
(*                                                                         *)
(* A request settles by an answer or by its expiration (AsyncCall); here   *)
(* either just happens.                                                    *)
(***************************************************************************)
EXTENDS Integers, Sequences, SequencesExt

CONSTANTS
    Listed,         \* commands that go into commandsInProgress
    Open,           \* context-open commands, kept in commandOpenContext
    Register,       \* those of Listed whose answer is given to setIdFromPlayer
    Foreign,        \* commands that another thread sends
    NoCommand       \* commandOpenContext is null

Command == Listed \cup Open

ASSUME QueueAssumption ==
    /\ Listed \cap Open = {}
    /\ Register \subseteq Listed \ Foreign
    /\ \A r, s \in Register : r = s \* PlayerSession: RegistersOnce
    /\ Foreign \subseteq Command
    /\ NoCommand \notin Command

VARIABLES
    commandsInProgress, \* the vector
    commandOpenContext, \* the pointer
    request,            \* what became of the request of each command
    pc,                 \* where the maintenance thread is
    iter,               \* the index of its iterator
    atStart,            \* history: what the walk found in the vector
    asked,              \* history: what the walk has asked
    invalidatedBy,      \* whose push moved the vector during a walk
    forgotten           \* history: commands destroyed while they performed

vars == <<commandsInProgress, commandOpenContext, request, pc, iter, atStart, asked,
          invalidatedBy, forgotten>>

TypeOK ==
    /\ commandsInProgress \in Seq(Listed)
    /\ commandOpenContext \in Open \cup {NoCommand}
    /\ request \in [Command -> {"unsent", "performing", "answered", "expired", "over"}]
    /\ pc \in {"loop", "walk", "open", "reset"}
    /\ iter \in 1 .. Len(commandsInProgress) + 1
    /\ atStart \in SUBSET Listed
    /\ asked \in SUBSET Listed
    /\ invalidatedBy \in {"nobody", "maintenance", "another thread"}
    /\ forgotten \in SUBSET Command

Init ==
    /\ commandsInProgress = <<>>
    /\ commandOpenContext = NoCommand
    /\ request = [c \in Command |-> "unsent"]
    /\ pc = "loop"
    /\ iter = 1
    /\ atStart = {}
    /\ asked = {}
    /\ invalidatedBy = "nobody"
    /\ forgotten = {}

-----------------------------------------------------------------------------
(* Definitions named Bad... hold one plausible mistake each and are used by  *)
(* no behaviour; each stands before the definition it would replace.         *)

Valid == invalidatedBy = "nobody"

walkVars == <<pc, iter, atStart, asked>>

Performing(c) == request[c] \in {"performing", "answered", "expired"}

\* A request that performs no longer is never ready.
BadReady(c) == request[c] \in {"answered", "expired"}

(* ICommand::isReady: true for an answer that can be parsed, for a request   *)
(* that expires now and for one that performs no longer.                     *)
Ready(c) == request[c] \in {"answered", "expired", "over"}

(* ICommand::isReady: false while the request waits, and for an answer that  *)
(* cannot be parsed, which settles the request all the same.                 *)
NotReady(c, next) == \/ request[c] = "performing" /\ next = "performing"
                     \/ request[c] = "answered" /\ next = "over"

(* A shared pointer to the command in commandOpenContext is given up.        *)
Forget(c) == forgotten' = forgotten \cup (IF c # NoCommand /\ Performing(c) THEN {c} ELSE {})

-----------------------------------------------------------------------------
(* commandsProcessing.                                                       *)
BeginWalk ==
    /\ pc = "loop"
    /\ pc' = "walk"
    /\ iter' = 1
    /\ atStart' = ToSet(commandsInProgress)
    /\ asked' = {}
    /\ UNCHANGED <<commandsInProgress, commandOpenContext, request, invalidatedBy, forgotten>>

\* The iterator moves although erase has moved it already.
BadErase ==
    /\ commandsInProgress' = RemoveAt(commandsInProgress, iter)
    /\ iter' = iter + 1

Erase ==
    /\ commandsInProgress' = RemoveAt(commandsInProgress, iter)
    /\ iter' = iter

(* The answer of a registration makes callbackContextOpened send o, if a     *)
(* context is loaded.                                                        *)
ReportContext(c, o) ==
    /\ c \in Register
    /\ request[c] = "answered"
    /\ o \in Open \ Foreign
    /\ request[o] = "unsent"
    /\ request' = [request EXCEPT ![c] = "over", ![o] = "performing"]
    /\ commandOpenContext' = o
    /\ UNCHANGED invalidatedBy
    /\ Forget(commandOpenContext)

ReportNothing(c) ==
    /\ request' = [request EXCEPT ![c] = "over"]
    /\ UNCHANGED <<commandOpenContext, invalidatedBy, forgotten>>

EraseReady ==
    /\ pc = "walk"
    /\ iter <= Len(commandsInProgress)
    /\ LET c == commandsInProgress[iter] IN
        /\ Ready(c)
        /\ ReportNothing(c) \/ \E o \in Open : ReportContext(c, o)
        /\ asked' = asked \cup {c}
    /\ Erase
    /\ UNCHANGED <<pc, atStart>>

PassBy ==
    /\ pc = "walk"
    /\ iter <= Len(commandsInProgress)
    /\ LET c == commandsInProgress[iter] IN
        /\ \E next \in {"performing", "over"} :
            /\ NotReady(c, next)
            /\ request' = [request EXCEPT ![c] = next]
        /\ asked' = asked \cup {c}
    /\ iter' = iter + 1
    /\ UNCHANGED <<commandsInProgress, commandOpenContext, pc, atStart, invalidatedBy, forgotten>>

EndWalk ==
    /\ pc = "walk"
    /\ iter > Len(commandsInProgress)
    /\ pc' = "open"
    /\ UNCHANGED <<commandsInProgress, commandOpenContext, request, iter, atStart, asked,
                   invalidatedBy, forgotten>>

\* Whatever command is there is taken for ready.
BadOpenIsReady ==
    /\ pc = "open"
    /\ commandOpenContext # NoCommand
    /\ pc' = "reset"
    /\ UNCHANGED <<commandsInProgress, commandOpenContext, request, iter, atStart, asked,
                   invalidatedBy, forgotten>>

OpenIsReady ==
    /\ pc = "open"
    /\ commandOpenContext # NoCommand
    /\ Ready(commandOpenContext)
    /\ request' = [request EXCEPT ![commandOpenContext] = "over"]
    /\ pc' = "reset"
    /\ UNCHANGED <<commandsInProgress, commandOpenContext, iter, atStart, asked, invalidatedBy,
                   forgotten>>

OpenIsNotReady ==
    /\ pc = "open"
    /\ \/ commandOpenContext = NoCommand /\ UNCHANGED request
       \/ \E next \in {"performing", "over"} :
            /\ commandOpenContext # NoCommand
            /\ NotReady(commandOpenContext, next)
            /\ request' = [request EXCEPT ![commandOpenContext] = next]
    /\ pc' = "loop"
    /\ UNCHANGED <<commandsInProgress, commandOpenContext, iter, atStart, asked, invalidatedBy,
                   forgotten>>

(* commandOpenContext.reset(), whatever it points to by now.                 *)
ResetOpen ==
    /\ pc = "reset"
    /\ Forget(commandOpenContext)
    /\ commandOpenContext' = NoCommand
    /\ pc' = "loop"
    /\ UNCHANGED <<commandsInProgress, request, iter, atStart, asked, invalidatedBy>>

-----------------------------------------------------------------------------
Pusher(c) == IF c \in Foreign THEN "another thread" ELSE "maintenance"

(* execAsync and push_back, by the maintenance thread between two walks      *)
(* (registerInPlayer) or by another thread at any time.  When the vector is  *)
(* full it moves, and an iterator into it is invalid.                        *)
AddCommmand(c) ==
    /\ c \in Listed
    /\ request[c] = "unsent"
    /\ c \in Foreign \/ pc = "loop"
    /\ request' = [request EXCEPT ![c] = "performing"]
    /\ commandsInProgress' = Append(commandsInProgress, c)
    /\ \/ UNCHANGED invalidatedBy
       \/ pc = "walk" /\ invalidatedBy' = Pusher(c)
    /\ UNCHANGED <<commandOpenContext, walkVars, forgotten>>

(* callbackContextOpened on the thread of objrepr.                           *)
ContextOpened(o) ==
    /\ o \in Open \cap Foreign
    /\ request[o] = "unsent"
    /\ request' = [request EXCEPT ![o] = "performing"]
    /\ Forget(commandOpenContext)
    /\ commandOpenContext' = o
    /\ UNCHANGED <<commandsInProgress, walkVars, invalidatedBy>>

(* The answer arrives, or the time is over.                                  *)
Settle(c) ==
    /\ request[c] = "performing"
    /\ \E s \in {"answered", "expired"} : request' = [request EXCEPT ![c] = s]
    /\ UNCHANGED <<commandsInProgress, commandOpenContext, walkVars, invalidatedBy, forgotten>>

Maintenance ==
    \/ BeginWalk \/ EraseReady \/ PassBy \/ EndWalk
    \/ OpenIsReady \/ OpenIsNotReady \/ ResetOpen

(* What the walk does with an invalid iterator is undefined: no step models  *)
(* it, and the behaviour ends there.                                         *)
Next ==
    /\ Valid
    /\ \/ Maintenance
       \/ \E c \in Command : AddCommmand(c) \/ ContextOpened(c) \/ Settle(c)

(* The loop turns, and every request settles (AmqpClient, EveryCallSettles). *)
Fairness ==
    /\ WF_vars(Valid /\ Maintenance)
    /\ \A c \in Command : WF_vars(Valid /\ Settle(c))

Safety == Init /\ [][Next]_vars
Spec   == Safety /\ Fairness

-----------------------------------------------------------------------------
(* Properties *)

(* What the walk has not come to yet.                                       *)
Rest == {commandsInProgress[i] : i \in iter .. Len(commandsInProgress)}

(* A walk asks every command that was in the vector when it began, and none  *)
(* twice, whatever it erases and whatever is pushed on the way (lines        *)
(* 108-117): "avoid recursive call ( command container invalidate it's       *)
(* iterators )" (line 119), no handler that it calls pushes into the vector  *)
(* that is walked.  A push of another thread still may move it.              *)
WalkAsksEachOnce ==
    /\ pc = "walk" => atStart \subseteq asked \cup Rest /\ asked \cap Rest = {}
    /\ invalidatedBy # "maintenance"

(* No command is destroyed while it performs, when its answer would stay in  *)
(* the map of the AMQP client for ever, unless another thread has opened a   *)
(* context (lines 120-122 and 276).                                          *)
OnlyContextEventsForget ==
    forgotten # {} => \E o \in Open \cap Foreign : request[o] # "unsent"

(* Every command that is sent leaves its container again, even if its answer *)
(* cannot be parsed (isReady, lines 41-60).                                  *)
CommandsLeave ==
    /\ \A c \in Listed : c \in ToSet(commandsInProgress)
                            ~> c \notin ToSet(commandsInProgress) \/ ~Valid
    /\ \A o \in Open : commandOpenContext = o ~> commandOpenContext # o \/ ~Valid
=============================================================================
