------------------------------ MODULE AmqpClient ------------------------------
(***************************************************************************)
(* The asynchronous requests of from_ms_common/communication/              *)
(* amqp_client_c.cpp: AmqpRequest, sendPackageAsync, poll and the two      *)
(* containers they share, m_readyResponsesToAsyncMessages and              *)
(* m_refusedMessages.                                                      *)
(*                                                                         *)
(* The maintenance thread polls the connection, asks isReady of the        *)
(* commands and sends most of them.  Other threads (the application, the   *)
(* objrepr callbacks) send the requests of Foreign.  Sending is three      *)
(* steps: the request takes its correlation id, the message is published   *)
(* under m_muSendAsync, the id is inserted into the map.  The maintenance  *)
(* thread does nothing else between the steps of its own sends.            *)
(*                                                                         *)
(* One operation on a std::map or std::set is one step here.  The source   *)
(* does not lock the containers, so overlapping operations are undefined   *)
(* behaviour; what is modelled are their orders.                           *)
(*                                                                         *)
(* The clock is never set here; PlayerSession has the calls with a clock   *)
(* that is.                                                                *)
(***************************************************************************)
EXTENDS Naturals

CONSTANTS
    Request,        \* the requests (AmqpRequest objects, one per command)
    Reused,         \* those whose object outlives an expiration (the pings)
    Droppable,      \* those whose owner may drop them while performing
    Foreign,        \* those another thread than the polling one sends
    CorrId,         \* what generateUniqueId returns, each once
    NoId,           \* the empty m_correlationId
    Body,           \* the bodies of the answers
    Empty,          \* the empty body, and the value of a fresh map entry
    Absent,         \* no entry in the map
    Expiration      \* deliveredMessageExpirationSec, in ticks

ASSUME AmqpAssumption ==
    /\ Reused \subseteq Request
    /\ Droppable \subseteq Request
    /\ Foreign \subseteq Request
    /\ NoId \notin CorrId
    /\ Empty \notin Body
    /\ Absent \notin Body \cup {Empty}
    /\ Expiration \in Nat

VARIABLES
    correlationId,  \* AEnvironmentRequest::m_correlationId
    age,            \* ticks since m_requestTimeMillisec, saturated
    timeouted,      \* AEnvironmentRequest::m_timeouted
    sending,        \* how far sendMessageAsync of a request is
    readyResponses, \* m_readyResponsesToAsyncMessages
    refusedMessages,\* m_refusedMessages
    wire,           \* where the message with a correlation id is
    body,           \* what the other side answered to it
    misrouted,      \* history: ids whose answer was taken for an initiative
    orphaned        \* history: ids whose request was destroyed

clientVars == <<correlationId, age, timeouted, sending, readyResponses, refusedMessages>>
netVars    == <<wire, body, misrouted, orphaned>>
vars       == <<clientVars, netVars>>

Age == 0 .. Expiration + 1

TypeOK ==
    /\ correlationId \in [Request -> CorrId \cup {NoId}]
    /\ age \in [Request -> Age]
    /\ timeouted \in [Request -> BOOLEAN]
    /\ sending \in [Request -> {"no", "assigned", "published"}]
    /\ readyResponses \in [CorrId -> Body \cup {Empty, Absent}]
    /\ refusedMessages \in SUBSET CorrId
    /\ wire \in [CorrId -> {"fresh", "issued", "request", "reply", "gone"}]
    /\ body \in [CorrId -> Body \cup {Empty}]
    /\ misrouted \in SUBSET CorrId
    /\ orphaned \in SUBSET CorrId

Init ==
    /\ correlationId = [r \in Request |-> NoId]
    /\ age = [r \in Request |-> 0]
    /\ timeouted = [r \in Request |-> FALSE]
    /\ sending = [r \in Request |-> "no"]
    /\ readyResponses = [c \in CorrId |-> Absent]
    /\ refusedMessages = {}
    /\ wire = [c \in CorrId |-> "fresh"]
    /\ body = [c \in CorrId |-> Empty]
    /\ misrouted = {}
    /\ orphaned = {}

-----------------------------------------------------------------------------
(* Definitions named Bad... hold one plausible mistake each.  No behaviour   *)
(* of the specification uses them: put in the place of the definition that   *)
(* follows, each breaks a property stated at the end of the module.          *)

IsPerforming(r) == correlationId[r] # NoId
Expired(r)      == age[r] > Expiration

Older(a) == IF a > Expiration THEN a ELSE a + 1

\* asyncMode: a receive thread of its own polls whatever the others do.
BadPollThreadFree == TRUE

(* The polling thread is not in the middle of a send of its own. *)
PollThreadFree == \A r \in Request \ Foreign : sending[r] = "no"

(* m_muSendAsync is free: no send is between publish and insert. *)
SendLockFree == \A r \in Request : sending[r] # "published"

\* A generator that repeats the ids of messages that are gone.
BadFreshId(c) == wire[c] \in {"fresh", "gone"}

(* A new correlation id is one nobody has used. *)
FreshId(c) == wire[c] = "fresh"

IsExpected(c) == readyResponses[c] # Absent
IsRefused(c)  == c \in refusedMessages

(* AmqpClient::checkResponseReadyness: an entry with a body. *)
HasResponse(c) == readyResponses[c] \in Body

(* AmqpRequest::checkResponseReadyness and getAsyncResponse leave the      *)
(* request without its correlation id.                                     *)
ClearCorrelationId(r) ==
    /\ correlationId' = [correlationId EXCEPT ![r] = NoId]
    /\ age' = [age EXCEPT ![r] = 0]

(* ICommand::isReady of a performing request, by the maintenance thread.  It *)
(* sees the command only after the send (the owner hands it over then).      *)
CanAsk(r) ==
    /\ IsPerforming(r)
    /\ sending[r] = "no"
    /\ PollThreadFree

-----------------------------------------------------------------------------
(* execAsync of a command whose request is not performing; sendMessageAsync *)
(* sets the time and the correlation id before it takes the lock.  Requests *)
(* that are not reused belong to a new command, with m_timeouted false.     *)
SendMessageAsync(r) ==
    /\ ~IsPerforming(r)
    /\ r \in Foreign \/ PollThreadFree
    /\ \E c \in CorrId :
        /\ FreshId(c)
        /\ correlationId' = [correlationId EXCEPT ![r] = c]
        /\ wire' = [wire EXCEPT ![c] = "issued"]
    /\ sending' = [sending EXCEPT ![r] = "assigned"]
    /\ timeouted' = [timeouted EXCEPT ![r] = r \in Reused /\ @]
    /\ UNCHANGED <<age, readyResponses, refusedMessages, body, misrouted, orphaned>>

(* amqp_basic_publish under the lock: from here on the other side may answer. *)
Publish(r) ==
    /\ sending[r] = "assigned"
    /\ SendLockFree
    /\ sending' = [sending EXCEPT ![r] = "published"]
    /\ wire' = [wire EXCEPT ![correlationId[r]] = "request"]
    /\ UNCHANGED <<correlationId, age, timeouted, readyResponses, refusedMessages,
                   body, misrouted, orphaned>>

(* The publish fails: sendPackageAsync returns false, which sendMessageAsync *)
(* ignores.  The request keeps an id that the map does not have.             *)
PublishFails(r) ==
    /\ sending[r] = "assigned"
    /\ SendLockFree
    /\ sending' = [sending EXCEPT ![r] = "no"]
    /\ wire' = [wire EXCEPT ![correlationId[r]] = "gone"]
    /\ UNCHANGED <<correlationId, age, timeouted, readyResponses, refusedMessages,
                   body, misrouted, orphaned>>

(* The map gets its entry, after the publish, and the lock is released.      *)
ExpectResponse(r) ==
    /\ sending[r] = "published"
    /\ sending' = [sending EXCEPT ![r] = "no"]
    /\ readyResponses' = [readyResponses EXCEPT ![correlationId[r]] = Empty]
    /\ UNCHANGED <<correlationId, age, timeouted, refusedMessages, netVars>>

-----------------------------------------------------------------------------
(* The three outcomes of AmqpClient::poll for a message with id c.           *)
Consume(c) ==
    /\ PollThreadFree
    /\ wire[c] = "reply"
    /\ wire' = [wire EXCEPT ![c] = "gone"]
    /\ UNCHANGED <<correlationId, age, timeouted, sending, body, orphaned>>

StoreResponse(c) ==
    /\ Consume(c)
    /\ IsExpected(c)
    /\ ~IsRefused(c)
    /\ readyResponses' = [readyResponses EXCEPT ![c] = body[c]]
    /\ UNCHANGED <<refusedMessages, misrouted>>

(* The refused id is forgotten; its entry in the map stays. *)
RefuseResponse(c) ==
    /\ Consume(c)
    /\ IsExpected(c)
    /\ IsRefused(c)
    /\ refusedMessages' = refusedMessages \ {c}
    /\ UNCHANGED <<readyResponses, misrouted>>

(* An id the map does not have: a request of the other side, for observers.  *)
TakeAsInitiative(c) ==
    /\ Consume(c)
    /\ ~IsExpected(c)
    /\ misrouted' = misrouted \cup {c}
    /\ UNCHANGED <<readyResponses, refusedMessages>>

Poll == \E c \in CorrId : StoreResponse(c) \/ RefuseResponse(c) \/ TakeAsInitiative(c)

-----------------------------------------------------------------------------
\* Without m_correlationId.clear().
BadTimeoutKeepsId(r) ==
    /\ CanAsk(r)
    /\ Expired(r)
    /\ timeouted' = [timeouted EXCEPT ![r] = TRUE]
    /\ refusedMessages' = refusedMessages \cup {correlationId[r]}
    /\ UNCHANGED <<correlationId, age, sending, readyResponses, netVars>>

\* The id is cleared before it is inserted.
BadTimeoutClearsFirst(r) ==
    /\ CanAsk(r)
    /\ Expired(r)
    /\ timeouted' = [timeouted EXCEPT ![r] = TRUE]
    /\ ClearCorrelationId(r)
    /\ refusedMessages' = refusedMessages \cup {correlationId'[r]}
    /\ UNCHANGED <<sending, readyResponses, netVars>>

\* Without m_refusedMessages.insert().
BadTimeoutNotRefused(r) ==
    /\ CanAsk(r)
    /\ Expired(r)
    /\ timeouted' = [timeouted EXCEPT ![r] = TRUE]
    /\ ClearCorrelationId(r)
    /\ UNCHANGED <<sending, readyResponses, refusedMessages, netVars>>

\* Only ids that the map has can time out.
BadTimeoutOfExpected(r) ==
    /\ CanAsk(r)
    /\ Expired(r)
    /\ IsExpected(correlationId[r])
    /\ timeouted' = [timeouted EXCEPT ![r] = TRUE]
    /\ refusedMessages' = refusedMessages \cup {correlationId[r]}
    /\ ClearCorrelationId(r)
    /\ UNCHANGED <<sending, readyResponses, netVars>>

(* checkResponseReadyness looks at the time first. *)
Timeout(r) ==
    /\ CanAsk(r)
    /\ Expired(r)
    /\ timeouted' = [timeouted EXCEPT ![r] = TRUE]
    /\ refusedMessages' = refusedMessages \cup {correlationId[r]}
    /\ ClearCorrelationId(r)
    /\ UNCHANGED <<sending, readyResponses, netVars>>

\* The map is looked at before the time.
BadGetAsyncResponse(r) ==
    /\ CanAsk(r)
    /\ HasResponse(correlationId[r])
    /\ readyResponses' = [readyResponses EXCEPT ![correlationId[r]] = Absent]
    /\ ClearCorrelationId(r)
    /\ UNCHANGED <<timeouted, sending, refusedMessages, netVars>>

GetAsyncResponse(r) ==
    /\ CanAsk(r)
    /\ ~Expired(r)
    /\ HasResponse(correlationId[r])
    /\ readyResponses' = [readyResponses EXCEPT ![correlationId[r]] = Absent]
    /\ ClearCorrelationId(r)
    /\ UNCHANGED <<timeouted, sending, refusedMessages, netVars>>

(* Another thread replaces the command (DssClient: commandOpenContext = cmd) *)
(* and the performing request is destroyed.                                  *)
Abandon(r) ==
    /\ r \in Droppable
    /\ IsPerforming(r)
    /\ sending[r] = "no"
    /\ orphaned' = orphaned \cup {correlationId[r]}
    /\ ClearCorrelationId(r)
    /\ UNCHANGED <<timeouted, sending, readyResponses, refusedMessages, wire, body, misrouted>>

-----------------------------------------------------------------------------
(* The broker and the other side: an answer, or a message that is dropped    *)
(* (its TTL, no consumer, an auto-deleted mailbox).  Consumption is no_ack:  *)
(* a message is delivered at most once.                                      *)
ServerReply(c) ==
    /\ wire[c] = "request"
    /\ wire' = [wire EXCEPT ![c] = "reply"]
    /\ \E b \in Body \cup {Empty} : body' = [body EXCEPT ![c] = b]
    /\ UNCHANGED <<clientVars, misrouted, orphaned>>

LoseMessage(c) ==
    /\ wire[c] \in {"request", "reply"}
    /\ wire' = [wire EXCEPT ![c] = "gone"]
    /\ UNCHANGED <<clientVars, body, misrouted, orphaned>>

Tick ==
    /\ age' = [r \in Request |-> IF IsPerforming(r) THEN Older(age[r]) ELSE age[r]]
    /\ UNCHANGED <<correlationId, timeouted, sending, readyResponses, refusedMessages, netVars>>

Next ==
    \/ \E r \in Request :
        \/ SendMessageAsync(r)
        \/ Publish(r)
        \/ PublishFails(r)
        \/ ExpectResponse(r)
        \/ Timeout(r)
        \/ GetAsyncResponse(r)
        \/ Abandon(r)
    \/ Poll
    \/ \E c \in CorrId : ServerReply(c) \/ LoseMessage(c)
    \/ Tick

(* A thread in a send goes on, the maintenance loop keeps asking every       *)
(* command, and time passes.  Nobody has to answer.                          *)
Fairness ==
    /\ WF_vars(Tick)
    /\ \A r \in Request :
        /\ WF_vars(Publish(r) \/ PublishFails(r) \/ ExpectResponse(r))
        /\ WF_vars(Timeout(r) \/ GetAsyncResponse(r))

Safety == Init /\ [][Next]_vars
Spec   == Safety /\ Fairness
-----------------------------------------------------------------------------
(* Properties *)

(* An answer in the map is the one the other side gave to this id, and its  *)
(* message is used up: no later message can replace it (poll, lines 435-446). *)
StoredAnswerIsFinal ==
    \A c \in CorrId : HasResponse(c) => readyResponses[c] = body[c] /\ wire[c] = "gone"

(* No two requests wait for the same answer, and a request in a send has    *)
(* not yet an entry in the map, whichever threads send (sendMessageAsync).  *)
OneOwner ==
    /\ \A r, s \in Request :
        IsPerforming(r) /\ correlationId[r] = correlationId[s] => r = s
    /\ \A r \in Request :
        sending[r] # "no" => IsPerforming(r) /\ ~IsExpected(correlationId[r])

(* The answer to a request that still waits is never refused, so a timeout   *)
(* of an earlier use of the same request cannot cost it its answer           *)
(* (checkResponseReadyness, lines 132-138, against poll, line 436).          *)
WaitedNotRefused ==
    \A r \in Request : IsPerforming(r) => ~IsRefused(correlationId[r])

(* An entry of the map that holds an answer, or that an answer may still      *)
(* fill, has a request that waits for it, or its id is refused, or it        *)
(* belonged to a command destroyed while performing.  So an answer that is   *)
(* still on its way when its request times out is not stored any more        *)
(* (checkResponseReadyness, lines 132-138; poll, line 436).  Two kinds of    *)
(* bodies do stay in the map for ever: those of destroyed commands, and      *)
(* those polled after the expiration and before the next isReady, which      *)
(* looks at the time first; the ids of the latter stay refused as well.      *)
LateAnswerRefused ==
    \A c \in CorrId :
        IsExpected(c) /\ (wire[c] \in {"request", "reply"} \/ HasResponse(c))
            => \/ \E r \in Request : correlationId[r] = c
               \/ IsRefused(c)
               \/ c \in orphaned

(* "(catched by server) initiative from other side" (amqp_client_c.cpp:448): *)
(* what poll takes for an initiative of the other side is not the answer to  *)
(* a request of this client.                                                 *)
NoAnswerMisrouted == misrouted = {}

(* The answer to a request of the polling thread is never taken for an       *)
(* initiative, although its id enters the map after the publish: the thread  *)
(* does not poll in between (sendPackageAsync, lines 525-539).               *)
OwnAnswerNotMisrouted ==
    \A r \in Request \ Foreign : IsPerforming(r) => correlationId[r] \notin misrouted

(* Every request settles, answered or not: none stays performing for ever,   *)
(* even if its publish failed or its answer was taken for an initiative.     *)
EveryCallSettles == \A r \in Request : IsPerforming(r) ~> ~IsPerforming(r)

(* The requests of the client are asynchronous calls.                        *)
WireCall(c) ==
    CASE wire[c] = "reply" -> "replied"
      [] wire[c] = "gone"  -> "lost"
      [] OTHER             -> "requested"

CallOf(r) ==
    IF ~IsPerforming(r) THEN "idle"
    ELSE IF HasResponse(correlationId[r]) THEN "ready"
    ELSE WireCall(correlationId[r])

ReplyOf(r) == IF CallOf(r) \in {"replied", "ready"} THEN body[correlationId[r]] ELSE Empty

AbsCall  == [r \in Request |-> CallOf(r)]
AbsReply == [r \in Request |-> ReplyOf(r)]

Abs == INSTANCE AsyncCall WITH call <- AbsCall, reply <- AbsReply, ClockBack <- 0

(* What a command's owner sees is what AsyncCall promises: an answer is      *)
(* collected by the call it was given to, never after the expiration, and    *)
(* every call settles.                                                       *)
ImplementsAsyncCall == Abs!CallSpec
=============================================================================
