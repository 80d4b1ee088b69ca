--------------------------- MODULE ConnectionSetup ---------------------------
(***************************************************************************)
(* DssClient::init and what it builds: an AMQP client with two connections *)
(* and two controllers, one per route, that share it.  Each controller     *)
(* declares its exchanges and the mailbox of this process, whose name is   *)
(* made of the ip address and the pid: every AMQP client of the process    *)
(* uses the same queue, and the broker deletes it with its last consumer   *)
(* (auto_delete).                                                          *)
(*                                                                         *)
(* The application calls init, calls it again when it has returned false,  *)
(* and releases the instance.  Calls of the broker fail when the           *)
(* connection is lost, when the broker refuses them and, as a refusal      *)
(* closes the channel, after any failure.                                  *)
(***************************************************************************)
EXTENDS Naturals, Sequences

CONSTANTS
    MaxClient,      \* bound on AMQP clients made
    MaxFault        \* bound on failures of the broker and the network

ASSUME SetupAssumption == MaxClient \in Nat /\ MaxFault \in Nat

Null   == 0
Client == 1 .. MaxClient
Route  == {"dss", "player"}

VARIABLES
    created,        \* counter: AMQP clients made so far
    receive,        \* m_connReceive of each client
    networkClient,  \* the client of the instance
    controller,     \* the client that the controller of each route has
    networkProvider,\* what the maintenance thread polls
    pc,             \* where init is, or out of it
    step,           \* the step of configureRoute
    result,         \* what init has returned
    crashed,        \* a null client was dereferenced
    mailbox,        \* broker: the queue of this process
    consumers,      \* broker: the clients that consume from it
    faults,         \* counter of failures
    refused,        \* history: a call of this init failed
    disturbed       \* history: something outside went wrong during this init

instance == <<networkClient, controller, networkProvider>>
broker   == <<mailbox, consumers>>
vars     == <<created, receive, instance, pc, step, result, crashed, broker, faults, refused,
              disturbed>>

-----------------------------------------------------------------------------
(* Definitions named Bad... hold one plausible mistake each and are used by  *)
(* no behaviour; each stands before the definition it would replace.         *)

\* The mailbox is made but not subscribed to (_startConsume = false).
BadSteps == <<"declare", "queue", "bind", "target">>

\* The queue is bound before it is declared.
BadStepsOrder == <<"declare", "bind", "queue", "consume", "target">>

(* configureRoute: the exchange to receive from, the mailbox with its three  *)
(* steps, the exchange to send to.                                           *)
Steps == <<"declare", "queue", "bind", "consume", "target">>

TypeOK ==
    /\ created \in 0 .. MaxClient
    /\ receive \in [Client -> {"none", "open", "broken"}]
    /\ networkClient \in Client \cup {Null}
    /\ controller \in [Route -> Client \cup {Null}]
    /\ networkProvider \in Client \cup {Null}
    /\ pc \in {"out", "transmit", "receive", "test"} \cup Route
    /\ step \in 1 .. Len(Steps)
    /\ result \in {"none", "true", "false"}
    /\ crashed \in BOOLEAN
    /\ mailbox \in {"absent", "declared", "bound"}
    /\ consumers \in SUBSET Client
    /\ faults \in 0 .. MaxFault
    /\ refused \in BOOLEAN
    /\ disturbed \in BOOLEAN

NoInstance ==
    /\ networkClient' = Null
    /\ controller' = [r \in Route |-> Null]
    /\ networkProvider' = Null

Init ==
    /\ created = 0
    /\ receive = [c \in Client |-> "none"]
    /\ networkClient = Null
    /\ controller = [r \in Route |-> Null]
    /\ networkProvider = Null
    /\ pc = "out"
    /\ step = 1
    /\ result = "none"
    /\ crashed = FALSE
    /\ mailbox = "absent"
    /\ consumers = {}
    /\ faults = 0
    /\ refused = FALSE
    /\ disturbed = FALSE

(* Who holds a shared pointer keeps an AMQP client alive.                    *)
Held(c) ==
    \/ c \in {networkClient, networkProvider} \cup {controller[r] : r \in Route}
    \/ c = created /\ pc \in {"transmit", "receive"}

-----------------------------------------------------------------------------
(* createNetworkClient. *)

CallInit ==
    /\ pc = "out"
    /\ result # "true"
    /\ created < MaxClient
    /\ created' = created + 1
    /\ pc' = "transmit"
    /\ result' = "none"
    /\ refused' = FALSE
    /\ disturbed' = FALSE
    /\ UNCHANGED <<receive, instance, step, crashed, broker, faults>>

ConnectTransmit ==
    /\ pc = "transmit"
    /\ pc' = "receive"
    /\ UNCHANGED <<created, receive, instance, step, result, crashed, broker, faults, refused,
                   disturbed>>

ConnectReceive ==
    /\ pc = "receive"
    /\ receive' = [receive EXCEPT ![created] = "open"]
    /\ networkClient' = created
    /\ pc' = "dss"
    /\ UNCHANGED <<created, controller, networkProvider, step, result, crashed, broker, faults,
                   refused, disturbed>>

(* initLowLevel returns false for either connection: the broker cannot be    *)
(* reached, or does not accept the login.                                    *)
ConnectFails ==
    /\ pc \in {"transmit", "receive"}
    /\ faults < MaxFault
    /\ faults' = faults + 1
    /\ networkClient' = Null
    /\ pc' = "dss"
    /\ refused' = TRUE
    /\ disturbed' = TRUE
    /\ UNCHANGED <<created, receive, controller, networkProvider, step, result, crashed, broker>>

-----------------------------------------------------------------------------
(* createDssConnection, then createPlayerConnection: pc is the route.        *)

\* The steps of the second route go on where those of the first ended.
BadRouteDone(c) ==
    /\ controller' = [controller EXCEPT ![pc] = c]
    /\ step' = step + 1
    /\ pc' = IF pc = "dss" THEN "player" ELSE "test"

RouteDone(c) ==
    /\ controller' = [controller EXCEPT ![pc] = c]
    /\ step' = 1
    /\ pc' = IF pc = "dss" THEN "player" ELSE "test"

(* configureRoute calls a member of a null client.                           *)
DereferenceNull ==
    /\ pc \in Route
    /\ networkClient = Null
    /\ crashed' = TRUE
    /\ UNCHANGED <<created, receive, instance, pc, step, result, broker, faults, refused,
                   disturbed>>

(* The broker knows nothing of a queue that is not there.                    *)
Accepts(s) == s \in {"bind", "consume"} => mailbox # "absent"

Perform(s, c) ==
    /\ mailbox' = IF s = "bind" THEN "bound"
                  ELSE IF s = "queue" /\ mailbox = "absent" THEN "declared" ELSE mailbox
    /\ consumers' = IF s = "consume" THEN consumers \cup {c} ELSE consumers

RouteStep ==
    /\ pc \in Route
    /\ networkClient # Null
    /\ receive[networkClient] = "open"
    /\ Accepts(Steps[step])
    /\ Perform(Steps[step], networkClient)
    /\ IF step < Len(Steps) THEN step' = step + 1 /\ UNCHANGED <<controller, pc>>
                            ELSE RouteDone(networkClient)
    /\ UNCHANGED <<created, receive, networkClient, networkProvider, result, crashed, faults,
                   refused, disturbed>>

(* The first step that fails ends the route.                                 *)
RouteFails ==
    /\ pc \in Route
    /\ networkClient # Null
    /\ \/ /\ receive[networkClient] = "broken" \/ ~Accepts(Steps[step])
          /\ UNCHANGED <<faults, disturbed>>
       \/ /\ faults < MaxFault
          /\ faults' = faults + 1
          /\ disturbed' = TRUE
    /\ receive' = [receive EXCEPT ![networkClient] = "broken"]
    /\ RouteDone(Null)
    /\ refused' = TRUE
    /\ UNCHANGED <<created, networkClient, networkProvider, result, crashed, broker>>

-----------------------------------------------------------------------------
\* One connection is enough.
BadConnected == \E r \in Route : controller[r] # Null

Connected == \A r \in Route : controller[r] # Null

(* The maintenance thread starts polling what networkClientForDss has.       *)
InitTrue ==
    /\ pc = "test"
    /\ Connected
    /\ networkProvider' = controller["dss"]
    /\ result' = "true"
    /\ pc' = "out"
    /\ UNCHANGED <<created, receive, networkClient, controller, step, crashed, broker, faults,
                   refused, disturbed>>

InitFalse ==
    /\ pc = "test"
    /\ ~Connected
    /\ result' = "false"
    /\ pc' = "out"
    /\ UNCHANGED <<created, receive, instance, step, crashed, broker, faults, refused, disturbed>>

(* The last releaseInstance: the loop is joined, all pointers are given up,  *)
(* and a new instance begins without them.                                   *)
Release ==
    /\ pc = "out"
    /\ result # "none"
    /\ NoInstance
    /\ result' = "none"
    /\ UNCHANGED <<created, receive, pc, step, crashed, broker, faults, refused, disturbed>>

-----------------------------------------------------------------------------
(* The broker and the network. *)

\* The connection is leaked.
BadDestroyed(c) == FALSE

(* shutdown of the AMQP client closes its connections when nobody holds it.  *)
Destroyed(c) == c <= created /\ ~Held(c)

(* The broker notices that a consumer is gone, some time later; the last one *)
(* takes the queue with it.                                                  *)
Teardown(c) ==
    /\ c \in consumers
    /\ Destroyed(c) \/ receive[c] = "broken"
    /\ consumers' = consumers \ {c}
    /\ mailbox' = IF consumers' = {} THEN "absent" ELSE mailbox
    /\ disturbed' = (disturbed \/ (pc # "out" /\ consumers' = {}))
    /\ UNCHANGED <<created, receive, instance, pc, step, result, crashed, faults, refused>>

BreakConnection(c) ==
    /\ receive[c] = "open"
    /\ Held(c)
    /\ faults < MaxFault
    /\ faults' = faults + 1
    /\ receive' = [receive EXCEPT ![c] = "broken"]
    /\ disturbed' = (disturbed \/ pc # "out")
    /\ UNCHANGED <<created, instance, pc, step, result, crashed, broker, refused>>

(* Neither the queue nor the exchanges are durable.                          *)
BrokerRestarts ==
    /\ faults < MaxFault
    /\ faults' = faults + 1
    /\ receive' = [c \in Client |-> IF receive[c] = "open" THEN "broken" ELSE receive[c]]
    /\ mailbox' = "absent"
    /\ consumers' = {}
    /\ disturbed' = (disturbed \/ pc # "out")
    /\ UNCHANGED <<created, instance, pc, step, result, crashed, refused>>

Next ==
    /\ ~crashed
    /\ \/ CallInit \/ ConnectTransmit \/ ConnectReceive \/ ConnectFails
       \/ DereferenceNull \/ RouteStep \/ RouteFails
       \/ InitTrue \/ InitFalse \/ Release
       \/ \E c \in Client : Teardown(c) \/ BreakConnection(c)
       \/ BrokerRestarts

(* The broker notices a lost consumer in the end.                            *)
Safety == Init /\ [][Next]_vars
Spec   == Safety /\ \A c \in Client : WF_vars(~crashed /\ Teardown(c))

-----------------------------------------------------------------------------
(* Properties *)

(* An init that returns true has left a mailbox that the broker fills and    *)
(* the maintenance thread empties, whatever became of the clients before it  *)
(* that used the same queue (createMailbox, amqp_client_c.cpp:323-396).      *)
ReadyMeansReachable ==
    result = "true" /\ receive[networkProvider] = "open" =>
        mailbox = "bound" /\ networkProvider \in consumers

(* A failure of any step of either route is reported by init                 *)
(* (dss_client.cpp:427).                                                     *)
FailureIsReported == result = "true" => ~refused

(* An init that returns false has met a failure of the broker, or a former   *)
(* client of this process took the queue with it while it was made.          *)
FailureHasCause == result = "false" => disturbed

(* c is connected and polled. *)
Polled(c) == result = "true" /\ networkProvider = c /\ receive[c] = "open"

(* No former client keeps a part of the answers: in the end the client that  *)
(* is polled is the only consumer of the mailbox, as all shared pointers to  *)
(* the former ones are replaced (dss_client.cpp:423-426, 431).               *)
MailboxIsOurs == \A c \in Client : Polled(c) ~> consumers = {c} \/ ~Polled(c)

(* "if( ! client->init(settings) ){" (main.cpp:19): init returns to its      *)
(* caller when the broker cannot be reached.                                 *)
InitSurvives == ~crashed
=============================================================================
