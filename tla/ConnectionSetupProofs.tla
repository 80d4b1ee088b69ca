------------------------ MODULE ConnectionSetupProofs ------------------------
(***************************************************************************)
(* Proofs about ConnectionSetup, for any number of AMQP clients and of     *)
(* failures: type correctness, and what the return value of init says of   *)
(* the mailbox and of the failures before it.                              *)
(***************************************************************************)
EXTENDS ConnectionSetup, TLAPS

-----------------------------------------------------------------------------
(* The inductive invariant, in named parts. *)

(* How far init is, and what it has by then.                                 *)
Stage ==
    /\ pc \notin Route => step = 1
    /\ result # "none" => pc = "out"
    /\ pc \in {"player", "test"} => networkClient # Null
    /\ pc \in {"player", "test"} => controller["dss"] \in {Null, networkClient}

(* A failed call of the broker has left a null pointer that InitTrue tests.  *)
Reported ==
    /\ pc \in {"transmit", "receive"} => ~refused
    /\ pc = "dss" /\ refused => networkClient = Null
    /\ pc = "player" /\ refused => controller["dss"] = Null
    /\ pc = "test" /\ refused => ~Connected
    /\ result = "true" => ~refused

(* What makes a step of a route fail has disturbed this init.                *)
Caused ==
    /\ pc \in Route /\ networkClient # Null /\ receive[networkClient] = "broken" => disturbed
    /\ pc \in Route /\ step \in {3, 4} /\ mailbox = "absent" => disturbed
    /\ pc = "player" /\ controller["dss"] = Null => disturbed
    /\ pc = "test" /\ ~Connected => disturbed
    /\ result = "false" => disturbed

(* The queue lives as long as it has a consumer, and a connected client that *)
(* has got past the subscription is one.                                     *)
Subscribed ==
    pc \in {"player", "test"} \/ (pc = "dss" /\ step = 5)

Kept ==
    /\ consumers # {} => mailbox = "bound"
    /\ pc \in Route /\ step = 4 => mailbox # "declared"
    /\ Subscribed /\ networkClient # Null /\ receive[networkClient] = "open"
            => networkClient \in consumers
    /\ result = "true" => networkProvider # Null
    /\ result = "true" /\ receive[networkProvider] = "open" => networkProvider \in consumers

SetupInv == TypeOK /\ Stage /\ Reported /\ Caused /\ Kept

-----------------------------------------------------------------------------
(* configureRoute has five steps; the mailbox is declared, bound and         *)
(* subscribed to in this order.                                              *)
LEMMA StepsAre ==
  /\ Len(Steps) = 5
  /\ Steps[1] = "declare" /\ Steps[2] = "queue" /\ Steps[3] = "bind"
  /\ Steps[4] = "consume" /\ Steps[5] = "target"
BY DEF Steps

(* The types of the counters and those of the rest, apart.                   *)
Counters ==
    /\ created \in 0 .. MaxClient
    /\ faults \in 0 .. MaxFault
    /\ step \in 1 .. 5

Values ==
    /\ receive \in [Client -> {"none", "open", "broken"}]
    /\ networkClient \in Client \cup {Null}
    /\ controller \in [Route -> Client \cup {Null}]
    /\ networkProvider \in Client \cup {Null}
    /\ pc \in {"out", "transmit", "receive", "test"} \cup Route
    /\ result \in {"none", "true", "false"}
    /\ crashed \in BOOLEAN
    /\ mailbox \in {"absent", "declared", "bound"}
    /\ consumers \in SUBSET Client
    /\ refused \in BOOLEAN
    /\ disturbed \in BOOLEAN

LEMMA TypeParts == TypeOK <=> Counters /\ Values
BY StepsAre DEF TypeOK, Counters, Values

LEMMA InitHolds == Init => SetupInv
<1>. SUFFICES ASSUME Init PROVE SetupInv
  OBVIOUS
<1>1. Counters /\ Values
  <2>1. Counters
    BY SetupAssumption DEF Init, Counters
  <2>2. Values
    BY DEF Init, Values
  <2>. QED
    BY <2>1, <2>2
<1>2. Stage /\ Reported /\ Caused /\ Kept
  BY DEF Init, Stage, Reported, Caused, Kept, Subscribed, Null, Route
<1>. QED
  BY <1>1, <1>2, TypeParts DEF SetupInv

(* Every step keeps the types. *)
LEMMA CountersStep ==
  ASSUME Counters, [Next]_vars  PROVE Counters'
<1>. USE SetupAssumption, StepsAre DEF Counters, Route
<1>1. CASE CallInit
  BY <1>1 DEF CallInit
<1>2. CASE ConnectTransmit
  BY <1>2 DEF ConnectTransmit
<1>3. CASE ConnectReceive
  BY <1>3 DEF ConnectReceive
<1>4. CASE ConnectFails
  BY <1>4 DEF ConnectFails
<1>5. CASE DereferenceNull
  BY <1>5 DEF DereferenceNull
<1>6. CASE RouteStep
  BY <1>6 DEF RouteStep, RouteDone, Perform, Accepts
<1>7. CASE RouteFails
  BY <1>7 DEF RouteFails, RouteDone, Accepts
<1>8. CASE InitTrue
  BY <1>8 DEF InitTrue
<1>9. CASE InitFalse
  BY <1>9 DEF InitFalse
<1>10. CASE Release
  BY <1>10 DEF Release, NoInstance
<1>11. ASSUME NEW c \in Client, Teardown(c)  PROVE Counters'
  BY <1>11 DEF Teardown, Destroyed, Held
<1>12. ASSUME NEW c \in Client, BreakConnection(c)  PROVE Counters'
  BY <1>12 DEF BreakConnection
<1>13. CASE BrokerRestarts
  BY <1>13 DEF BrokerRestarts
<1>14. CASE UNCHANGED vars
  BY <1>14 DEF vars, instance, broker, Held
<1>. QED
  BY <1>1, <1>2, <1>3, <1>4, <1>5, <1>6, <1>7, <1>8, <1>9, <1>10, <1>11, <1>12, <1>13, <1>14 DEF Next


LEMMA ValuesStep ==
  ASSUME Counters, Values, [Next]_vars  PROVE Values'
<1>. USE SetupAssumption DEF Values, Route, instance, broker
<1>1. CASE CallInit
  BY <1>1 DEF CallInit
<1>2. CASE ConnectTransmit
  BY <1>2 DEF ConnectTransmit
<1>3. CASE ConnectReceive
  <2>1. created \in Client \cup {Null}
    BY DEF Counters, Client, Null
  <2>. QED
    BY <1>3, <2>1 DEF ConnectReceive
<1>4. CASE ConnectFails
  BY <1>4 DEF ConnectFails
<1>5. CASE DereferenceNull
  BY <1>5 DEF DereferenceNull
<1>6. CASE RouteStep
  BY <1>6 DEF RouteStep, RouteDone, Perform, Accepts
<1>7. CASE RouteFails
  BY <1>7 DEF RouteFails, RouteDone, Accepts
<1>8. CASE InitTrue
  BY <1>8 DEF InitTrue
<1>9. CASE InitFalse
  BY <1>9 DEF InitFalse
<1>10. CASE Release
  BY <1>10 DEF Release, NoInstance
<1>11. ASSUME NEW c \in Client, Teardown(c)  PROVE Values'
  BY <1>11 DEF Teardown, Destroyed, Held
<1>12. ASSUME NEW c \in Client, BreakConnection(c)  PROVE Values'
  BY <1>12 DEF BreakConnection
<1>13. CASE BrokerRestarts
  BY <1>13 DEF BrokerRestarts
<1>14. CASE UNCHANGED vars
  BY <1>14 DEF vars, instance, broker, Held
<1>. QED
  BY <1>1, <1>2, <1>3, <1>4, <1>5, <1>6, <1>7, <1>8, <1>9, <1>10, <1>11, <1>12, <1>13, <1>14 DEF Next

(* Every step keeps what init has by then. *)
LEMMA StageStep ==
  ASSUME Counters, Values, Stage, [Next]_vars  PROVE Stage'
<1>. USE SetupAssumption, StepsAre DEF Counters, Values, Route, instance, broker, Stage
<1>1. CASE CallInit
  BY <1>1 DEF CallInit
<1>2. CASE ConnectTransmit
  BY <1>2 DEF ConnectTransmit
<1>3. CASE ConnectReceive
  BY <1>3 DEF ConnectReceive
<1>4. CASE ConnectFails
  BY <1>4 DEF ConnectFails
<1>5. CASE DereferenceNull
  BY <1>5 DEF DereferenceNull
<1>6. CASE RouteStep
  BY <1>6 DEF RouteStep, RouteDone, Perform, Accepts
<1>7. CASE RouteFails
  BY <1>7 DEF RouteFails, RouteDone, Accepts
<1>8. CASE InitTrue
  BY <1>8 DEF InitTrue
<1>9. CASE InitFalse
  BY <1>9 DEF InitFalse
<1>10. CASE Release
  BY <1>10 DEF Release, NoInstance
<1>11. ASSUME NEW c \in Client, Teardown(c)  PROVE Stage'
  BY <1>11 DEF Teardown, Destroyed, Held
<1>12. ASSUME NEW c \in Client, BreakConnection(c)  PROVE Stage'
  BY <1>12 DEF BreakConnection
<1>13. CASE BrokerRestarts
  BY <1>13 DEF BrokerRestarts
<1>14. CASE UNCHANGED vars
  BY <1>14 DEF vars, instance, broker, Held
<1>. QED
  BY <1>1, <1>2, <1>3, <1>4, <1>5, <1>6, <1>7, <1>8, <1>9, <1>10, <1>11, <1>12, <1>13, <1>14 DEF Next

(* A failure stays visible to the test at the end of init. *)
LEMMA ReportedStep ==
  ASSUME Counters, Values, Stage, Reported, [Next]_vars  PROVE Reported'
<1>. USE SetupAssumption, StepsAre DEF Counters, Values, Route, instance, broker, Stage, Reported, Connected
<1>1. CASE CallInit
  BY <1>1 DEF CallInit
<1>2. CASE ConnectTransmit
  BY <1>2 DEF ConnectTransmit
<1>3. CASE ConnectReceive
  BY <1>3 DEF ConnectReceive
<1>4. CASE ConnectFails
  BY <1>4 DEF ConnectFails
<1>5. CASE DereferenceNull
  BY <1>5 DEF DereferenceNull
<1>6. CASE RouteStep
  BY <1>6 DEF RouteStep, RouteDone, Perform, Accepts
<1>7. CASE RouteFails
  BY <1>7 DEF RouteFails, RouteDone, Accepts
<1>8. CASE InitTrue
  BY <1>8 DEF InitTrue
<1>9. CASE InitFalse
  BY <1>9 DEF InitFalse
<1>10. CASE Release
  BY <1>10 DEF Release, NoInstance
<1>11. ASSUME NEW c \in Client, Teardown(c)  PROVE Reported'
  BY <1>11 DEF Teardown, Destroyed, Held
<1>12. ASSUME NEW c \in Client, BreakConnection(c)  PROVE Reported'
  BY <1>12 DEF BreakConnection
<1>13. CASE BrokerRestarts
  BY <1>13 DEF BrokerRestarts
<1>14. CASE UNCHANGED vars
  BY <1>14 DEF vars, instance, broker, Held
<1>. QED
  BY <1>1, <1>2, <1>3, <1>4, <1>5, <1>6, <1>7, <1>8, <1>9, <1>10, <1>11, <1>12, <1>13, <1>14 DEF Next

(* A failed init has been disturbed. *)
LEMMA CausedStep ==
  ASSUME Counters, Values, Stage, Caused, [Next]_vars  PROVE Caused'
<1>. USE SetupAssumption, StepsAre DEF Counters, Values, Route, instance, broker, Stage, Caused, Connected
<1>1. CASE CallInit
  BY <1>1 DEF CallInit
<1>2. CASE ConnectTransmit
  BY <1>2 DEF ConnectTransmit
<1>3. CASE ConnectReceive
  <2>1. created # Null => created \in Client
    BY DEF Client, Null
  <2>. QED
    BY <1>3, <2>1 DEF ConnectReceive
<1>4. CASE ConnectFails
  BY <1>4 DEF ConnectFails
<1>5. CASE DereferenceNull
  BY <1>5 DEF DereferenceNull
<1>6. CASE RouteStep
  BY <1>6 DEF RouteStep, RouteDone, Perform, Accepts
<1>7. CASE RouteFails
  BY <1>7 DEF RouteFails, RouteDone, Accepts
<1>8. CASE InitTrue
  BY <1>8 DEF InitTrue
<1>9. CASE InitFalse
  BY <1>9 DEF InitFalse
<1>10. CASE Release
  BY <1>10 DEF Release, NoInstance
<1>11. ASSUME NEW c \in Client, Teardown(c)  PROVE Caused'
  BY <1>11 DEF Teardown, Destroyed, Held
<1>12. ASSUME NEW c \in Client, BreakConnection(c)  PROVE Caused'
  BY <1>12 DEF BreakConnection
<1>13. CASE BrokerRestarts
  BY <1>13 DEF BrokerRestarts
<1>14. CASE UNCHANGED vars
  BY <1>14 DEF vars, instance, broker, Held
<1>. QED
  BY <1>1, <1>2, <1>3, <1>4, <1>5, <1>6, <1>7, <1>8, <1>9, <1>10, <1>11, <1>12, <1>13, <1>14 DEF Next

(* The queue outlives every consumer but its last. *)
LEMMA KeptStep ==
  ASSUME Counters, Values, Stage, Kept, [Next]_vars  PROVE Kept'
<1>. USE SetupAssumption, StepsAre DEF Counters, Values, Route, instance, broker, Stage, Kept, Subscribed, Connected, Held
<1>1. CASE CallInit
  BY <1>1 DEF CallInit
<1>2. CASE ConnectTransmit
  BY <1>2 DEF ConnectTransmit
<1>3. CASE ConnectReceive
  BY <1>3 DEF ConnectReceive
<1>4. CASE ConnectFails
  BY <1>4 DEF ConnectFails
<1>5. CASE DereferenceNull
  BY <1>5 DEF DereferenceNull
<1>6. CASE RouteStep
  BY <1>6 DEF RouteStep, RouteDone, Perform, Accepts
<1>7. CASE RouteFails
  BY <1>7 DEF RouteFails, RouteDone, Accepts
<1>8. CASE InitTrue
  BY <1>8 DEF InitTrue
<1>9. CASE InitFalse
  BY <1>9 DEF InitFalse
<1>10. CASE Release
  BY <1>10 DEF Release, NoInstance
<1>11. ASSUME NEW c \in Client, Teardown(c)  PROVE Kept'
  BY <1>11 DEF Teardown, Destroyed, Held
<1>12. ASSUME NEW c \in Client, BreakConnection(c)  PROVE Kept'
  BY <1>12 DEF BreakConnection
<1>13. CASE BrokerRestarts
  BY <1>13 DEF BrokerRestarts
<1>14. CASE UNCHANGED vars
  BY <1>14 DEF vars, instance, broker, Held
<1>. QED
  BY <1>1, <1>2, <1>3, <1>4, <1>5, <1>6, <1>7, <1>8, <1>9, <1>10, <1>11, <1>12, <1>13, <1>14 DEF Next

-----------------------------------------------------------------------------
LEMMA Invariance == Spec => []SetupInv
<1>1. ASSUME SetupInv, [Next]_vars  PROVE SetupInv'
  <2>1. Counters /\ Values
    BY <1>1, TypeParts DEF SetupInv
  <2>2. Counters' /\ Values'
    BY <1>1, <2>1, CountersStep, ValuesStep
  <2>3. TypeOK'
    BY <2>2, StepsAre DEF TypeOK, Counters, Values
  <2>4. Stage' /\ Reported' /\ Caused' /\ Kept'
    BY <1>1, <2>1, StageStep, ReportedStep, CausedStep, KeptStep DEF SetupInv
  <2>. QED
    BY <2>3, <2>4 DEF SetupInv
<1>. QED
  BY InitHolds, <1>1, PTL DEF Spec, Safety

(* Type correctness of init and of what it builds. *)
THEOREM TypeCorrect == Spec => []TypeOK
<1>1. SetupInv => TypeOK
  BY DEF SetupInv
<1>. QED
  BY Invariance, <1>1, PTL

(* An init that returns true has left a mailbox that the broker fills and    *)
(* the maintenance thread empties.                                           *)
THEOREM ReadyIsReachable == Spec => []ReadyMeansReachable
<1>1. SetupInv => ReadyMeansReachable
  BY DEF SetupInv, Kept, ReadyMeansReachable
<1>. QED
  BY Invariance, <1>1, PTL

(* No failed call of the broker is swallowed by init. *)
THEOREM FailuresAreReported == Spec => []FailureIsReported
<1>1. SetupInv => FailureIsReported
  BY DEF SetupInv, Reported, FailureIsReported
<1>. QED
  BY Invariance, <1>1, PTL

(* Undisturbed, init does not return false. *)
THEOREM FailuresHaveCauses == Spec => []FailureHasCause
<1>1. SetupInv => FailureHasCause
  BY DEF SetupInv, Caused, FailureHasCause
<1>. QED
  BY Invariance, <1>1, PTL

=============================================================================
