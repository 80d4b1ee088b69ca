------------------------- MODULE PlayerSessionProofs -------------------------
(***************************************************************************)
(* Proofs about PlayerSession: for any ids, time limits and fault bounds.  *)
(***************************************************************************)
EXTENDS PlayerSession, FiniteSetTheorems, TLAPS

(* The steps of the calls keep the calls typed. *)
LEMMA CallsInit == Call!CallInit => Call!CallTypeOK
BY SessionAssumption DEF Call!CallInit, Call!CallTypeOK, Call!Age

LEMMA CallSteps ==
  ASSUME Call!CallTypeOK,
         \/ \E c \in Command : \/ Call!Start(c)
                               \/ \E b \in Answer : Call!Serve(c, b)
                               \/ Call!Lose(c)
                               \/ Call!Arrive(c)
                               \/ Call!Collect(c)
                               \/ Call!Expire(c)
         \/ Call!CallTick
         \/ Call!CallBack
         \/ UNCHANGED callVars
  PROVE  Call!CallTypeOK'
<1>. USE SessionAssumption DEF Call!CallTypeOK, Call!Age
<1>1. ASSUME NEW c \in Command, Call!Start(c)  PROVE Call!CallTypeOK'
  BY <1>1 DEF Call!Start
<1>2. ASSUME NEW c \in Command, NEW b \in Answer, Call!Serve(c, b)  PROVE Call!CallTypeOK'
  BY <1>2 DEF Call!Serve
<1>3. ASSUME NEW c \in Command, Call!Lose(c)  PROVE Call!CallTypeOK'
  BY <1>3 DEF Call!Lose
<1>4. ASSUME NEW c \in Command, Call!Arrive(c)  PROVE Call!CallTypeOK'
  BY <1>4 DEF Call!Arrive
<1>5. ASSUME NEW c \in Command, Call!Collect(c)  PROVE Call!CallTypeOK'
  BY <1>5 DEF Call!Collect, Call!Settle
<1>6. ASSUME NEW c \in Command, Call!Expire(c)  PROVE Call!CallTypeOK'
  BY <1>6 DEF Call!Expire, Call!Settle
<1>7. ASSUME NEW d \in Nat, Call!CallPass(d)  PROVE Call!CallTypeOK'
  BY <1>7 DEF Call!CallPass, Call!Older
<1>8. CASE Call!CallTick
  BY <1>7, <1>8 DEF Call!CallTick
<1>9. CASE Call!CallBack
  BY <1>9 DEF Call!CallBack, Call!CallPass, Call!Older
<1>10. CASE UNCHANGED callVars
  BY <1>10 DEF callVars
<1>. QED
  BY <1>1, <1>2, <1>3, <1>4, <1>5, <1>6, <1>8, <1>9, <1>10

(* Setting the clock forward makes the calls older as a tick does.           *)
LEMMA PassIsTick ==
  ASSUME Call!CallTypeOK, NEW d \in Nat \ {0}, Call!CallPass(d)
  PROVE  Call!CallTick
<1>. USE SessionAssumption DEF Call!CallTypeOK, Call!Age, Call!CallTick
<1>. DEFINE most == Expiration + 2 * ClockBack + 1
<1>1. CASE d \in 1 .. most
  BY <1>1
<1>2. CASE d > most
  <2>1. \A a \in Call!Age : Call!Older(a, d) = Call!Older(a, most)
    BY <1>2 DEF Call!Older
  <2>2. Call!CallPass(most)
    BY <2>1 DEF Call!CallPass
  <2>3. most \in 1 .. most
    OBVIOUS
  <2>. QED
    BY <2>2, <2>3
<1>. QED
  BY <1>1, <1>2

-----------------------------------------------------------------------------
(* The strengthening that makes the properties inductive. *)

(* A call that was answered has an answer; one to the register command that  *)
(* can be read gives an id, or the empty one. *)
Answered ==
    /\ \A c \in Command : call[c] \in {"replied", "ready"} => reply[c] \in Answer
    /\ call["register"] \in {"replied", "ready"} /\ reply["register"].code # "GARBLED"
            => reply["register"].id \in UserId \cup {NoUserId}

(* While no registration is in progress there is no register command, and    *)
(* while one is there is no id yet; a command under way is in the container. *)
LatchHolds ==
    /\ ~registrationInProgress => call["register"] = "idle" /\ commandsInProgress = {}
    /\ registrationInProgress => clientUniqueId = InvalidId
    /\ commandsInProgress = {} => call["register"] = "idle"

(* The player knows at most one id of this client: none before the register  *)
(* command reaches it, then the one in its answer, then that of the client.  *)
PlayerKnowsOneId ==
    /\ \A u, v \in registered : u = v
    /\ call["register"] = "requested" => registered = {}
    /\ clientUniqueId = InvalidId /\ ~registrationInProgress => registered = {}
    /\ call["register"] \in {"replied", "ready"} /\ reply["register"].code # "GARBLED"
            => registered \subseteq {reply["register"].id}
    /\ clientUniqueId \in UserId => registered \subseteq {clientUniqueId}

(* Pings carry the id of the client or none, so a player that answers OK has *)
(* seen an id that the client has.                                           *)
PingsCarryOurId ==
    /\ pingUserId = clientUniqueId
    /\ sentUserId \in {InvalidId, clientUniqueId}
    /\ call["ping"] \in {"replied", "ready"} /\ reply["ping"].code = "OK"
            => clientUniqueId \in UserId

SInv == /\ TypeOK
        /\ Answered
        /\ LatchHolds
        /\ PlayerKnowsOneId
        /\ PingsCarryOurId
        /\ HandlerHoldsOurId

LEMMA InitInv == Init => SInv
<1>. SUFFICES ASSUME Init  PROVE SInv
  OBVIOUS
<1>1. Call!CallTypeOK
  BY CallsInit DEF Init
<1>2. ClientTypeOK
  BY DEF Init, ClientTypeOK
<1>3. ClockTypeOK
  BY SessionAssumption DEF Init, ClockTypeOK, SetBack, Call!CallInit
<1>4. PlayerTypeOK
  <2>1. /\ up \in BOOLEAN /\ broken \in BOOLEAN
        /\ adjusted \in {"no", "forward", "back"} /\ registered \in SUBSET UserId
    BY DEF Init
  <2>2. faults \in 0 .. MaxFault /\ crashes \in 0 .. MaxCrash
    BY SessionAssumption DEF Init
  <2>. QED
    BY <2>1, <2>2, Zenon DEF PlayerTypeOK
<1>5. Answered /\ LatchHolds /\ PlayerKnowsOneId /\ PingsCarryOurId /\ HandlerHoldsOurId
  BY SessionAssumption DEF Init, Call!CallInit, Answered, LatchHolds, PlayerKnowsOneId,
     PingsCarryOurId, HandlerHoldsOurId, Command
<1>. QED
  BY <1>1, <1>2, <1>3, <1>4, <1>5 DEF SInv, TypeOK

(* The ids that the client takes are those of readable answers (Answered). *)
LEMMA ClientTypeOKStep ==
  ASSUME SInv, [Next]_vars  PROVE  ClientTypeOK'
<1>. USE DEF SInv, TypeOK, ClientTypeOK, Goto, Command, idVars, handlerVars, clockVars, callVars, envVars, clientVars
<1>1. CASE SetIdFromPlayer
  BY <1>1 DEF SetIdFromPlayer, Collected, Call!Collect, Answered
<1>2. CASE PingNotDue
  BY <1>2 DEF PingNotDue, TurnOver
<1>3. CASE PongWithState
  BY <1>3 DEF PongWithState, UpdatePlayer
<1>4. CASE NoPong
  BY <1>4 DEF NoPong, TurnOver
<1>5. CASE SendPing
  BY <1>5 DEF SendPing, TurnOver
<1>6. CASE \/ Receive \/ ReceiveNothing \/ NothingToAsk \/ RegisterUnreadable
         \/ RegisterGivenUp \/ PlayerOffline \/ PlayerOnline \/ PlayerAsBefore
         \/ PingReady \/ PongNotRegistered \/ RegisterInPlayer \/ AlreadyRegistered
  BY <1>6 DEF Receive, ReceiveNothing, NothingToAsk, RegisterUnreadable,
     RegisterGivenUp, PlayerOffline, PlayerOnline, PlayerAsBefore, PingReady,
     PongNotRegistered, RegisterInPlayer, AlreadyRegistered
<1>7. ASSUME UNCHANGED <<pc, idVars, sentUserId, onlinePlayer, handlerVars>>
      PROVE  ClientTypeOK'
  BY <1>7
<1>8. CASE Environment \/ Tick \/ UNCHANGED vars
  <2>1. UNCHANGED <<pc, idVars, sentUserId, onlinePlayer, handlerVars>>
    BY <1>8, Zenon DEF Environment, ServePing, ServeRegister, Fault, PlayerCrashes,
       PlayerRestarts, Undeliverable, ConnectionBreaks, ClockIsSet, Tick, vars
  <2>. QED
    BY <2>1, <1>7
<1>. QED
  BY <1>1, <1>2, <1>3, <1>4, <1>5, <1>6, <1>7, <1>8 DEF Next, Maintenance

(* A call that settles is as old as a new one, and only the clock makes it   *)
(* older or younger. *)
LEMMA AgesStep ==
  ASSUME SInv, [Next]_vars
  PROVE  \A c \in Command : age'[c] >= -SetBack'
<1>. USE SessionAssumption DEF SInv, TypeOK, ClockTypeOK, Call!CallTypeOK, Call!Age, SetBack
<1>1. ASSUME NEW c \in Command, Call!Collect(c) \/ Call!Expire(c), adjusted' = adjusted
      PROVE  \A b \in Command : age'[b] >= -SetBack'
  BY <1>1 DEF Call!Collect, Call!Expire, Call!Settle
<1>2. ASSUME UNCHANGED age, adjusted' = adjusted
      PROVE  \A b \in Command : age'[b] >= -SetBack'
  BY <1>2
<1>3. CASE Maintenance \/ UNCHANGED vars
  <2>1. adjusted' = adjusted
    BY <1>3, Zenon DEF Maintenance, Receive, ReceiveNothing, NothingToAsk, SetIdFromPlayer,
       RegisterUnreadable, RegisterGivenUp, PlayerOffline, PlayerOnline, PlayerAsBefore,
       PingNotDue, PingReady, PongWithState, PongNotRegistered, NoPong, RegisterInPlayer,
       AlreadyRegistered, SendPing, TurnOver, envVars, vars
  <2>2. UNCHANGED age \/ \E c \in Command : Call!Collect(c) \/ Call!Expire(c)
    BY <1>3, Zenon DEF Command, Maintenance, Receive, ReceiveNothing, NothingToAsk,
       SetIdFromPlayer, RegisterUnreadable, RegisterGivenUp, PlayerOffline, PlayerOnline,
       PlayerAsBefore, PingNotDue, PingReady, PongWithState, PongNotRegistered, NoPong,
       RegisterInPlayer, AlreadyRegistered, SendPing, Collected, Unreadable, Call!Arrive,
       Call!Start, callVars, vars
  <2>. QED
    BY <1>1, <1>2, <2>1, <2>2
<1>4. CASE Environment /\ ~ClockIsSet
  <2>1. adjusted' = adjusted /\ age' = age
    BY <1>4, Zenon DEF Environment, ServePing, ServeRegister, Fault, PlayerCrashes,
       PlayerRestarts, ConnectionBreaks, Undeliverable, Call!Serve, Call!Lose, callVars, envVars
  <2>. QED
    BY <1>2, <2>1
<1>5. CASE Tick
  BY <1>5 DEF Tick, Call!CallPass, Call!Older
<1>6. CASE ClockIsSet
  BY <1>6 DEF ClockIsSet, Call!CallPass, Call!Older
<1>. QED
  BY <1>3, <1>4, <1>5, <1>6 DEF Next

(* The ages and the lag stop at their limits. *)
LEMMA ClockTypeOKStep ==
  ASSUME SInv, [Next]_vars  PROVE  ClockTypeOK'
<1>. DEFINE Other == /\ pongAge \in -SetBack .. PongTimeout + ClockBack + 1
                     /\ pingAge \in -SetBack .. PingInterval + ClockBack + 1
                     /\ lag \in 0 .. MaxLag
<1>0. Other /\ (adjusted = "no" => SetBack = 0) /\ SetBack \in Nat
  BY SessionAssumption DEF SInv, TypeOK, ClockTypeOK, SetBack
<1>. SUFFICES Other'
  BY AgesStep DEF ClockTypeOK
<1>. USE DEF Command, idVars, handlerVars, clockVars, callVars, envVars, clientVars
<1>1. CASE PingNotDue
  BY <1>0, <1>1, SessionAssumption DEF PingNotDue, TurnOver, SetBack
<1>2. CASE PongWithState
  BY <1>0, <1>2, SessionAssumption DEF PongWithState, SetBack
<1>3. CASE PongNotRegistered
  BY <1>0, <1>3, SessionAssumption DEF PongNotRegistered, SetBack
<1>4. CASE NoPong
  BY <1>0, <1>4, SessionAssumption DEF NoPong, TurnOver, SetBack
<1>5. CASE SendPing
  BY <1>0, <1>5, SessionAssumption DEF SendPing, TurnOver, SetBack
<1>6. CASE Tick
  BY <1>0, <1>6, SessionAssumption DEF Tick, Pass, Older, SetBack
<1>7. CASE \/ Receive \/ ReceiveNothing \/ NothingToAsk \/ SetIdFromPlayer
         \/ RegisterUnreadable \/ RegisterGivenUp \/ PlayerOffline \/ PlayerOnline
         \/ PlayerAsBefore \/ PingReady \/ RegisterInPlayer \/ AlreadyRegistered
         \/ ServePing \/ ServeRegister \/ (\E c \in Command : Fault(c)) \/ PlayerCrashes
         \/ PlayerRestarts \/ ConnectionBreaks \/ (\E c \in Command : Undeliverable(c))
  BY <1>0, <1>7 DEF SetBack, Receive, ReceiveNothing, NothingToAsk, SetIdFromPlayer,
     RegisterUnreadable, RegisterGivenUp, PlayerOffline, PlayerOnline,
     PlayerAsBefore, PingReady, RegisterInPlayer, AlreadyRegistered, ServePing,
     ServeRegister, Fault, PlayerCrashes, PlayerRestarts, ConnectionBreaks, Undeliverable
<1>8. CASE ClockIsSet
  BY <1>0, <1>8, SessionAssumption DEF ClockIsSet, Pass, Older, SetBack
<1>9. CASE UNCHANGED vars
  BY <1>0, <1>9 DEF SetBack, vars
<1>. QED
  BY <1>1, <1>2, <1>3, <1>4, <1>5, <1>6, <1>7, <1>8, <1>9 DEF Next, Maintenance,
     Environment

(* The connection breaks once, and the clock is set once. *)
LEMMA BrokenStep ==
  ASSUME SInv, [Next]_vars
  PROVE  broken' \in BOOLEAN /\ adjusted' \in {"no", "forward", "back"}
<1>1. /\ broken' = broken \/ broken' = TRUE
      /\ adjusted' = adjusted \/ adjusted' \in {"forward", "back"}
  BY DEF Next, Maintenance, Receive, ReceiveNothing, NothingToAsk, SetIdFromPlayer,
     RegisterUnreadable, RegisterGivenUp, PlayerOffline, PlayerOnline, PlayerAsBefore, PingNotDue,
     PingReady, PongWithState, PongNotRegistered, NoPong, RegisterInPlayer, AlreadyRegistered,
     SendPing, TurnOver, Environment, ServePing, ServeRegister, Fault, PlayerCrashes,
     PlayerRestarts, ConnectionBreaks, ClockIsSet, Undeliverable, Tick, envVars, vars
<1>2. broken \in BOOLEAN /\ adjusted \in {"no", "forward", "back"}
  BY DEF SInv, TypeOK, PlayerTypeOK
<1>. QED
  BY <1>1, <1>2, Zenon

(* The player and the counters of faults. *)
LEMMA PlayerTypeOKStep ==
  ASSUME SInv, [Next]_vars  PROVE  PlayerTypeOK'
<1>. DEFINE Other == /\ up \in BOOLEAN /\ registered \in SUBSET UserId
                     /\ faults \in 0 .. MaxFault /\ crashes \in 0 .. MaxCrash
<1>0. Other
  BY DEF SInv, TypeOK, PlayerTypeOK
<1>. SUFFICES Other'
  BY BrokenStep, Zenon DEF PlayerTypeOK
<1>. USE DEF Command, idVars, handlerVars, clockVars, callVars, envVars, clientVars
<1>1. CASE PingNotDue
  BY <1>0, <1>1 DEF PingNotDue, TurnOver
<1>2. CASE NoPong
  BY <1>0, <1>2 DEF NoPong, TurnOver
<1>3. CASE SendPing
  BY <1>0, <1>3 DEF SendPing, TurnOver
<1>4. ASSUME NEW c \in Command, Fault(c)  PROVE Other'
  BY <1>0, <1>4, SessionAssumption DEF Fault
<1>5. CASE PlayerCrashes
  <2>1. up' \in BOOLEAN /\ registered' \in SUBSET UserId
    BY <1>0, <1>5 DEF PlayerCrashes
  <2>2. faults' \in 0 .. MaxFault /\ crashes' \in 0 .. MaxCrash
    BY <1>0, <1>5, SessionAssumption DEF PlayerCrashes
  <2>. QED
    BY <2>1, <2>2
<1>6. CASE ConnectionBreaks \/ ClockIsSet
  BY <1>0, <1>6, SessionAssumption DEF ConnectionBreaks, ClockIsSet
<1>7. CASE \/ Receive \/ ReceiveNothing \/ NothingToAsk \/ SetIdFromPlayer
         \/ RegisterUnreadable \/ RegisterGivenUp \/ PlayerOffline \/ PlayerOnline
         \/ PlayerAsBefore \/ PingReady \/ PongWithState \/ PongNotRegistered
         \/ RegisterInPlayer \/ AlreadyRegistered \/ ServePing \/ ServeRegister
         \/ PlayerRestarts \/ (\E c \in Command : Undeliverable(c)) \/ Tick
  BY <1>0, <1>7 DEF Receive, ReceiveNothing, NothingToAsk, SetIdFromPlayer,
     RegisterUnreadable, RegisterGivenUp, PlayerOffline, PlayerOnline,
     PlayerAsBefore, PingReady, PongWithState, PongNotRegistered, RegisterInPlayer,
     AlreadyRegistered, ServePing, ServeRegister, PlayerRestarts, Undeliverable,
     Tick
<1>8. CASE UNCHANGED vars
  BY <1>0, <1>8 DEF vars
<1>. QED
  BY <1>1, <1>2, <1>3, <1>4, <1>5, <1>6, <1>7, <1>8 DEF Next, Maintenance, Environment

(* Only the player and faults make answers; a call that settles has none. *)
LEMMA AnsweredStep ==
  ASSUME SInv, [Next]_vars  PROVE  Answered'
<1>. USE DEF SInv, TypeOK, Answered, Call!CallTypeOK, Command, idVars, handlerVars, clockVars, callVars, envVars, clientVars
<1>1. CASE Receive
  BY <1>1 DEF Receive, Call!Arrive
<1>2. CASE SetIdFromPlayer
  BY <1>2 DEF SetIdFromPlayer, Collected, Call!Collect, Call!Settle
<1>3. CASE RegisterUnreadable
  BY <1>3 DEF RegisterUnreadable, Unreadable, Call!Collect, Call!Settle
<1>4. CASE RegisterGivenUp
  BY <1>4 DEF RegisterGivenUp, Call!Expire, Call!Settle
<1>5. CASE PingReady
  BY <1>5 DEF PingReady, Call!Expire, Call!Settle
<1>6. CASE PongWithState
  BY <1>6 DEF PongWithState, Collected, Call!Collect, Call!Settle
<1>7. CASE PongNotRegistered
  BY <1>7 DEF PongNotRegistered, Collected, Call!Collect, Call!Settle
<1>8. CASE NoPong
  BY <1>8 DEF NoPong, Unreadable, Call!Collect, Call!Settle
<1>9. CASE RegisterInPlayer
  BY <1>9 DEF RegisterInPlayer, Call!Start
<1>10. CASE SendPing
  BY <1>10 DEF SendPing, Call!Start
<1>11. CASE ServePing
  BY <1>11 DEF ServePing, Call!Serve, Pong, Answer
<1>12. CASE ServeRegister
  BY <1>12 DEF ServeRegister, Call!Serve, Registered, Answer
<1>13. ASSUME NEW c \in Command, Fault(c)  PROVE Answered'
  BY <1>13 DEF Fault, Call!Lose, Call!Serve, Pong, Registered, Answer
<1>14. ASSUME NEW c \in Command, Undeliverable(c)  PROVE Answered'
  BY <1>14 DEF Undeliverable, Call!Lose
<1>15. CASE Tick \/ ClockIsSet
  BY <1>15 DEF Tick, ClockIsSet, Call!CallPass
<1>16. CASE \/ ReceiveNothing \/ NothingToAsk \/ PlayerOffline \/ PlayerOnline
         \/ PlayerAsBefore \/ PingNotDue \/ AlreadyRegistered \/ PlayerCrashes
         \/ PlayerRestarts \/ ConnectionBreaks
  BY <1>16 DEF ReceiveNothing, NothingToAsk, PlayerOffline, PlayerOnline,
     PlayerAsBefore, PingNotDue, AlreadyRegistered, PlayerCrashes, PlayerRestarts, ConnectionBreaks
<1>17. CASE UNCHANGED vars
  BY <1>17 DEF vars
<1>. QED
  BY <1>1, <1>2, <1>3, <1>4, <1>5, <1>6, <1>7, <1>8, <1>9, <1>10, <1>11, <1>12,
     <1>13, <1>14, <1>15, <1>16, <1>17 DEF Next, Maintenance, Environment

(* The latch is set with the register command and cleared with its answer;
   where the command is given up it stays set. *)
LEMMA LatchHoldsStep ==
  ASSUME SInv, [Next]_vars  PROVE  LatchHolds'
<1>. USE DEF SInv, TypeOK, LatchHolds, Call!CallTypeOK, Command, idVars, handlerVars, clockVars, callVars, envVars, clientVars
<1>1. CASE Receive
  BY <1>1 DEF Receive, Call!Arrive
<1>2. CASE SetIdFromPlayer
  BY <1>2 DEF SetIdFromPlayer, Collected, Call!Collect, Call!Settle
<1>3. CASE RegisterGivenUp
  BY <1>3 DEF RegisterGivenUp, Call!Expire, Call!Settle, Call!IsPerforming
<1>4. CASE PingReady
  BY <1>4 DEF PingReady, Call!Expire, Call!Settle
<1>5. CASE PongWithState
  BY <1>5 DEF PongWithState, Collected, Call!Collect, Call!Settle
<1>6. CASE PongNotRegistered
  BY <1>6 DEF PongNotRegistered, Collected, Call!Collect, Call!Settle
<1>7. CASE NoPong
  BY <1>7 DEF NoPong, Unreadable, Call!Collect, Call!Settle
<1>8. CASE RegisterInPlayer
  BY <1>8 DEF RegisterInPlayer, MayRegister
<1>9. CASE SendPing
  BY <1>9 DEF SendPing, Call!Start
<1>10. CASE ServePing
  BY <1>10 DEF ServePing, Call!Serve
<1>11. CASE ServeRegister
  BY <1>11 DEF ServeRegister, Call!Serve
<1>12. ASSUME NEW c \in Command, Fault(c)  PROVE LatchHolds'
  BY <1>12 DEF Fault, Call!Lose, Call!Serve
<1>13. ASSUME NEW c \in Command, Undeliverable(c)  PROVE LatchHolds'
  BY <1>13 DEF Undeliverable, Call!Lose
<1>14. CASE Tick \/ ClockIsSet
  BY <1>14 DEF Tick, ClockIsSet, Call!CallPass
<1>15. CASE \/ ReceiveNothing \/ NothingToAsk \/ RegisterUnreadable \/ PlayerOffline
         \/ PlayerOnline \/ PlayerAsBefore \/ PingNotDue \/ AlreadyRegistered
         \/ PlayerCrashes \/ PlayerRestarts \/ ConnectionBreaks
  BY <1>15 DEF ReceiveNothing, NothingToAsk, RegisterUnreadable, PlayerOffline,
     PlayerOnline, PlayerAsBefore, PingNotDue, AlreadyRegistered, PlayerCrashes,
     PlayerRestarts, ConnectionBreaks
<1>16. CASE UNCHANGED vars
  BY <1>16 DEF vars
<1>. QED
  BY <1>1, <1>2, <1>3, <1>4, <1>5, <1>6, <1>7, <1>8, <1>9, <1>10, <1>11, <1>12,
     <1>13, <1>14, <1>15, <1>16 DEF Next, Maintenance, Environment

(* The register command reaches the player at most once, while it knows no
   id. *)
LEMMA PlayerKnowsOneIdStep ==
  ASSUME SInv, [Next]_vars  PROVE  PlayerKnowsOneId'
<1>. USE DEF SInv, TypeOK, PlayerKnowsOneId, Call!CallTypeOK, Command, idVars, handlerVars, clockVars, callVars, envVars, clientVars
<1>1. CASE Receive
  BY <1>1 DEF Receive, Call!Arrive
<1>2. CASE SetIdFromPlayer
  BY <1>2, SessionAssumption DEF SetIdFromPlayer, Collected, Call!Collect,
     Call!Settle, PlayerTypeOK
<1>3. CASE RegisterUnreadable
  BY <1>3 DEF RegisterUnreadable, Unreadable, Call!Collect, Call!Settle
<1>4. CASE RegisterGivenUp
  BY <1>4 DEF RegisterGivenUp, Call!Expire, Call!Settle
<1>5. CASE PingNotDue
  BY <1>5 DEF PingNotDue, TurnOver
<1>6. CASE PingReady
  BY <1>6 DEF PingReady, Call!Expire, Call!Settle
<1>7. CASE PongWithState
  BY <1>7 DEF PongWithState, Collected, Call!Collect, Call!Settle
<1>8. CASE PongNotRegistered
  BY <1>8 DEF PongNotRegistered, Collected, Call!Collect, Call!Settle
<1>9. CASE NoPong
  BY <1>9 DEF NoPong, Unreadable, Call!Collect, Call!Settle, TurnOver
<1>10. CASE RegisterInPlayer
  BY <1>10 DEF RegisterInPlayer, MayRegister
<1>11. CASE SendPing
  BY <1>11 DEF SendPing, Call!Start, TurnOver
<1>12. CASE ServePing
  BY <1>12 DEF ServePing, Call!Serve
<1>13. CASE ServeRegister
  BY <1>13, SessionAssumption DEF ServeRegister, Call!Serve, Registered, LatchHolds
<1>14. ASSUME NEW c \in Command, Fault(c)  PROVE PlayerKnowsOneId'
  BY <1>14 DEF Fault, Call!Lose, Call!Serve
<1>15. ASSUME NEW c \in Command, Undeliverable(c)  PROVE PlayerKnowsOneId'
  BY <1>15 DEF Undeliverable, Call!Lose
<1>16. CASE Tick \/ ClockIsSet
  BY <1>16 DEF Tick, ClockIsSet, Call!CallPass
<1>17. CASE \/ ReceiveNothing \/ NothingToAsk \/ PlayerOffline \/ PlayerOnline
         \/ PlayerAsBefore \/ AlreadyRegistered \/ PlayerCrashes \/ PlayerRestarts \/ ConnectionBreaks
  BY <1>17 DEF ReceiveNothing, NothingToAsk, PlayerOffline, PlayerOnline,
     PlayerAsBefore, AlreadyRegistered, PlayerCrashes, PlayerRestarts, ConnectionBreaks
<1>18. CASE UNCHANGED vars
  BY <1>18 DEF vars
<1>. QED
  BY <1>1, <1>2, <1>3, <1>4, <1>5, <1>6, <1>7, <1>8, <1>9, <1>10, <1>11, <1>12,
     <1>13, <1>14, <1>15, <1>16, <1>17, <1>18 DEF Next, Maintenance, Environment

(* The ping gets the id with the client, and the id never changes after
   that. *)
LEMMA PingsCarryOurIdStep ==
  ASSUME SInv, [Next]_vars  PROVE  PingsCarryOurId'
<1>. USE DEF SInv, TypeOK, PingsCarryOurId, Call!CallTypeOK, Command, idVars, handlerVars, clockVars, callVars, envVars, clientVars
<1>1. CASE Receive
  BY <1>1 DEF Receive, Call!Arrive
<1>2. CASE SetIdFromPlayer
  BY <1>2, SessionAssumption DEF SetIdFromPlayer, Collected, Call!Collect, Call!Settle, LatchHolds
<1>3. CASE RegisterUnreadable
  BY <1>3 DEF RegisterUnreadable, Unreadable, Call!Collect, Call!Settle
<1>4. CASE RegisterGivenUp
  BY <1>4 DEF RegisterGivenUp, Call!Expire, Call!Settle
<1>5. CASE PingReady
  BY <1>5 DEF PingReady, Call!Expire, Call!Settle
<1>6. CASE PongWithState
  BY <1>6 DEF PongWithState, Collected, Call!Collect, Call!Settle
<1>7. CASE PongNotRegistered
  BY <1>7 DEF PongNotRegistered, Collected, Call!Collect, Call!Settle
<1>8. CASE NoPong
  BY <1>8 DEF NoPong, Unreadable, Call!Collect, Call!Settle
<1>9. CASE RegisterInPlayer
  BY <1>9 DEF RegisterInPlayer, Call!Start
<1>10. CASE SendPing
  BY <1>10 DEF SendPing, Call!Start
<1>11. CASE ServePing
  BY <1>11, SessionAssumption DEF ServePing, Call!Serve, Pong, PlayerTypeOK
<1>12. CASE ServeRegister
  BY <1>12 DEF ServeRegister, Call!Serve
<1>13. ASSUME NEW c \in Command, Fault(c)  PROVE PingsCarryOurId'
  BY <1>13 DEF Fault, Call!Lose, Call!Serve, Pong
<1>14. ASSUME NEW c \in Command, Undeliverable(c)  PROVE PingsCarryOurId'
  BY <1>14 DEF Undeliverable, Call!Lose
<1>15. CASE Tick \/ ClockIsSet
  BY <1>15 DEF Tick, ClockIsSet, Call!CallPass
<1>16. CASE \/ ReceiveNothing \/ NothingToAsk \/ PlayerOffline \/ PlayerOnline
         \/ PlayerAsBefore \/ PingNotDue \/ AlreadyRegistered \/ PlayerCrashes
         \/ PlayerRestarts \/ ConnectionBreaks
  BY <1>16 DEF ReceiveNothing, NothingToAsk, PlayerOffline, PlayerOnline,
     PlayerAsBefore, PingNotDue, AlreadyRegistered, PlayerCrashes, PlayerRestarts, ConnectionBreaks
<1>17. CASE UNCHANGED vars
  BY <1>17 DEF vars
<1>. QED
  BY <1>1, <1>2, <1>3, <1>4, <1>5, <1>6, <1>7, <1>8, <1>9, <1>10, <1>11, <1>12,
     <1>13, <1>14, <1>15, <1>16, <1>17 DEF Next, Maintenance, Environment

(* A handler is made on an OK pong, when the client has an id
   (PingsCarryOurId), and the id is set only while there is none
   (LatchHolds). *)
LEMMA HandlerHoldsOurIdStep ==
  ASSUME SInv, [Next]_vars  PROVE  HandlerHoldsOurId'
<1>. USE DEF SInv, TypeOK, HandlerHoldsOurId, Command, idVars, handlerVars, clockVars, callVars, envVars, clientVars
<1>1. CASE SetIdFromPlayer
  BY <1>1, SessionAssumption DEF SetIdFromPlayer, LatchHolds
<1>2. CASE PongWithState
  BY <1>2, SessionAssumption DEF PongWithState, Collected, Call!Collect,
     UpdatePlayer, Answer, Answered, PingsCarryOurId
<1>3. CASE \/ Receive \/ ReceiveNothing \/ NothingToAsk \/ RegisterUnreadable
         \/ RegisterGivenUp \/ PlayerOffline \/ PlayerOnline \/ PlayerAsBefore
         \/ PingNotDue \/ PingReady \/ PongNotRegistered \/ NoPong \/ RegisterInPlayer
         \/ AlreadyRegistered \/ SendPing \/ ServePing \/ ServeRegister
         \/ (\E c \in Command : Fault(c)) \/ PlayerCrashes \/ PlayerRestarts \/ ConnectionBreaks
         \/ (\E c \in Command : Undeliverable(c)) \/ ClockIsSet \/ Tick
  BY <1>3 DEF Receive, ReceiveNothing, NothingToAsk, RegisterUnreadable,
     RegisterGivenUp, PlayerOffline, PlayerOnline, PlayerAsBefore, PingNotDue,
     PingReady, PongNotRegistered, NoPong, RegisterInPlayer, AlreadyRegistered,
     SendPing, ServePing, ServeRegister, Fault, PlayerCrashes, PlayerRestarts, ConnectionBreaks,
     Undeliverable, ClockIsSet, Tick
<1>4. CASE UNCHANGED vars
  BY <1>4 DEF vars
<1>. QED
  BY <1>1, <1>2, <1>3, <1>4 DEF Next, Maintenance, Environment

(* Each step is a step of the calls, or leaves them alone. *)
LEMMA CallStepsOnly ==
  ASSUME SInv, [Next]_vars
  PROVE  \/ \E c \in Command : \/ Call!Start(c)
                               \/ \E b \in Answer : Call!Serve(c, b)
                               \/ Call!Lose(c)
                               \/ Call!Arrive(c)
                               \/ Call!Collect(c)
                               \/ Call!Expire(c)
         \/ Call!CallTick
         \/ Call!CallBack
         \/ UNCHANGED callVars
<1>1. \A code \in {"OK", "NOT_REGISTERED", "GARBLED"} : Pong(code) \in Answer
  BY DEF Pong, Answer
<1>2. \A u \in UserId \cup {NoUserId} : Registered(u) \in Answer
  BY DEF Registered, Answer
<1>3. CASE Maintenance
  BY <1>3 DEF Maintenance, Receive, ReceiveNothing, NothingToAsk, SetIdFromPlayer,
     RegisterUnreadable, RegisterGivenUp, PlayerOffline, PlayerOnline, PlayerAsBefore,
     PingNotDue, PingReady, PongWithState, PongNotRegistered, NoPong, RegisterInPlayer,
     AlreadyRegistered, SendPing, Collected, Unreadable, Command, callVars
<1>4. CASE Environment
  <2>1. CASE ServePing
    <3>. DEFINE b == Pong(IF sentUserId \in registered THEN "OK" ELSE "NOT_REGISTERED")
    <3>1. b \in Answer
      BY <1>1
    <3>. HIDE DEF b
    <3>2. Call!Serve("ping", b)
      BY <2>1 DEF ServePing, b
    <3>. QED
      BY <3>1, <3>2 DEF Command
  <2>2. CASE ServeRegister
    BY <1>2, <2>2 DEF ServeRegister, Command
  <2>3. ASSUME NEW c \in Command, Fault(c) \/ Undeliverable(c)
        PROVE  Call!Lose(c) \/ \E b \in Answer : Call!Serve(c, b)
    BY <1>1, <1>2, <2>3 DEF Fault, Undeliverable
  <2>4. CASE PlayerCrashes \/ PlayerRestarts \/ ConnectionBreaks
    BY <2>4 DEF PlayerCrashes, PlayerRestarts, ConnectionBreaks
  <2>5. CASE ClockIsSet
    <3>1. CASE adjusted' = "forward" /\ ClockJump > 0 /\ Call!CallPass(ClockJump)
      BY <3>1, PassIsTick, SessionAssumption DEF SInv, TypeOK
    <3>2. CASE ClockBack > 0 /\ Call!CallPass(-ClockBack)
      BY <2>5, <3>2, SessionAssumption
         DEF ClockIsSet, SInv, TypeOK, ClockTypeOK, SetBack, Call!CallBack
    <3>. QED
      BY <2>5, <3>1, <3>2 DEF ClockIsSet
  <2>. QED
    BY <1>4, <2>1, <2>2, <2>3, <2>4, <2>5 DEF Environment
<1>5. CASE Tick
  BY <1>5, PassIsTick DEF Tick, SInv, TypeOK
<1>6. CASE UNCHANGED vars
  BY <1>6 DEF vars
<1>. QED
  BY <1>3, <1>4, <1>5, <1>6 DEF Next

LEMMA CallTypeStep ==
  ASSUME SInv, [Next]_vars  PROVE  Call!CallTypeOK'
BY CallStepsOnly, CallSteps DEF SInv, TypeOK

LEMMA NextInv == SInv /\ [Next]_vars => SInv'
BY CallTypeStep, ClientTypeOKStep, ClockTypeOKStep, PlayerTypeOKStep, AnsweredStep,
   LatchHoldsStep, PlayerKnowsOneIdStep, PingsCarryOurIdStep, HandlerHoldsOurIdStep
   DEF SInv, TypeOK

LEMMA Invariance == Safety => []SInv
BY InitInv, NextInv, PTL DEF Safety

-----------------------------------------------------------------------------
(* Type correctness of the client, the calls, the player and the clocks. *)
THEOREM TypeCorrect == Safety => []TypeOK
BY Invariance, PTL DEF SInv

(* The application never gets a handler with an id that is not the one the   *)
(* player gave to this client, and has one exactly while it was told online. *)
THEOREM HandlerIsOurs == Safety => []HandlerHoldsOurId
BY Invariance, PTL DEF SInv

(* Whatever is lost, garbled, late or restarted, the client registers once.  *)
THEOREM RegistrationIsUnique == Safety => []RegistersOnce
<1>1. SInv => RegistersOnce
  <2>. SUFFICES ASSUME SInv  PROVE RegistersOnce
    OBVIOUS
  <2>. USE DEF SInv, PlayerKnowsOneId
  <2>1. registered = {} => Cardinality(registered) = 0
    BY FS_EmptySet
  <2>2. ASSUME NEW u \in registered  PROVE Cardinality(registered) = 1
    <3>1. registered = {u}
      BY <2>2
    <3>. QED
      BY <3>1, FS_Singleton
  <2>3. Cardinality(registered) <= 1
    <3>1. Cardinality(registered) \in {0, 1}
      BY <2>1, <2>2
    <3>. QED
      BY <3>1
  <2>4. MayRegister => ~Call!IsPerforming("register") /\ commandsInProgress = {}
    BY DEF LatchHolds, MayRegister, Call!IsPerforming
  <2>. QED
    BY <2>3, <2>4 DEF RegistersOnce
<1>. QED
  BY <1>1, Invariance, PTL

(* Once the client has an id it keeps it: no late or second answer changes   *)
(* the id, though the player may have forgotten it since (setIdFromPlayer).  *)
THEOREM IdIsKept == Safety => [][clientUniqueId # InvalidId => clientUniqueId' = clientUniqueId]_vars
<1>1. SInv /\ [Next]_vars => (clientUniqueId # InvalidId => clientUniqueId' = clientUniqueId)
  <2>. SUFFICES ASSUME SInv, [Next]_vars, clientUniqueId # InvalidId
                PROVE  clientUniqueId' = clientUniqueId
    OBVIOUS
  <2>1. ~SetIdFromPlayer
    BY DEF SInv, LatchHolds, SetIdFromPlayer
  <2>. QED
    BY <2>1 DEF Next, Maintenance, Receive, ReceiveNothing, NothingToAsk, RegisterUnreadable,
       RegisterGivenUp, PlayerOffline, PlayerOnline, PlayerAsBefore, PingNotDue, PingReady,
       PongWithState, PongNotRegistered, NoPong, RegisterInPlayer, AlreadyRegistered, SendPing,
       Environment, ServePing, ServeRegister, Fault, PlayerCrashes, PlayerRestarts, ConnectionBreaks,
       Undeliverable, ClockIsSet, Tick, idVars, clientVars, vars
<1>. QED
  BY <1>1, Invariance, PTL DEF Safety

(* The session uses its two commands as asynchronous calls: it starts none   *)
(* that performs, and takes an answer only from the call that has one.  What *)
(* AmqpClient implements is what the session relies on, as long as nobody    *)
(* sets the clock back: AmqpClient implements the calls with ClockBack = 0.  *)
THEOREM SessionUsesCalls == Safety => Call!CallSafety
<1>1. Init => Call!CallInit
  BY DEF Init
<1>2. SInv /\ [Next]_vars => [Call!CallNext]_(Call!callVars)
  BY CallStepsOnly DEF Call!CallNext, Call!callVars, callVars
<1>. QED
  BY <1>1, <1>2, Invariance, PTL DEF Safety, Call!CallSafety

-----------------------------------------------------------------------------
(* Time. As long as nothing goes wrong, a player that is online is heard of  *)
(* before the pong timeout is over.                                          *)

(* Until the first fault.                                                    *)
Calm == faults = 0 /\ crashes = 0

(* Only a fault costs the connection or sets the clock, only a crash costs   *)
(* the player.                                                               *)
FaultsAreCounted == /\ faults = 0 => ~broken /\ adjusted = "no"
                    /\ crashes = 0 => up

(* The limits leave room for two pings that are looked at as late as the     *)
(* loop allows: the pong of a ping is collected when the next one is due,    *)
(* and if it is not there yet, when the next but one is.                     *)
InTime ==
    /\ NetDelay <= PingInterval
    /\ MaxLag <= PingInterval
    /\ 2 * PingInterval + 2 * MaxLag <= Expiration
    /\ 2 * PingInterval + 3 * MaxLag <= PongTimeout + 1

(* No ping is lost, garbled or late.                                         *)
PingIntact ==
    /\ ~timeouted["ping"]
    /\ call["ping"] # "lost"
    /\ call["ping"] = "idle" => age["ping"] = 0
    /\ call["ping"] = "requested" => age["ping"] <= NetDelay
    /\ call["ping"] \in {"replied", "ready"} => reply["ping"].code # "GARBLED"

(* The client has not had a pong.                                            *)
Unheard == ~onlinePlayer /\ pongAge > PongTimeout

(* The ping was sent when pingAge was set to zero ...                        *)
FirstInterval ==
    /\ pingAge = Older(age["ping"], PingInterval, 0)
    /\ age["ping"] <= PingInterval + lag

(* ... or pingAge was set to zero once more, because its pong was not there; *)
(* it is missed by one poll at most, which took the answer to the register   *)
(* command.                                                                  *)
SecondInterval ==
    /\ call["ping"] \in {"replied", "ready"}
    /\ pingAge <= PingInterval => age["ping"] <= PingInterval + MaxLag + pingAge
    /\ age["ping"] <= 2 * PingInterval + MaxLag + lag
    /\ call["ping"] = "replied" =>
        \/ pc = "poll" /\ pingAge <= lag
        \/ /\ pc = "poll" \/ pingAge <= lag
           /\ call["register"] \notin {"requested", "replied"}

Schedule ==
    /\ call["ping"] = "idle" => Unheard \/ (pc \in {"register", "exec"} /\ pongAge < lag)
    /\ call["ping"] # "idle" =>
        /\ pc \in {"poll", "commands", "monitor", "ping"}
        /\ FirstInterval \/ SecondInterval
        /\ pingAge > PingInterval => lag > 0
        /\ Unheard \/ pongAge < MaxLag + age["ping"]

CalmInv == Calm => PingIntact /\ Schedule /\ shown # "offline"
LEMMA CalmInitially == Init => FaultsAreCounted /\ CalmInv
<1>. SUFFICES ASSUME Init  PROVE FaultsAreCounted /\ CalmInv
  OBVIOUS
<1>1. FaultsAreCounted
  BY DEF Init, FaultsAreCounted
<1>2. PingIntact /\ Schedule
  BY SessionAssumption DEF Init, Call!CallInit, Command, PingIntact, Schedule, Unheard
<1>3. shown # "offline"
  BY DEF Init
<1>. QED
  BY <1>1, <1>2, <1>3 DEF CalmInv

(* The constants and the ages are numbers. *)
LEMMA Numbers ==
  ASSUME SInv
  PROVE  /\ PingInterval \in Nat /\ PongTimeout \in Nat /\ Expiration \in Nat
         /\ NetDelay \in Nat /\ MaxLag \in Nat
         /\ ClockBack \in Nat /\ SetBack \in {0, ClockBack}
         /\ pongAge \in Int /\ pongAge >= -SetBack /\ pongAge <= PongTimeout + ClockBack + 1
         /\ pingAge \in Int /\ pingAge >= -SetBack /\ pingAge <= PingInterval + ClockBack + 1
         /\ age \in [Command -> Int]
         /\ \A c \in Command : /\ age[c] \in Int /\ age[c] >= -SetBack
                               /\ age[c] <= Expiration + ClockBack + 1
         /\ age["ping"] \in Int /\ age["ping"] >= -SetBack
         /\ lag \in 0 .. MaxLag
         /\ faults \in Nat /\ crashes \in Nat
BY SessionAssumption DEF SetBack, SInv, TypeOK, ClockTypeOK, PlayerTypeOK, Call!CallTypeOK, Call!Age, Command

LEMMA CountedStep ==
  ASSUME SInv, FaultsAreCounted, [Next]_vars
  PROVE  FaultsAreCounted' /\ (Calm' => Calm)
<1>. USE Numbers DEF FaultsAreCounted, Calm
<1>1. ASSUME UNCHANGED <<up, broken, adjusted, faults, crashes>>
      PROVE  FaultsAreCounted' /\ (Calm' => Calm)
  BY <1>1
<1>2. CASE Maintenance
  <2>1. UNCHANGED <<up, broken, adjusted, faults, crashes>>
    BY <1>2, Zenon DEF Maintenance, Receive, ReceiveNothing, NothingToAsk, SetIdFromPlayer,
       RegisterUnreadable, RegisterGivenUp, PlayerOffline, PlayerOnline, PlayerAsBefore,
       PingNotDue, PingReady, PongWithState, PongNotRegistered, NoPong, RegisterInPlayer,
       AlreadyRegistered, SendPing, TurnOver, envVars
  <2>. QED
    BY <1>1, <2>1
<1>3. CASE ServePing \/ ServeRegister \/ (\E c \in Command : Undeliverable(c)) \/ Tick
           \/ UNCHANGED vars
  <2>1. UNCHANGED <<up, broken, adjusted, faults, crashes>>
    BY <1>3, Zenon DEF ServePing, ServeRegister, Undeliverable, Tick, envVars, vars
  <2>. QED
    BY <1>1, <2>1
<1>4. ASSUME NEW c \in Command, Fault(c)
      PROVE  FaultsAreCounted' /\ (Calm' => Calm)
  BY <1>4 DEF Fault
<1>5. CASE ConnectionBreaks \/ ClockIsSet
  BY <1>5 DEF ConnectionBreaks, ClockIsSet
<1>6. CASE PlayerCrashes
  BY <1>6 DEF PlayerCrashes
<1>7. CASE PlayerRestarts
  BY <1>7 DEF PlayerRestarts
<1>. QED
  BY <1>2, <1>3, <1>4, <1>5, <1>6, <1>7 DEF Next, Environment

(* What one calm step may assume and has to show. *)
CalmState == /\ SInv /\ InTime
             /\ up /\ ~broken /\ adjusted = "no"
             /\ PingIntact /\ Schedule /\ shown # "offline"

CalmGoal == PingIntact /\ Schedule /\ shown # "offline"

(* Until the clock is set no age is negative. *)
LEMMA CalmNumbers ==
  ASSUME CalmState
  PROVE  /\ PingInterval \in Nat /\ PongTimeout \in Nat /\ Expiration \in Nat
         /\ NetDelay \in Nat /\ MaxLag \in Nat /\ ClockBack \in Nat
         /\ pongAge \in Nat /\ pingAge \in Nat /\ lag \in 0 .. MaxLag
         /\ age \in [Command -> Nat] /\ age["ping"] \in Nat
         /\ pongAge <= PongTimeout + ClockBack + 1
         /\ pingAge <= PingInterval + ClockBack + 1
         /\ age["ping"] <= Expiration + ClockBack + 1
<1>1. SInv /\ SetBack = 0
  BY DEF CalmState, SetBack
<1>. QED
  BY <1>1, Numbers DEF Command

(* A step that leaves the ping and the clocks alone, and goes where a ping   *)
(* may be under way.                                                         *)
LEMMA PingLeftAlone ==
  ASSUME CalmState,
         UNCHANGED <<pongAge, pingAge, lag, onlinePlayer, shown>>,
         call'["ping"] = call["ping"], age'["ping"] = age["ping"],
         reply'["ping"] = reply["ping"], timeouted'["ping"] = timeouted["ping"],
         pc' \in {"poll", "commands", "monitor", "ping"},
         pc \in {"poll", "commands", "monitor", "ping"},
         pc = "poll" => \/ call["ping"] # "replied"
                        \/ pc' = "poll"
                        \/ /\ call["register"] = "replied"
                           /\ call'["register"] \notin {"requested", "replied"},
         call'["register"] \in {"requested", "replied"} =>
            call["register"] \in {"requested", "replied"},
         pc' = "poll" => pc = "poll"
  PROVE  CalmGoal'
<1>. USE DEF CalmState, CalmGoal
<1>1. PingIntact'
  BY DEF PingIntact
<1>2. Schedule'
  BY DEF Schedule, Unheard, FirstInterval, SecondInterval, Older
<1>. QED
  BY <1>1, <1>2

LEMMA CalmPoll ==
  ASSUME CalmState, Receive \/ ReceiveNothing
  PROVE  CalmGoal'
<1>. USE DEF CalmState, handlerVars, clockVars, callVars, envVars
<1>0. call \in [Command -> {"idle", "requested", "replied", "ready", "lost"}]
      /\ "ping" \in Command /\ "register" \in Command
  BY DEF SInv, TypeOK, Call!CallTypeOK, Command
<1>1. CASE ReceiveNothing
  BY <1>1, PingLeftAlone, <1>0 DEF ReceiveNothing, At, Goto
<1>2. ASSUME Receive, Call!Arrive("register")
      PROVE  CalmGoal'
  <2>1. call["register"] = "replied" /\ call'["register"] \in {"ready", "lost"}
        /\ call'["ping"] = call["ping"]
    BY <1>0, <1>2 DEF Call!Arrive
  <2>2. UNCHANGED <<age, reply, timeouted, pongAge, pingAge, lag, onlinePlayer, shown>>
        /\ pc = "poll" /\ pc' = "commands"
    BY <1>2 DEF Receive, Call!Arrive, At, Goto
  <2>. QED
    BY <2>1, <2>2, PingLeftAlone
<1>3. ASSUME Receive, Call!Arrive("ping")
      PROVE  CalmGoal'
  <2>1. call["ping"] = "replied" /\ call'["ping"] = "ready"
    BY <1>0, <1>3, AnswerAssumption DEF Call!Arrive, SInv, Answered
  <2>2. UNCHANGED <<age, reply, timeouted, pongAge, pingAge, lag, onlinePlayer, shown>>
        /\ pc = "poll" /\ pc' = "commands"
    BY <1>3 DEF Receive, Call!Arrive, At, Goto
  <2>3. PingIntact'
    BY <2>1, <2>2 DEF PingIntact
  <2>4. Schedule'
    BY <2>1, <2>2 DEF Schedule, Unheard, FirstInterval, SecondInterval, Older
  <2>. QED
    BY <2>2, <2>3, <2>4 DEF CalmGoal
<1>. QED
  BY <1>1, <1>2, <1>3 DEF Receive, Command

(* Steps of the register command and of the monitoring. *)
LEMMA CalmCommands ==
  ASSUME CalmState,
         NothingToAsk \/ SetIdFromPlayer \/ RegisterUnreadable \/ RegisterGivenUp \/ PlayerAsBefore
  PROVE  CalmGoal'
<1>. USE DEF CalmState, handlerVars, clockVars, callVars, envVars, At, Goto
<1>0. call \in [Command -> {"idle", "requested", "replied", "ready", "lost"}]
      /\ age \in [Command -> Nat] /\ reply \in [Command -> Answer \cup {Empty}]
      /\ timeouted \in [Command -> BOOLEAN]
      /\ "ping" \in Command /\ "register" \in Command
  BY CalmNumbers DEF SInv, TypeOK, Call!CallTypeOK, Command
<1>1. /\ UNCHANGED <<pongAge, pingAge, lag, onlinePlayer, shown>>
      /\ pc \in {"commands", "monitor"} /\ pc' \in {"monitor", "ping"}
  BY DEF NothingToAsk, SetIdFromPlayer, RegisterUnreadable, RegisterGivenUp, PlayerAsBefore
<1>2. CASE NothingToAsk \/ PlayerAsBefore
  BY <1>1, <1>2, PingLeftAlone DEF NothingToAsk, PlayerAsBefore
<1>3. CASE SetIdFromPlayer \/ RegisterUnreadable
  <2>1. Call!Collect("register")
    BY <1>3 DEF SetIdFromPlayer, RegisterUnreadable, Collected, Unreadable
  <2>2. /\ call'["ping"] = call["ping"] /\ age'["ping"] = age["ping"]
        /\ reply'["ping"] = reply["ping"] /\ timeouted'["ping"] = timeouted["ping"]
        /\ call'["register"] = "idle"
    BY <1>0, <2>1 DEF Call!Collect, Call!Settle
  <2>. QED
    BY <1>1, <2>2, PingLeftAlone
<1>4. CASE RegisterGivenUp
  <2>1. CASE Call!Expire("register")
    <3>1. /\ call'["ping"] = call["ping"] /\ age'["ping"] = age["ping"]
          /\ reply'["ping"] = reply["ping"] /\ timeouted'["ping"] = timeouted["ping"]
          /\ call'["register"] = "idle"
      BY <1>0, <2>1 DEF Call!Expire, Call!Settle
    <3>. QED
      BY <1>1, <3>1, PingLeftAlone
  <2>2. CASE UNCHANGED callVars
    BY <1>1, <2>2, PingLeftAlone
  <2>. QED
    BY <1>4, <2>1, <2>2 DEF RegisterGivenUp
<1>. QED
  BY <1>2, <1>3, <1>4

(* The pong is never too old for a player that is online. *)
LEMMA PongIsRecent ==
  ASSUME CalmState, pc \in {"poll", "commands", "monitor", "ping"}
  PROVE  /\ Unheard \/ pongAge <= PongTimeout
         /\ call["ping"] # "idle" => age["ping"] <= Expiration
         /\ call["ping"] = "idle" => Unheard
<1>. USE CalmNumbers DEF CalmState, Schedule, InTime
<1>1. CASE call["ping"] = "idle"
  BY <1>1
<1>2. CASE call["ping"] # "idle"
  BY <1>2 DEF FirstInterval, SecondInterval
<1>. QED
  BY <1>1, <1>2

LEMMA CalmMonitor ==
  ASSUME CalmState, PlayerOnline \/ PlayerOffline
  PROVE  CalmGoal'
<1>0. pc = "monitor" => Unheard \/ pongAge <= PongTimeout
  BY PongIsRecent
<1>. USE DEF CalmState, handlerVars, clockVars, callVars, envVars, At, Goto
<1>1. CASE PlayerOnline
  <2>1. PingIntact' /\ shown' # "offline"
    BY <1>1 DEF PlayerOnline, PingIntact
  <2>2. ~Unheard
    BY <1>1, CalmNumbers DEF PlayerOnline, Unheard
  <2>3. Schedule'
    BY <1>1, <2>2 DEF PlayerOnline, Schedule, FirstInterval, SecondInterval, Older
  <2>. QED
    BY <2>1, <2>3 DEF CalmGoal
<1>2. ~PlayerOffline
  <2>1. pongAge <= PongTimeout => ~(pongAge > PongTimeout)
    BY CalmNumbers
  <2>. QED
    BY <1>0, <2>1, Zenon DEF PlayerOffline, Unheard
<1>. QED
  BY <1>1, <1>2

(* The ping: a pong is collected when one is due, in the second interval at  *)
(* the latest.                                                               *)
LEMMA CalmPing ==
  ASSUME CalmState, PingNotDue \/ PingReady \/ PongWithState \/ PongNotRegistered \/ NoPong
  PROVE  CalmGoal'
<1>. USE DEF CalmState, handlerVars, clockVars, callVars, envVars, At, Goto
<1>0. call \in [Command -> {"idle", "requested", "replied", "ready", "lost"}]
      /\ age \in [Command -> Nat] /\ reply \in [Command -> Answer \cup {Empty}]
      /\ timeouted \in [Command -> BOOLEAN]
      /\ "ping" \in Command /\ "register" \in Command
  BY CalmNumbers DEF SInv, TypeOK, Call!CallTypeOK, Command
<1>p. pc = "ping"
  BY DEF PingNotDue, PingReady, PongWithState, PongNotRegistered, NoPong
<1>e. ~Call!Expired("ping") \/ call["ping"] = "idle"
  BY <1>p, PongIsRecent, CalmNumbers DEF Call!Expired
<1>1. CASE PingNotDue
  <2>1. PingIntact' /\ shown' # "offline"
    BY <1>1 DEF PingNotDue, PingIntact
  <2>2. /\ UNCHANGED <<call, age, pongAge, pingAge, onlinePlayer>>
        /\ lag' = 0 /\ pc' = "poll" /\ pingAge <= PingInterval
    BY <1>1, CalmNumbers DEF PingNotDue, TurnOver, PingDue
  <2>3. call["ping"] = "idle" => Unheard'
    BY <1>p, <2>2 DEF Schedule, Unheard
  <2>4. ASSUME call["ping"] # "idle", FirstInterval  PROVE FirstInterval'
    BY <2>2, <2>4, CalmNumbers DEF FirstInterval, Older
  <2>5. ASSUME call["ping"] # "idle", SecondInterval  PROVE SecondInterval'
    BY <1>p, <2>2, <2>5, CalmNumbers DEF SecondInterval, InTime
  <2>6. Schedule'
    BY <2>2, <2>3, <2>4, <2>5, CalmNumbers DEF Schedule, Unheard
  <2>. QED
    BY <2>1, <2>6 DEF CalmGoal
<1>2. CASE PingReady
  <2>1. call["ping"] = "idle" /\ UNCHANGED callVars
    BY <1>2, <1>e DEF PingReady, Pending, PingIntact, Call!Expire, Call!IsPerforming
  <2>2. UNCHANGED <<pongAge, pingAge, lag, onlinePlayer, shown>> /\ pc' = "exec"
    BY <1>2 DEF PingReady
  <2>3. PingIntact'
    BY <2>1 DEF PingIntact
  <2>4. Schedule'
    BY <1>p, <2>1, <2>2 DEF Schedule, Unheard
  <2>. QED
    BY <2>2, <2>3, <2>4 DEF CalmGoal
<1>3. CASE PongWithState \/ PongNotRegistered
  <2>1. Call!Collect("ping") /\ pongAge' = 0 /\ pc' \in {"register", "exec"} /\ lag' = lag
        /\ shown' \in {shown, "online"} /\ pingAge > PingInterval
    BY <1>3 DEF PongWithState, PongNotRegistered, Collected, UpdatePlayer, PingDue
  <2>2. call'["ping"] = "idle" /\ age'["ping"] = 0 /\ timeouted' = timeouted
    BY <1>0, <2>1 DEF Call!Collect, Call!Settle
  <2>3. PingIntact'
    BY <2>2 DEF PingIntact
  <2>4. lag > 0
    BY <2>1 DEF Schedule, Call!Collect
  <2>5. Schedule'
    BY <2>1, <2>2, <2>4 DEF Schedule
  <2>. QED
    BY <2>1, <2>3, <2>5 DEF CalmGoal
<1>4. CASE NoPong
  <2>1. Pending("ping") /\ UNCHANGED callVars /\ pingAge > PingInterval
    BY <1>4 DEF NoPong, Unreadable, Call!Collect, PingIntact, PingDue
  <2>2. pingAge' = 0 /\ lag' = 0 /\ pc' = "poll" /\ UNCHANGED <<pongAge, onlinePlayer, shown>>
    BY <1>4 DEF NoPong, TurnOver
  <2>3. call["ping"] \in {"requested", "replied"}
    BY <1>0, <2>1 DEF Pending, Call!IsPerforming, PingIntact
  <2>4. FirstInterval
    BY <1>p, <2>1, <2>3, CalmNumbers DEF Schedule, SecondInterval, InTime
  <2>5. call["ping"] = "replied" /\ age["ping"] <= PingInterval + MaxLag
    BY <2>1, <2>3, <2>4, CalmNumbers DEF FirstInterval, PingIntact, InTime, Older
  <2>6. SecondInterval'
    BY <2>1, <2>2, <2>5, CalmNumbers DEF SecondInterval
  <2>7. PingIntact'
    BY <2>1 DEF PingIntact
  <2>8. Schedule'
    BY <2>1, <2>2, <2>5, <2>6, CalmNumbers DEF Schedule, Unheard
  <2>. QED
    BY <2>2, <2>7, <2>8 DEF CalmGoal
<1>. QED
  BY <1>1, <1>2, <1>3, <1>4

(* The next ping is sent in the turn in which the pong was collected. *)
LEMMA CalmExec ==
  ASSUME CalmState, RegisterInPlayer \/ AlreadyRegistered \/ SendPing
  PROVE  CalmGoal'
<1>. USE DEF CalmState, handlerVars, clockVars, callVars, envVars, At, Goto
<1>0. call \in [Command -> {"idle", "requested", "replied", "ready", "lost"}]
      /\ timeouted \in [Command -> BOOLEAN]
      /\ "ping" \in Command /\ "register" \in Command
  BY DEF SInv, TypeOK, Call!CallTypeOK, Command
<1>1. call["ping"] = "idle" /\ (Unheard \/ pongAge < lag)
  BY DEF RegisterInPlayer, AlreadyRegistered, SendPing, Schedule
<1>2. CASE RegisterInPlayer \/ AlreadyRegistered
  <2>1. call'["ping"] = "idle" /\ age' = age /\ timeouted'["ping"] = timeouted["ping"]
    BY <1>0, <1>1, <1>2 DEF RegisterInPlayer, AlreadyRegistered, Call!Start
  <2>2. UNCHANGED <<pongAge, pingAge, lag, onlinePlayer, shown>> /\ pc' = "exec"
    BY <1>2 DEF RegisterInPlayer, AlreadyRegistered
  <2>3. PingIntact'
    BY <1>1, <2>1 DEF PingIntact
  <2>4. Schedule'
    BY <1>1, <2>1, <2>2 DEF Schedule, Unheard
  <2>. QED
    BY <2>2, <2>3, <2>4 DEF CalmGoal
<1>3. CASE SendPing
  <2>1. Call!Start("ping")
    BY <1>1, <1>3 DEF SendPing, Call!IsPerforming
  <2>2. call'["ping"] = "requested" /\ age' = age /\ ~timeouted'["ping"]
    BY <1>0, <2>1 DEF Call!Start, PingIntact
  <2>3. /\ pingAge' = 0 /\ lag' = 0 /\ pc' = "poll"
        /\ UNCHANGED <<pongAge, onlinePlayer, shown>>
    BY <1>3 DEF SendPing, TurnOver
  <2>4. age["ping"] = 0
    BY <1>1 DEF PingIntact
  <2>5. PingIntact'
    BY <2>2, <2>4, CalmNumbers DEF PingIntact
  <2>6. FirstInterval'
    BY <2>2, <2>3, <2>4, CalmNumbers DEF FirstInterval, Older
  <2>7. Schedule'
    BY <1>1, <2>2, <2>3, <2>4, <2>6, CalmNumbers DEF Schedule, Unheard
  <2>. QED
    BY <2>3, <2>5, <2>7 DEF CalmGoal
<1>. QED
  BY <1>2, <1>3

(* The player answers. *)
LEMMA CalmServe ==
  ASSUME CalmState, ServePing \/ ServeRegister
  PROVE  CalmGoal'
<1>. USE DEF CalmState, handlerVars, clockVars, callVars, envVars, clientVars
<1>0. call \in [Command -> {"idle", "requested", "replied", "ready", "lost"}]
      /\ reply \in [Command -> Answer \cup {Empty}]
      /\ "ping" \in Command /\ "register" \in Command
  BY DEF SInv, TypeOK, Call!CallTypeOK, Command
<1>1. UNCHANGED <<pc, pongAge, pingAge, lag, onlinePlayer, shown, age, timeouted>>
  BY DEF ServePing, ServeRegister, Call!Serve
<1>2. CASE ServePing
  <2>1. /\ call["ping"] = "requested" /\ call'["ping"] = "replied"
        /\ call'["register"] = call["register"]
        /\ reply'["ping"].code \in {"OK", "NOT_REGISTERED"}
    BY <1>0, <1>2 DEF ServePing, Call!Serve, Pong
  <2>2. FirstInterval
    BY <2>1 DEF Schedule, SecondInterval
  <2>3. FirstInterval'
    BY <1>1, <2>2 DEF FirstInterval, Older
  <2>4. PingIntact'
    BY <1>1, <2>1 DEF PingIntact
  <2>5. Schedule'
    BY <1>1, <2>1, <2>3 DEF Schedule, Unheard
  <2>. QED
    BY <1>1, <2>4, <2>5 DEF CalmGoal
<1>3. CASE ServeRegister
  <2>1. /\ call["register"] = "requested" /\ call'["register"] = "replied"
        /\ call'["ping"] = call["ping"] /\ reply'["ping"] = reply["ping"]
    BY <1>0, <1>3 DEF ServeRegister, Call!Serve
  <2>2. PingIntact'
    BY <1>1, <2>1 DEF PingIntact
  <2>3. SecondInterval => SecondInterval'
    BY <1>1, <2>1 DEF SecondInterval
  <2>4. FirstInterval => FirstInterval'
    BY <1>1 DEF FirstInterval, Older
  <2>5. Schedule'
    BY <1>1, <2>1, <2>3, <2>4 DEF Schedule, Unheard
  <2>. QED
    BY <1>1, <2>2, <2>5 DEF CalmGoal
<1>. QED
  BY <1>2, <1>3

(* Time passes. *)
LEMMA CalmTick ==
  ASSUME CalmState, Tick
  PROVE  CalmGoal'
<1>. USE DEF CalmState, handlerVars, Tick
<1>0. /\ call' = call /\ reply' = reply /\ timeouted' = timeouted /\ lag' = lag + 1
      /\ UNCHANGED <<pc, onlinePlayer, shown>>
      /\ "ping" \in Command
  BY DEF Call!CallPass, Command
<1>1. call["ping"] = "idle" => age'["ping"] = age["ping"]
  BY <1>0 DEF Call!CallPass, Call!IsPerforming
<1>2. call["ping"] # "idle" => age'["ping"] = Call!Older(age["ping"], 1)
  BY <1>0 DEF Call!CallPass, Call!IsPerforming
<1>3. /\ pongAge' = Older(pongAge, PongTimeout, 1)
      /\ pingAge' = Older(pingAge, PingInterval, 1)
  BY DEF Pass
<1>4. /\ pongAge' \in Nat /\ pongAge' <= pongAge + 1
      /\ pingAge' = IF pingAge < PingInterval + ClockBack + 1
                     THEN pingAge + 1 ELSE PingInterval + ClockBack + 1
  BY <1>3, CalmNumbers DEF Older
<1>5. ASSUME call["ping"] # "idle", age["ping"] <= Expiration
      PROVE  age'["ping"] = age["ping"] + 1
  <2>. DEFINE a == age["ping"]
  <2>1. age'["ping"] = Call!Older(a, 1)
    BY <1>2, <1>5
  <2>2. a \in Nat /\ a <= Expiration /\ Expiration \in Nat /\ ClockBack \in Nat
    BY <1>5, CalmNumbers
  <2>. HIDE DEF a
  <2>3. Call!Older(a, 1) = a + 1
    BY <2>2 DEF Call!Older
  <2>. QED
    BY <2>1, <2>3 DEF a
<1>6. Unheard => Unheard'
  BY <1>0, <1>3, CalmNumbers DEF Unheard, Older
<1>7. PingIntact'
  <2>1. call["ping"] = "requested" => age["ping"] < NetDelay
    BY <1>0 DEF Reachable
  <2>2. call["ping"] = "requested" => age'["ping"] <= NetDelay
    BY <1>2, <2>1, CalmNumbers, SMTT(30) DEF Call!Older
  <2>. QED
    BY <1>0, <1>1, <2>2 DEF PingIntact
<1>8. Schedule'
  <2>1. CASE call["ping"] = "idle"
    BY <1>0, <1>4, <1>6, <2>1, CalmNumbers DEF Schedule
  <2>2. CASE call["ping"] # "idle"
    <3>1. age["ping"] <= Expiration
      BY <2>2, PongIsRecent DEF Schedule
    <3>2. age'["ping"] = age["ping"] + 1
      BY <1>5, <2>2, <3>1, CalmNumbers
    <3>3. FirstInterval => FirstInterval'
      BY <1>0, <1>3, <3>2, CalmNumbers DEF FirstInterval, Older
    <3>4. SecondInterval => SecondInterval'
      BY <1>0, <1>4, <3>2, CalmNumbers DEF SecondInterval
    <3>. QED
      BY <1>0, <1>4, <1>6, <2>2, <3>2, <3>3, <3>4, CalmNumbers DEF Schedule
  <2>. QED
    BY <2>1, <2>2
<1>. QED
  BY <1>0, <1>7, <1>8 DEF CalmGoal

LEMMA CalmStep ==
  ASSUME SInv, InTime, FaultsAreCounted, CalmInv, [Next]_vars
  PROVE  CalmInv'
<1>. SUFFICES ASSUME Calm'  PROVE CalmGoal'
  BY DEF CalmInv, CalmGoal
<1>1. Calm /\ FaultsAreCounted'
  BY CountedStep
<1>2. CalmState
  BY <1>1 DEF CalmState, CalmInv, FaultsAreCounted, Calm
<1>3. CASE Maintenance
  BY <1>2, <1>3, CalmPoll, CalmCommands, CalmMonitor, CalmPing, CalmExec DEF Maintenance
<1>4. CASE ServePing \/ ServeRegister \/ Tick
  BY <1>2, <1>4, CalmServe, CalmTick
<1>5. ~(\E c \in Command : Fault(c)) /\ ~PlayerCrashes /\ ~ConnectionBreaks /\ ~ClockIsSet
  BY <1>1, Numbers DEF Calm, Fault, PlayerCrashes, ConnectionBreaks, ClockIsSet
<1>6. ~(\E c \in Command : Undeliverable(c)) /\ ~PlayerRestarts
  BY <1>2 DEF CalmState, Undeliverable, PlayerRestarts, Reachable
<1>7. CASE UNCHANGED vars
  <2>1. CalmGoal
    BY <1>2 DEF CalmState, CalmGoal
  <2>. QED
    BY <1>7, <2>1 DEF vars, clientVars, idVars, handlerVars, clockVars, callVars, envVars,
       CalmGoal, PingIntact, Schedule, Unheard, FirstInterval, SecondInterval, Older
<1>. QED
  BY <1>3, <1>4, <1>5, <1>6, <1>7 DEF Next, Environment

(* With the time limits of the code (pings every second, pongs for five,     *)
(* requests for ten; dss_client.cpp:25-26, 353), a player that answers in a  *)
(* second and a loop whose turns take no more than one, the player is never  *)
(* declared offline without a lost or garbled message, a lost connection, a  *)
(* clock that was set or a crash; the limits may be any that InTime allows.  *)
THEOREM NoFalseAlarm == ASSUME InTime  PROVE Safety => []OfflineHasCause
<1>1. Init => FaultsAreCounted /\ CalmInv
  BY CalmInitially
<1>2. SInv /\ FaultsAreCounted /\ CalmInv /\ [Next]_vars => FaultsAreCounted' /\ CalmInv'
  BY CountedStep, CalmStep
<1>3. SInv /\ CalmInv => OfflineHasCause
  BY Numbers DEF CalmInv, Calm, OfflineHasCause
<1>. QED
  BY <1>1, <1>2, <1>3, Invariance, PTL DEF Safety
=============================================================================
