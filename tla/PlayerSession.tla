---------------------------- MODULE PlayerSession ----------------------------
(***************************************************************************)
(* The session of the client with the player: the maintenance thread of    *)
(* dss_client.cpp (poll, commandsProcessing, remoteServicesMonitoring,     *)
(* ping), the registration, and the player handler that the application is *)
(* given while the player is online.                                       *)
(*                                                                         *)
(* The ping and the register command are two asynchronous calls of         *)
(* AsyncCall.  Time is counted in ticks.  The code compares differences of *)
(* times with limits, so each moment is kept as the ticks since it, by the *)
(* clock, cut off above the limit it is compared with.  The clock is the   *)
(* time of day, which may be set, forward or back.                         *)
(***************************************************************************)
EXTENDS Integers, FiniteSets

CONSTANTS
    UserId,         \* the ids that the player gives to clients
    InvalidId,      \* INVALID_CLIENT_ID, and the unset id of the first pings
    NoUserId,       \* the empty id of an answer that has no user_id
    NoHandler,      \* no player handler
    Empty,          \* see AsyncCall
    PingInterval,   \* PING_INTERVAL_MILLISEC, in ticks
    PongTimeout,    \* PONG_TIMEOUT_MILLISEC, in ticks
    Expiration,     \* deliveredMessageExpirationSec, in ticks
    NetDelay,       \* a player that is up answers within so many ticks
    MaxLag,         \* ticks that one turn of the maintenance loop may take
    Fragile,        \* the commands whose messages may be lost or garbled
    ClockJump,      \* ticks that the clock may be set forward by, 0 for never
    ClockBack,      \* ticks that the clock may be set back by, 0 for never
    MaxFault,       \* bound on what is lost or garbled and on clock changes
    MaxCrash,       \* bound on crashes of the player
    Forgets,        \* whether a crash may cost the player its registrations
    Breakable       \* whether the connections to the AMQP server may break

ASSUME SessionAssumption ==
    /\ InvalidId \notin UserId
    /\ NoUserId \notin UserId \cup {InvalidId}
    /\ NoHandler \notin UserId \cup {InvalidId, NoUserId}
    /\ PingInterval \in Nat
    /\ PongTimeout \in Nat
    /\ Expiration \in Nat
    /\ NetDelay \in Nat
    /\ MaxLag \in Nat
    /\ Fragile \subseteq {"ping", "register"}
    /\ ClockJump \in Nat
    /\ ClockBack \in Nat
    /\ MaxFault \in Nat
    /\ MaxCrash \in Nat
    /\ Forgets \in BOOLEAN
    /\ Breakable \in BOOLEAN

Command == {"ping", "register"}

(* Answers of the player: the code of a pong (OK or NOT_REGISTERED), the id  *)
(* of a registration, which may be missing, or something the JSON reader     *)
(* rejects.                                                                  *)
Answer == [code : {"OK", "NOT_REGISTERED", "GARBLED"}, id : UserId \cup {InvalidId, NoUserId}]

ASSUME AnswerAssumption == Empty \notin Answer

Pong(code)    == [code |-> code, id |-> InvalidId]
Registered(u) == [code |-> "OK", id |-> u]

VARIABLES
    pc,                 \* where the maintenance thread is
    clientUniqueId,     \* clientUniqueIdForPlayer
    pingUserId,         \* commandPingToPlayer->m_userIdToPlayer
    sentUserId,         \* the user_id in the last ping
    registrationInProgress,
    commandsInProgress, \* the commands the thread asks isReady of
    onlinePlayer,
    playerHandler,      \* NoHandler, or the user id of the handler
    pongAge,            \* the clock's ticks since lastPlayerPongMillisec
    pingAge,            \* the clock's ticks since lastPingAtMillisec
    call, age, reply, timeouted,    \* the calls, see AsyncCall
    shown,              \* history: the last m_signalPlayerOnline
    up, registered,     \* the player: whether it runs, the ids it knows
    broken,             \* the connections to the AMQP server are lost
    adjusted,           \* whether the clock has been set, and where to
    lag,                \* ticks since the turn of the loop began
    faults, crashes     \* counters of the faults so far

Call == INSTANCE AsyncCall WITH Request <- Command, Reused <- {"ping"}, Droppable <- {},
                                Body <- Answer

idVars      == <<clientUniqueId, pingUserId, registrationInProgress, commandsInProgress>>
handlerVars == <<playerHandler, shown>>
clockVars   == <<pongAge, pingAge>>
callVars    == <<call, age, reply, timeouted>>
envVars     == <<up, registered, broken, adjusted, lag, faults, crashes>>
clientVars  == <<pc, idVars, sentUserId, onlinePlayer, handlerVars, clockVars>>
vars        == <<clientVars, callVars, envVars>>

ClientTypeOK ==
    /\ pc \in {"poll", "commands", "monitor", "ping", "register", "exec"}
    /\ clientUniqueId \in UserId \cup {InvalidId, NoUserId}
    /\ pingUserId \in UserId \cup {InvalidId, NoUserId}
    /\ sentUserId \in UserId \cup {InvalidId, NoUserId}
    /\ registrationInProgress \in BOOLEAN
    /\ commandsInProgress \in SUBSET {"register"}
    /\ onlinePlayer \in BOOLEAN
    /\ playerHandler \in UserId \cup {InvalidId, NoUserId, NoHandler}
    /\ shown \in {"never", "online", "offline"}

(* The ticks that the clock was set back by.                                 *)
SetBack == IF adjusted = "back" THEN ClockBack ELSE 0

(* Only the ages of a clock that was set back are negative.                  *)
ClockTypeOK ==
    /\ pongAge \in -SetBack .. PongTimeout + ClockBack + 1
    /\ pingAge \in -SetBack .. PingInterval + ClockBack + 1
    /\ \A c \in Command : age[c] >= -SetBack
    /\ lag \in 0 .. MaxLag

PlayerTypeOK ==
    /\ up \in BOOLEAN
    /\ registered \in SUBSET UserId
    /\ broken \in BOOLEAN
    /\ adjusted \in {"no", "forward", "back"}
    /\ faults \in 0 .. MaxFault
    /\ crashes \in 0 .. MaxCrash

TypeOK == ClientTypeOK /\ ClockTypeOK /\ PlayerTypeOK /\ Call!CallTypeOK

(* lastPlayerPongMillisec starts at the epoch.  lastPingAtMillisec does so   *)
(* only in the first instance of the process: it is a static of a function   *)
(* and keeps the last ping of the instance before.                           *)
Init ==
    /\ pc = "poll"
    /\ clientUniqueId = InvalidId
    /\ pingUserId = InvalidId
    /\ sentUserId = InvalidId
    /\ registrationInProgress = FALSE
    /\ commandsInProgress = {}
    /\ onlinePlayer = FALSE
    /\ playerHandler = NoHandler
    /\ pongAge = PongTimeout + ClockBack + 1
    /\ pingAge \in 0 .. PingInterval + ClockBack + 1
    /\ Call!CallInit
    /\ shown = "never"
    /\ up = TRUE
    /\ registered = {}
    /\ broken = FALSE
    /\ adjusted = "no"
    /\ lag = 0
    /\ faults = 0
    /\ crashes = 0

-----------------------------------------------------------------------------
(* Definitions named Bad... hold one plausible mistake each and are used by  *)
(* no behaviour; each stands before the definition it would replace.         *)

At(l)    == pc = l
Goto(l)  == pc' = l

(* An age is counted as far above its limit as the clock can be set back.    *)
Older(a, limit, d) ==
    IF a + d > limit + ClockBack THEN limit + ClockBack + 1 ELSE a + d

(* A response of a command: collected from the call, and what it is.         *)
Collected(c)  == Call!Collect(c) /\ reply[c].code # "GARBLED"
Unreadable(c) == Call!Collect(c) /\ reply[c].code = "GARBLED"

(* checkResponseReadyness is false and the time is not over.                 *)
Pending(c) == /\ Call!IsPerforming(c)
              /\ ~Call!Expired(c)
              /\ call[c] # "ready"

-----------------------------------------------------------------------------
(* runNetworkCallbacks: one message, or the poll timeout.  poll is silent     *)
(* about any error of the connection: to the loop it is a turn without a     *)
(* message, and nothing connects again.                                      *)
Receive ==
    /\ At("poll")
    /\ \E c \in Command : Call!Arrive(c)
    /\ Goto("commands")
    /\ UNCHANGED <<idVars, sentUserId, onlinePlayer, handlerVars, clockVars, envVars>>

ReceiveNothing ==
    /\ At("poll")
    /\ broken \/ \A c \in Command : call[c] # "replied"
    /\ Goto("commands")
    /\ UNCHANGED <<idVars, sentUserId, onlinePlayer, handlerVars, clockVars, callVars, envVars>>

-----------------------------------------------------------------------------
(* commandsProcessing: isReady of the register command, if there is one.     *)
NothingToAsk ==
    /\ At("commands")
    /\ "register" \in commandsInProgress => Pending("register")
    /\ Goto("monitor")
    /\ UNCHANGED <<idVars, sentUserId, onlinePlayer, handlerVars, clockVars, callVars, envVars>>

\* The ping goes on with the id it had.
BadSetIdFromPlayer ==
    /\ At("commands")
    /\ "register" \in commandsInProgress
    /\ Collected("register")
    /\ clientUniqueId' = reply["register"].id
    /\ registrationInProgress' = FALSE
    /\ commandsInProgress' = {}
    /\ Goto("monitor")
    /\ UNCHANGED <<pingUserId, sentUserId, onlinePlayer, handlerVars, clockVars, envVars>>

(* Its answer: setIdFromPlayer, and the command leaves the container.        *)
SetIdFromPlayer ==
    /\ At("commands")
    /\ "register" \in commandsInProgress
    /\ Collected("register")
    /\ clientUniqueId' = reply["register"].id
    /\ pingUserId' = reply["register"].id
    /\ registrationInProgress' = FALSE
    /\ commandsInProgress' = {}
    /\ Goto("monitor")
    /\ UNCHANGED <<sentUserId, onlinePlayer, handlerVars, clockVars, envVars>>

(* An answer that cannot be parsed: isReady returns false, the command stays *)
(* although its request performs no longer.                                  *)
RegisterUnreadable ==
    /\ At("commands")
    /\ "register" \in commandsInProgress
    /\ Unreadable("register")
    /\ Goto("monitor")
    /\ UNCHANGED <<idVars, sentUserId, onlinePlayer, handlerVars, clockVars, envVars>>

(* isReady returns true without an answer, because the request has just      *)
(* timed out or performs no longer: the command is erased, the registration  *)
(* stays in progress.                                                        *)
RegisterGivenUp ==
    /\ At("commands")
    /\ "register" \in commandsInProgress
    /\ \/ Call!Expire("register")
       \/ ~Call!IsPerforming("register") /\ UNCHANGED callVars
    /\ commandsInProgress' = {}
    /\ Goto("monitor")
    /\ UNCHANGED <<clientUniqueId, pingUserId, registrationInProgress, sentUserId, onlinePlayer,
                   handlerVars, clockVars, envVars>>

-----------------------------------------------------------------------------
(* remoteServicesMonitoring.                                                 *)
\* The handler survives the player.
BadPlayerOffline ==
    /\ At("monitor")
    /\ onlinePlayer
    /\ pongAge > PongTimeout
    /\ onlinePlayer' = FALSE
    /\ shown' = "offline"
    /\ Goto("ping")
    /\ UNCHANGED <<playerHandler, idVars, sentUserId, clockVars, callVars, envVars>>

PlayerOffline ==
    /\ At("monitor")
    /\ onlinePlayer
    /\ pongAge > PongTimeout
    /\ onlinePlayer' = FALSE
    /\ shown' = "offline"
    /\ playerHandler' = NoHandler
    /\ Goto("ping")
    /\ UNCHANGED <<idVars, sentUserId, clockVars, callVars, envVars>>

PlayerOnline ==
    /\ At("monitor")
    /\ ~onlinePlayer
    /\ pongAge < PongTimeout
    /\ onlinePlayer' = TRUE
    /\ Goto("ping")
    /\ UNCHANGED <<idVars, sentUserId, handlerVars, clockVars, callVars, envVars>>

PlayerAsBefore ==
    /\ At("monitor")
    /\ IF onlinePlayer THEN pongAge <= PongTimeout ELSE pongAge >= PongTimeout
    /\ Goto("ping")
    /\ UNCHANGED <<idVars, sentUserId, onlinePlayer, handlerVars, clockVars, callVars, envVars>>

-----------------------------------------------------------------------------
(* ping.  The pong of a ping is looked at when the next one is due.          *)
BadPingDue == -pingAge > PingInterval      \* the last ping minus now
PingDue    == pingAge > PingInterval

TurnOver == /\ Goto("poll")
            /\ lag' = 0
            /\ UNCHANGED <<up, registered, broken, adjusted, faults, crashes>>

PingNotDue ==
    /\ At("ping")
    /\ ~PingDue
    /\ TurnOver
    /\ UNCHANGED <<idVars, sentUserId, onlinePlayer, handlerVars, clockVars, callVars>>

(* isReady without an answer: the request performs no longer, times out now, *)
(* or timed out once before (m_timeouted is never reset).                    *)
PingReady ==
    /\ At("ping")
    /\ PingDue
    /\ \/ Call!Expire("ping")
       \/ ~Call!IsPerforming("ping") /\ UNCHANGED callVars
       \/ Pending("ping") /\ timeouted["ping"] /\ UNCHANGED callVars
    /\ Goto("exec")
    /\ UNCHANGED <<idVars, sentUserId, onlinePlayer, handlerVars, clockVars, envVars>>

(* updatePlayer with a state; readState always has one.                      *)
UpdatePlayer ==
    IF playerHandler = NoHandler
    THEN playerHandler' = clientUniqueId /\ shown' = "online"
    ELSE UNCHANGED handlerVars

\* The handler is made of any pong.
BadPongWithState ==
    /\ At("ping")
    /\ PingDue
    /\ Collected("ping")
    /\ pongAge' = 0
    /\ UpdatePlayer
    /\ Goto("exec")
    /\ UNCHANGED <<idVars, sentUserId, onlinePlayer, pingAge, envVars>>

\* Only the first pong is dated.
BadPongWithStateOnce ==
    /\ At("ping")
    /\ PingDue
    /\ Collected("ping")
    /\ reply["ping"].code # "NOT_REGISTERED"
    /\ pongAge' = IF playerHandler = NoHandler THEN 0 ELSE pongAge
    /\ UpdatePlayer
    /\ Goto("exec")
    /\ UNCHANGED <<idVars, sentUserId, onlinePlayer, pingAge, envVars>>

(* A pong of a player that knows this client.                                *)
PongWithState ==
    /\ At("ping")
    /\ PingDue
    /\ Collected("ping")
    /\ reply["ping"].code # "NOT_REGISTERED"
    /\ pongAge' = 0
    /\ UpdatePlayer
    /\ Goto("exec")
    /\ UNCHANGED <<idVars, sentUserId, onlinePlayer, pingAge, envVars>>

(* A pong of a player that does not.                                         *)
PongNotRegistered ==
    /\ At("ping")
    /\ PingDue
    /\ Collected("ping")
    /\ reply["ping"].code = "NOT_REGISTERED"
    /\ pongAge' = 0
    /\ Goto("register")
    /\ UNCHANGED <<idVars, sentUserId, onlinePlayer, handlerVars, pingAge, envVars>>

(* No exec in this turn: the answer cannot be parsed, or there is none yet.  *)
NoPong ==
    /\ At("ping")
    /\ PingDue
    /\ \/ Unreadable("ping")
       \/ Pending("ping") /\ ~timeouted["ping"] /\ UNCHANGED callVars
    /\ pingAge' = 0
    /\ TurnOver
    /\ UNCHANGED <<idVars, sentUserId, onlinePlayer, handlerVars, pongAge>>

\* The latch is forgotten.
BadMayRegister == clientUniqueId = InvalidId

MayRegister == clientUniqueId = InvalidId /\ ~registrationInProgress

\* The command is sent but not put in the container.
BadRegisterInPlayer ==
    /\ At("register")
    /\ MayRegister
    /\ registrationInProgress' = TRUE
    /\ Call!Start("register")
    /\ Goto("exec")
    /\ UNCHANGED <<clientUniqueId, pingUserId, sentUserId, commandsInProgress, onlinePlayer,
                   handlerVars, clockVars, envVars>>

RegisterInPlayer ==
    /\ At("register")
    /\ MayRegister
    /\ registrationInProgress' = TRUE
    /\ Call!Start("register")
    /\ commandsInProgress' = commandsInProgress \cup {"register"}
    /\ Goto("exec")
    /\ UNCHANGED <<clientUniqueId, pingUserId, sentUserId, onlinePlayer, handlerVars, clockVars,
                   envVars>>

AlreadyRegistered ==
    /\ At("register")
    /\ ~MayRegister
    /\ Goto("exec")
    /\ UNCHANGED <<idVars, sentUserId, onlinePlayer, handlerVars, clockVars, callVars, envVars>>

\* The ping is handed to commandsProcessing as well.
BadSendPing ==
    /\ At("exec")
    /\ \/ Call!Start("ping") /\ sentUserId' = pingUserId
       \/ Call!IsPerforming("ping") /\ UNCHANGED <<callVars, sentUserId>>
    /\ commandsInProgress' = commandsInProgress \cup {"ping"}
    /\ pingAge' = 0
    /\ TurnOver
    /\ UNCHANGED <<clientUniqueId, pingUserId, registrationInProgress, onlinePlayer, handlerVars,
                   pongAge>>

(* execAsync, refused for a request that still performs.                     *)
SendPing ==
    /\ At("exec")
    /\ \/ Call!Start("ping") /\ sentUserId' = pingUserId
       \/ Call!IsPerforming("ping") /\ UNCHANGED <<callVars, sentUserId>>
    /\ pingAge' = 0
    /\ TurnOver
    /\ UNCHANGED <<idVars, onlinePlayer, handlerVars, pongAge>>

Maintenance ==
    \/ Receive \/ ReceiveNothing
    \/ NothingToAsk \/ SetIdFromPlayer \/ RegisterUnreadable \/ RegisterGivenUp
    \/ PlayerOffline \/ PlayerOnline \/ PlayerAsBefore
    \/ PingNotDue \/ PingReady \/ PongWithState \/ PongNotRegistered \/ NoPong
    \/ RegisterInPlayer \/ AlreadyRegistered
    \/ SendPing

-----------------------------------------------------------------------------
(* The player and the broker.  What a player answers to a ping tells whether *)
(* it knows the id in the ping (cmd_player_ping.cpp, line 78).               *)
Reachable == up /\ ~broken

ServePing ==
    /\ Reachable
    /\ Call!Serve("ping", Pong(IF sentUserId \in registered THEN "OK" ELSE "NOT_REGISTERED"))
    /\ UNCHANGED <<clientVars, envVars>>

ServeRegister ==
    /\ Reachable
    /\ \E u \in UserId \ registered :
        /\ Call!Serve("register", Registered(u))
        /\ registered' = registered \cup {u}
    /\ UNCHANGED <<clientVars, up, broken, adjusted, lag, faults, crashes>>

(* A message is lost, an answer garbled, or the answer to a register command *)
(* has no user_id, which the client takes for an empty one.  Without a       *)
(* connection there is nothing to lose: Undeliverable.                       *)
Fault(c) ==
    /\ c \in Fragile
    /\ ~broken
    /\ faults < MaxFault
    /\ faults' = faults + 1
    /\ \/ Call!Lose(c)
       \/ up /\ Call!Serve(c, Pong("GARBLED"))
       \/ c = "register" /\ up /\ Call!Serve(c, Registered(NoUserId))
    /\ UNCHANGED <<clientVars, up, registered, broken, adjusted, lag, crashes>>

(* What a player does that cannot be reached is seen by nobody.              *)
PlayerCrashes ==
    /\ Reachable
    /\ crashes < MaxCrash
    /\ crashes' = crashes + 1
    /\ up' = FALSE
    /\ \/ UNCHANGED registered
       \/ Forgets /\ registered' = {}
    /\ UNCHANGED <<clientVars, callVars, broken, adjusted, lag, faults>>

PlayerRestarts ==
    /\ ~up
    /\ up' = TRUE
    /\ UNCHANGED <<clientVars, callVars, registered, broken, adjusted, lag, faults, crashes>>

(* Publishing fails from now on, which execAsync does not notice; an answer  *)
(* that is on its way may still arrive.                                      *)
ConnectionBreaks ==
    /\ Breakable
    /\ ~broken
    /\ faults < MaxFault
    /\ faults' = faults + 1
    /\ broken' = TRUE
    /\ UNCHANGED <<clientVars, callVars, up, registered, adjusted, lag, crashes>>

(* A request that finds no player may wait for it or be dropped.             *)
Undeliverable(c) ==
    /\ ~Reachable
    /\ call[c] = "requested"
    /\ Call!Lose(c)
    /\ UNCHANGED <<clientVars, envVars>>

(* Every moment is d ticks further away, by the clock.                       *)
Pass(d) ==
    /\ pongAge' = Older(pongAge, PongTimeout, d)
    /\ pingAge' = Older(pingAge, PingInterval, d)

(* getCurrentTimeMillisec is the time of day, which may be set.              *)
ClockIsSet ==
    /\ adjusted = "no"
    /\ faults < MaxFault
    /\ faults' = faults + 1
    /\ \/ /\ ClockJump > 0
          /\ adjusted' = "forward"
          /\ Pass(ClockJump)
          /\ Call!CallPass(ClockJump)
       \/ /\ ClockBack > 0
          /\ adjusted' = "back"
          /\ Pass(-ClockBack)
          /\ Call!CallPass(-ClockBack)
    /\ UNCHANGED <<pc, idVars, sentUserId, onlinePlayer, handlerVars, up, registered, broken,
                   lag, crashes>>

(* Time does not pass a player that has to answer, nor a turn of the loop    *)
(* that took MaxLag already.                                                 *)
Tick ==
    /\ lag < MaxLag
    /\ \A c \in Command : Reachable /\ call[c] = "requested" => age[c] < NetDelay
    /\ lag' = lag + 1
    /\ Pass(1)
    /\ Call!CallPass(1)
    /\ UNCHANGED <<pc, idVars, sentUserId, onlinePlayer, handlerVars, up, registered, broken,
                   adjusted, faults, crashes>>

Environment ==
    \/ ServePing \/ ServeRegister
    \/ \E c \in Command : Fault(c) \/ Undeliverable(c)
    \/ PlayerCrashes \/ PlayerRestarts \/ ConnectionBreaks \/ ClockIsSet

Next == Maintenance \/ Environment \/ Tick

(* The loop of the maintenance thread never waits for anybody, time passes,  *)
(* and a player that is up answers.                                          *)
Fairness ==
    /\ WF_vars(Maintenance)
    /\ WF_vars(Tick)
    /\ WF_vars(ServePing)
    /\ WF_vars(ServeRegister)

Safety == Init /\ [][Next]_vars
Spec   == Safety /\ Fairness

-----------------------------------------------------------------------------
(* Properties *)

(* The handler that the application uses carries the id that the player gave *)
(* to this client, never the invalid one, and is there exactly while the     *)
(* last signal said online (updatePlayer, lines 240-263).                    *)
HandlerHoldsOurId ==
    /\ playerHandler # NoHandler => playerHandler = clientUniqueId /\ playerHandler \in UserId
    /\ playerHandler # NoHandler <=> shown = "online"

(* However pongs, register answers, faults and restarts interleave, the      *)
(* client registers once: the player never knows it under two ids, and a     *)
(* command is never started while it performs (registerInPlayer, line 215).  *)
RegistersOnce ==
    /\ Cardinality(registered) <= 1
    /\ clientUniqueId \in UserId => registered \subseteq {clientUniqueId}
    /\ At("register") /\ MayRegister => ~Call!IsPerforming("register") /\ commandsInProgress = {}

(* "the client only show system's state" (dss_client.h:14): as long as no    *)
(* message is lost, the time limits of ping, pong and expiration do not make *)
(* a player that is up look dead (dss_client.cpp:125-172).                   *)
OfflineHasCause == shown = "offline" => crashes > 0 \/ faults > 0

(* "the only reason a client can prohibit something by itself - it's         *)
(* connection absence to server" (dss_client.h:13): if the player stays up,  *)
(* the application has a handler that the player knows.                      *)
LivePlayerServed == <>[]Reachable => <>[](playerHandler \in registered)

(* A client whose first exchange with the player is not disturbed registers  *)
(* and has a handler that the player knows, and keeps it.                    *)
UndisturbedClientServed == [](Reachable /\ faults = 0) => <>[](playerHandler \in registered)
=============================================================================
