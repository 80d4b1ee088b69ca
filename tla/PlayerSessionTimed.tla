------------------------- MODULE PlayerSessionTimed -------------------------
(***************************************************************************)
(* PlayerSession with four stop watches: how long the player has been      *)
(* silent, how long the client has not asked it, how long nothing has      *)
(* disturbed the two, and how long an undisturbed client has been without  *)
(* an id.  They observe the session and never hold it back, so what takes  *)
(* a bounded time can be said of states: "within n ticks" instead of "in   *)
(* the end".                                                               *)
(***************************************************************************)
EXTENDS PlayerSession

VARIABLES
    silence,        \* ticks that a player that cannot be reached has been taken for alive
    unasked,        \* ticks since the last ping was sent
    settled,        \* ticks since something last disturbed client and player
    unregistered    \* ticks that an undisturbed client has waited for its id

watches == <<silence, unasked, settled, unregistered>>

(* A ping is noticed as lost when it expires, a pong as missing when the     *)
(* pong timeout is over, and either up to a turn later than that, in a turn  *)
(* that itself takes time.                                                   *)
WithdrawLimit == Expiration + PongTimeout + 2 * MaxLag
PingLimit     == Expiration + PingInterval + 2 * MaxLag

(* A ping is sent, and its pong looked at when the next but one is due.      *)
ServeLimit    == PingLimit + 2 * PingInterval + 2 * MaxLag

(* A ping is sent in the first turn that finds it due, for the last ping may *)
(* be one of the instance before, and its pong looked at as above; the       *)
(* answer to the register command is read in the fourth turn at the latest.  *)
RegisterLimit == NetDelay + 3 * PingInterval + 7 * MaxLag

(* The player can be reached and knows the client.                           *)
Known == Reachable /\ clientUniqueId \in registered

(* No handler, and no pong that could make one.                              *)
Withdrawn == playerHandler = NoHandler /\ call["ping"] \notin {"replied", "ready"}

TimedInit == Init /\ silence = 0 /\ unasked = 0 /\ settled = 0 /\ unregistered = 0

PingSent  == call["ping"] = "idle" /\ call'["ping"] = "requested"
Disturbed == faults' # faults \/ crashes' # crashes \/ ~Known'

(* The watches count the time that really passes, and stop above their       *)
(* limits.  A clock that has been set forward measures no silence.           *)
Watch(d) ==
    /\ silence' = IF Reachable' \/ Withdrawn' \/ adjusted' = "forward"
                  THEN 0 ELSE Older(silence, WithdrawLimit, d)
    /\ unasked' = IF PingSent THEN 0 ELSE Older(unasked, PingLimit, d)
    /\ settled' = IF Disturbed THEN 0 ELSE Older(settled, ServeLimit, d)
    /\ unregistered' = IF faults' > 0 \/ crashes' > 0 \/ Known'
                       THEN 0 ELSE Older(unregistered, RegisterLimit, d)

TimedNext ==
    \/ Receive /\ Watch(0)
    \/ ReceiveNothing /\ Watch(0)
    \/ NothingToAsk /\ Watch(0)
    \/ SetIdFromPlayer /\ Watch(0)
    \/ RegisterUnreadable /\ Watch(0)
    \/ RegisterGivenUp /\ Watch(0)
    \/ PlayerOffline /\ Watch(0)
    \/ PlayerOnline /\ Watch(0)
    \/ PlayerAsBefore /\ Watch(0)
    \/ PingNotDue /\ Watch(0)
    \/ PingReady /\ Watch(0)
    \/ PongWithState /\ Watch(0)
    \/ PongNotRegistered /\ Watch(0)
    \/ NoPong /\ Watch(0)
    \/ RegisterInPlayer /\ Watch(0)
    \/ AlreadyRegistered /\ Watch(0)
    \/ SendPing /\ Watch(0)
    \/ ServePing /\ Watch(0)
    \/ ServeRegister /\ Watch(0)
    \/ \E c \in Command : Fault(c) /\ Watch(0)
    \/ \E c \in Command : Undeliverable(c) /\ Watch(0)
    \/ PlayerCrashes /\ Watch(0)
    \/ PlayerRestarts /\ Watch(0)
    \/ ConnectionBreaks /\ Watch(0)
    \/ ClockIsSet /\ Watch(0)
    \/ Tick /\ Watch(1)

TimedSafety == TimedInit /\ [][TimedNext]_<<vars, watches>>
TimedSpec   == TimedSafety /\ Fairness

-----------------------------------------------------------------------------
(* Properties *)

(* The application loses the handler of a player that stays down or cannot   *)
(* be reached any more, although poll, publish and execAsync all hide the    *)
(* loss of the connection (amqp_client_c.cpp:463-480): the silence is heard, *)
(* in a bounded time (dss_client.cpp:127-143), and no late pong brings the   *)
(* handler back.  A clock that is set back takes as much longer.  One that   *)
(* is set forward between the pong that makes the handler and the next look  *)
(* at its age (line 138) hides the silence for ever.                         *)
SilenceIsHeard == silence <= WithdrawLimit + SetBack

(* Whatever is lost, garbled or late, the client never stops pinging, nor    *)
(* waits longer than a ping takes to expire, the ping interval and two turns *)
(* (ping, lines 161-172).  A clock that is set forward does not stop it; one *)
(* that is set back makes the ages of the last ping and of its request       *)
(* negative (line 163, and amqp_client_c.cpp:132) and puts the next ping off *)
(* by as much as it was set back, and by no more.                            *)
PingsGoOn == unasked < PingLimit + SetBack

(* A client that the player knows: crashes, restarts, lost and garbled pongs *)
(* may cost it the handler, but once they are over it has one in a bounded   *)
(* time and keeps it (dss_client.cpp:138-172, 240-263).  The same goes for a *)
(* clock that is set, which a client pays for with the time that the clock   *)
(* was set back by.                                                          *)
ServedInTime == settled >= ServeLimit + SetBack => playerHandler = clientUniqueId

(* A client whose first exchange with the player is not disturbed has its id *)
(* in a bounded time, although it may register only once, and although its   *)
(* first ping waits for an interval since the last one of an instance that   *)
(* was released before (line 162): pongs compete with the answer for the one *)
(* message of a poll, but not for long (dss_client.cpp:107-117, 161-172,     *)
(* 214-238; amqp_controller.cpp:102-107).                                    *)
RegisteredInTime == unregistered <= RegisterLimit
=============================================================================
