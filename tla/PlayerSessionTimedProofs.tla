---------------------- MODULE PlayerSessionTimedProofs ----------------------
(***************************************************************************)
(* Proofs about PlayerSessionTimed: what the client does in a bounded time *)
(* for any ids, time limits and fault bounds.                              *)
(***************************************************************************)
EXTENDS PlayerSessionTimed, PlayerSessionProofs

-----------------------------------------------------------------------------
(* The steps and the watches. *)

(* Steps that neither end or begin a ping nor let time pass.                 *)
Aside ==
    \/ Receive \/ ReceiveNothing
    \/ NothingToAsk \/ SetIdFromPlayer \/ RegisterUnreadable \/ RegisterGivenUp
    \/ PlayerOffline \/ PlayerOnline \/ PlayerAsBefore
    \/ RegisterInPlayer \/ AlreadyRegistered
    \/ ServePing \/ ServeRegister
    \/ \E c \in Command : Fault(c) \/ Undeliverable(c)
    \/ PlayerCrashes \/ PlayerRestarts \/ ConnectionBreaks

WatchTypeOK ==
    /\ silence \in 0 .. WithdrawLimit + ClockBack + 1
    /\ unasked \in 0 .. PingLimit + ClockBack + 1
    /\ settled \in 0 .. ServeLimit + ClockBack + 1
    /\ unregistered \in 0 .. RegisterLimit + ClockBack + 1

LEMMA Limits ==
  /\ WithdrawLimit \in Nat /\ PingLimit \in Nat /\ ServeLimit \in Nat
  /\ RegisterLimit \in Nat
  /\ PingLimit <= ServeLimit
  /\ ClockBack \in Nat /\ SetBack \in {0, ClockBack}
BY SessionAssumption DEF SetBack, WithdrawLimit, PingLimit, ServeLimit, RegisterLimit

LEMMA TimedSteps ==
  ASSUME TimedNext
  PROVE  \/ Watch(1) /\ Tick
         \/ /\ Watch(0)
            /\ \/ Aside \/ PingNotDue \/ PingReady \/ PongWithState \/ PongNotRegistered
               \/ NoPong \/ SendPing \/ ClockIsSet
BY DEF TimedNext, Aside

LEMMA TimedIsNext ==
  [TimedNext]_<<vars, watches>> => [Next]_vars
BY DEF TimedNext, Next, Maintenance, Environment

(* A watch starts again, stands still or goes on by one.                     *)
LEMMA WatchStands ==
  ASSUME WatchTypeOK, Watch(0)
  PROVE  /\ WatchTypeOK'
         /\ silence' = IF Reachable' \/ Withdrawn' \/ adjusted' = "forward" THEN 0 ELSE silence
         /\ unasked' = IF PingSent THEN 0 ELSE unasked
         /\ settled' = IF Disturbed THEN 0 ELSE settled
         /\ unregistered' = IF faults' > 0 \/ crashes' > 0 \/ Known' THEN 0 ELSE unregistered
<1>1. ASSUME NEW l \in Nat, NEW a \in 0 .. l + ClockBack + 1  PROVE Older(a, l, 0) = a
  BY <1>1, Limits DEF Older
<1>2. /\ silence' = IF Reachable' \/ Withdrawn' \/ adjusted' = "forward" THEN 0 ELSE silence
      /\ unasked' = IF PingSent THEN 0 ELSE unasked
      /\ settled' = IF Disturbed THEN 0 ELSE settled
      /\ unregistered' = IF faults' > 0 \/ crashes' > 0 \/ Known' THEN 0 ELSE unregistered
  BY <1>1, Limits, Zenon DEF Watch, WatchTypeOK
<1>. QED
  BY <1>2, Limits DEF WatchTypeOK

LEMMA WatchGoesOn ==
  ASSUME WatchTypeOK, Watch(1)
  PROVE  /\ WatchTypeOK'
         /\ silence' <= silence + 1
         /\ silence' > 0 => ~Reachable' /\ ~Withdrawn' /\ adjusted' # "forward"
         /\ unasked' <= unasked + 1
         /\ unasked < PingLimit + SetBack /\ ~PingSent => unasked' = unasked + 1
         /\ settled' <= settled + 1 /\ (settled' > 0 => ~Disturbed)
         /\ unregistered' <= unregistered + 1
         /\ unregistered' > 0 => ~(faults' > 0) /\ ~(crashes' > 0) /\ ~Known'
BY Limits DEF Watch, WatchTypeOK, Older

(* What the calls are made of. *)
LEMMA CallFields ==
  ASSUME SInv
  PROVE  /\ call \in [Command -> {"idle", "requested", "replied", "ready", "lost"}]
         /\ age \in [Command -> Int]
         /\ reply \in [Command -> Answer \cup {Empty}]
         /\ timeouted \in [Command -> BOOLEAN]
         /\ "ping" \in Command /\ "register" \in Command
BY Numbers DEF SInv, TypeOK, Call!CallTypeOK, Command

LEMMA AsideKeepsPing ==
  ASSUME SInv, Aside
  PROVE  /\ UNCHANGED <<pongAge, pingAge, lag, adjusted>>
         /\ age'["ping"] = age["ping"]
         /\ call'["ping"] = "idle" <=> call["ping"] = "idle"
         /\ pc' = pc \/ <<pc, pc'>> \in {<<"poll", "commands">>, <<"commands", "monitor">>,
                                        <<"monitor", "ping">>, <<"register", "exec">>}
<1>. USE CallFields DEF At, Goto, idVars, handlerVars, clockVars, callVars, envVars, clientVars
<1>1. CASE Receive
  BY <1>1 DEF Receive, Call!Arrive
<1>2. CASE ReceiveNothing \/ NothingToAsk
  BY <1>2 DEF ReceiveNothing, NothingToAsk
<1>3. CASE SetIdFromPlayer \/ RegisterUnreadable
  BY <1>3 DEF SetIdFromPlayer, RegisterUnreadable, Collected, Unreadable, Call!Collect, Call!Settle
<1>4. CASE RegisterGivenUp
  BY <1>4 DEF RegisterGivenUp, Call!Expire, Call!Settle
<1>5. CASE PlayerOffline \/ PlayerOnline \/ PlayerAsBefore
  BY <1>5 DEF PlayerOffline, PlayerOnline, PlayerAsBefore
<1>6. CASE RegisterInPlayer \/ AlreadyRegistered
  BY <1>6 DEF RegisterInPlayer, AlreadyRegistered, Call!Start
<1>7. CASE ServePing \/ ServeRegister
  BY <1>7 DEF ServePing, ServeRegister, Call!Serve
<1>8. ASSUME NEW c \in Command, Fault(c) \/ Undeliverable(c)
      PROVE  /\ UNCHANGED <<pc, pongAge, pingAge, lag, adjusted>>
             /\ age'["ping"] = age["ping"]
             /\ call'["ping"] = "idle" <=> call["ping"] = "idle"
  BY <1>8 DEF Fault, Undeliverable, Call!Lose, Call!Serve
<1>9. CASE PlayerCrashes \/ PlayerRestarts \/ ConnectionBreaks
  BY <1>9 DEF PlayerCrashes, PlayerRestarts, ConnectionBreaks
<1>. QED
  BY <1>1, <1>2, <1>3, <1>4, <1>5, <1>6, <1>7, <1>8, <1>9 DEF Aside

-----------------------------------------------------------------------------
(* The client goes on pinging. *)

(* The thread has a ping under way only where it polls, asks and looks, or   *)
(* where execAsync is about to refuse the next.                              *)
PingUnderWay ==
    /\ call["ping"] = "idle" => age["ping"] = 0
    /\ pc = "register" => call["ping"] = "idle"

(* The ticks that the clock may still be set back by.                        *)
MayGoBack == IF adjusted = "no" THEN ClockBack ELSE 0

(* The watch goes with the age of a ping until that expires, and from then   *)
(* on with the time since the thread last looked at it.  A refused ping      *)
(* costs a turn.  What the clock was set back by is added to either, and     *)
(* what it may still be set back by makes an age young again.                *)
Asked ==
    /\ call["ping"] # "idle" =>
        /\ age["ping"] <= Expiration + MayGoBack =>
            /\ unasked <= age["ping"] + SetBack
            /\ pingAge > PingInterval => lag > 0 \/ unasked < age["ping"] + SetBack
        /\ pc = "exec" => unasked < Expiration + lag + SetBack
    /\ pingAge <= PingInterval + MayGoBack => unasked < Expiration + MaxLag + pingAge + SetBack
    /\ pingAge > PingInterval => unasked < Expiration + MaxLag + PingInterval + lag + SetBack

AskedInv == PingUnderWay /\ unasked \in Nat /\ Asked

LEMMA AskedInitially ==
  ASSUME TimedInit, MaxLag > 0  PROVE WatchTypeOK /\ AskedInv
<1>1. WatchTypeOK
  BY Limits DEF TimedInit, WatchTypeOK
<1>2. call["ping"] = "idle" /\ age["ping"] = 0 /\ pc = "poll"
      /\ pingAge \in Nat /\ lag = 0 /\ unasked = 0 /\ SetBack = 0
  BY SessionAssumption DEF TimedInit, Init, Call!CallInit, Command, SetBack
<1>3. PingUnderWay /\ Asked
  BY <1>2, SessionAssumption DEF PingUnderWay, Asked
<1>. QED
  BY <1>1, <1>2, <1>3 DEF AskedInv

LEMMA AskedEnough ==
  ASSUME SInv, AskedInv  PROVE PingsGoOn
BY Numbers DEF AskedInv, Asked, PingsGoOn, PingLimit, MayGoBack

LEMMA AskedStep ==
  ASSUME SInv, WatchTypeOK, AskedInv, MaxLag > 0, TimedNext
  PROVE  WatchTypeOK' /\ AskedInv'
<1>. USE CallFields, Numbers DEF AskedInv, PingUnderWay, Asked, At, Goto, idVars, handlerVars,
         clockVars, callVars, envVars
<1>0. /\ MayGoBack \in {0, ClockBack} /\ SetBack \in {0, ClockBack}
      /\ adjusted' = adjusted => MayGoBack' = MayGoBack /\ SetBack' = SetBack
  BY DEF MayGoBack, SetBack
<1>1. ASSUME Watch(0), Aside  PROVE AskedInv'
  <2>1. /\ UNCHANGED <<pingAge, lag, adjusted>> /\ age'["ping"] = age["ping"]
        /\ call'["ping"] = "idle" <=> call["ping"] = "idle"
        /\ pc' \in {"register", "exec"} => pc' = pc \/ call["ping"] = "idle"
    BY <1>1, AsideKeepsPing
  <2>2. unasked' = unasked
    BY <1>1, <2>1, WatchStands DEF PingSent
  <2>. QED
    BY <1>0, <2>1, <2>2
<1>2. ASSUME Watch(0), PingNotDue  PROVE AskedInv'
  <2>1. /\ UNCHANGED <<call, age, pingAge, adjusted>> /\ pingAge <= PingInterval /\ pc' = "poll" /\ lag' = 0
    BY <1>2 DEF PingNotDue, TurnOver, PingDue
  <2>2. unasked' = unasked
    BY <1>2, <2>1, WatchStands DEF PingSent
  <2>. QED
    BY <1>0, <2>1, <2>2
<1>3. ASSUME Watch(0), PingReady  PROVE AskedInv'
  <2>1. /\ UNCHANGED <<pingAge, lag, adjusted>> /\ pingAge > PingInterval /\ pc' = "exec"
    BY <1>3 DEF PingReady, PingDue
  <2>2. CASE call'["ping"] = "idle" /\ age'["ping"] = 0
    <3>1. unasked' = unasked
      BY <1>3, <2>2, WatchStands DEF PingSent
    <3>. QED
      BY <1>0, <2>1, <2>2, <3>1
  <2>3. CASE Pending("ping") /\ UNCHANGED callVars
    <3>1. unasked' = unasked
      BY <1>3, <2>3, WatchStands DEF PingSent
    <3>2. call["ping"] # "idle" /\ age["ping"] <= Expiration
      BY <2>3 DEF Pending, Call!IsPerforming, Call!Expired
    <3>. QED
      BY <1>0, <2>1, <2>3, <3>1, <3>2
  <2>. QED
    BY <1>3, <2>2, <2>3 DEF PingReady, Call!Expire, Call!Settle, Call!IsPerforming
<1>4. ASSUME Watch(0), PongWithState \/ PongNotRegistered  PROVE AskedInv'
  <2>1. /\ UNCHANGED <<pingAge, lag, adjusted>> /\ call'["ping"] = "idle" /\ age'["ping"] = 0
    BY <1>4 DEF PongWithState, PongNotRegistered, Collected, Call!Collect, Call!Settle
  <2>2. unasked' = unasked
    BY <1>4, <2>1, WatchStands DEF PingSent
  <2>. QED
    BY <1>0, <2>1, <2>2
<1>5. ASSUME Watch(0), NoPong  PROVE AskedInv'
  <2>1. call["ping"] # "idle" /\ age["ping"] <= Expiration /\ pingAge' = 0 /\ pc' = "poll"
        /\ lag' = 0 /\ adjusted' = adjusted
    BY <1>5 DEF NoPong, Unreadable, Pending, Call!Collect, Call!IsPerforming, Call!Expired, TurnOver
  <2>2. \/ call'["ping"] = "idle" /\ age'["ping"] = 0
        \/ UNCHANGED callVars
    BY <1>5 DEF NoPong, Unreadable, Call!Collect, Call!Settle
  <2>3. unasked' = unasked
    BY <1>5, <2>1, WatchStands DEF PingSent
  <2>. QED
    BY <1>0, <2>1, <2>2, <2>3
<1>6. ASSUME Watch(0), SendPing  PROVE AskedInv'
  <2>1. pc = "exec" /\ pingAge' = 0 /\ pc' = "poll" /\ lag' = 0 /\ adjusted' = adjusted
    BY <1>6 DEF SendPing, TurnOver
  <2>2. CASE Call!Start("ping")
    <3>1. call["ping"] = "idle" /\ call'["ping"] = "requested" /\ age' = age
      BY <2>2 DEF Call!Start, Call!IsPerforming
    <3>2. unasked' = 0
      BY <1>6, <3>1, WatchStands DEF PingSent
    <3>. QED
      BY <1>0, <2>1, <3>1, <3>2
  <2>3. CASE Call!IsPerforming("ping") /\ UNCHANGED callVars
    <3>1. call["ping"] # "idle"
      BY <2>3 DEF Call!IsPerforming
    <3>2. unasked' = unasked
      BY <1>6, <2>3, <3>1, WatchStands DEF PingSent
    <3>. QED
      BY <1>0, <2>1, <2>3, <3>1, <3>2
  <2>. QED
    BY <1>6, <2>2, <2>3 DEF SendPing
<1>7. ASSUME Watch(0), ClockIsSet  PROVE AskedInv'
  <2>1. PICK d \in {ClockJump, -ClockBack} :
          /\ \/ d = ClockJump /\ ClockJump > 0 /\ adjusted' = "forward"
             \/ d = -ClockBack /\ ClockBack > 0 /\ adjusted' = "back"
          /\ Pass(d) /\ Call!CallPass(d)
    BY <1>7 DEF ClockIsSet
  <2>2. /\ UNCHANGED <<pc, call, lag>>
        /\ pingAge' = Older(pingAge, PingInterval, d)
        /\ age'["ping"] = IF call["ping"] = "idle" THEN age["ping"]
                          ELSE Call!Older(age["ping"], d)
    BY <1>7, <2>1 DEF ClockIsSet, Pass, Call!CallPass, Call!IsPerforming
  <2>3. unasked' = unasked
    BY <1>7, <2>2, WatchStands DEF PingSent
  <2>4. MayGoBack = ClockBack /\ SetBack = 0 /\ MayGoBack' = 0 /\ ClockJump \in Nat
    BY <1>7, <2>1, SessionAssumption DEF ClockIsSet, MayGoBack, SetBack
  <2>5. CASE d = ClockJump /\ ClockJump > 0 /\ adjusted' = "forward"
    <3>1. SetBack' = 0
      BY <2>5 DEF SetBack
    <3>. QED
      BY <2>2, <2>3, <2>4, <2>5, <3>1 DEF Older, Call!Older
  <2>6. CASE d = -ClockBack /\ ClockBack > 0 /\ adjusted' = "back"
    <3>1. SetBack' = ClockBack
      BY <2>6 DEF SetBack
    <3>2. pingAge' = pingAge - ClockBack
      BY <2>2, <2>6 DEF Older
    <3>3. call["ping"] # "idle" => age'["ping"] = age["ping"] - ClockBack
      BY <2>2, <2>6 DEF Call!Older
    <3>. QED
      BY <2>2, <2>3, <2>4, <2>6, <3>1, <3>2, <3>3
  <2>. QED
    BY <2>1, <2>5, <2>6
<1>8. ASSUME Watch(1), Tick  PROVE AskedInv'
  <2>1. /\ UNCHANGED <<pc, call, adjusted>> /\ lag' = lag + 1
        /\ pingAge' = Older(pingAge, PingInterval, 1)
        /\ age'["ping"] = IF call["ping"] = "idle" THEN age["ping"] ELSE Call!Older(age["ping"], 1)
    BY <1>8 DEF Tick, Pass, Call!CallPass, Call!IsPerforming
  <2>2. unasked' = unasked + 1
    BY <1>8, <2>1, WatchGoesOn, AskedEnough DEF PingSent, PingsGoOn
  <2>. QED
    BY <1>0, <2>1, <2>2 DEF Older, Call!Older
<1>9. WatchTypeOK'
  BY TimedSteps, WatchStands, WatchGoesOn
<1>. QED
  BY <1>1, <1>2, <1>3, <1>4, <1>5, <1>6, <1>7, <1>8, <1>9, TimedSteps

LEMMA AskedStutter ==
  ASSUME UNCHANGED <<vars, watches>>
  PROVE  (WatchTypeOK' <=> WatchTypeOK) /\ (AskedInv' <=> AskedInv)
BY DEF vars, clientVars, idVars, handlerVars, clockVars, callVars, envVars, watches,
   WatchTypeOK, AskedInv, PingUnderWay, Asked, MayGoBack, SetBack

(* The session with watches is a session. *)
LEMMA TimedInvariance == TimedSafety => []SInv
<1>1. TimedSafety => Safety
  BY TimedIsNext, PTL DEF TimedSafety, TimedInit, Safety
<1>. QED
  BY <1>1, Invariance, PTL

LEMMA AskedInvariance ==
  ASSUME MaxLag > 0  PROVE TimedSafety => [](SInv /\ WatchTypeOK /\ AskedInv)
<1>1. TimedInit => WatchTypeOK /\ AskedInv
  BY AskedInitially
<1>2. SInv /\ WatchTypeOK /\ AskedInv /\ [TimedNext]_<<vars, watches>>
        => WatchTypeOK' /\ AskedInv'
  BY AskedStep, AskedStutter
<1>. QED
  BY <1>1, <1>2, TimedInvariance, PTL DEF TimedSafety

(* However many messages are lost, garbled or late, the client pings again   *)
(* before a ping has expired, another was due and two turns have passed:     *)
(* after less than 13 s with the code's limits and turns of up to a second,  *)
(* and if the clock was set back, after less than that and the time it was   *)
(* set back by.  A clock that is set forward costs nothing.  Time has to     *)
(* pass at all.                                                              *)
THEOREM PingsArePunctual == ASSUME MaxLag > 0  PROVE TimedSafety => []PingsGoOn
<1>1. SInv /\ AskedInv => PingsGoOn
  BY AskedEnough
<1>. QED
  BY <1>1, AskedInvariance, PTL

-----------------------------------------------------------------------------
(* Silence is heard. *)

(* Only a player that cannot be reached is silent, on a clock that nobody    *)
(* set forward, and a pong on its way is older than the silence.             *)
SilenceStarts ==
    /\ silence \in Nat
    /\ silence > 0 => ~Reachable /\ ~Withdrawn /\ adjusted # "forward"
    /\ call["ping"] \in {"replied", "ready"} => silence <= unasked

(* The pong timeout is noticed by the next turn at the latest.  A clock that *)
(* is set back makes the last pong young again.                              *)
Heard ==
    /\ silence > 0 /\ pongAge <= PongTimeout + MayGoBack =>
        silence <= Expiration + pongAge + SetBack
    /\ silence > 0 /\ pongAge > PongTimeout /\ playerHandler # NoHandler =>
        \/ silence <= Expiration + PongTimeout + lag + SetBack
        \/ /\ pc \in {"poll", "commands", "monitor"}
           /\ silence <= Expiration + PongTimeout + MaxLag + lag + SetBack

(* A handler without an online player has just been made.                    *)
HandlerIsNew ==
    adjusted # "forward" =>
        /\ call["ping"] # "idle" /\ pingAge > PingInterval => lag > 0
        /\ playerHandler # NoHandler /\ ~onlinePlayer =>
            \/ pc = "exec" /\ pongAge < lag
            \/ pc \in {"poll", "commands", "monitor"} /\ pongAge < MaxLag + lag

SilenceInv == SilenceStarts /\ Heard /\ HandlerIsNew

(* A turn may be late for the pong timeout, but not for a pong of its own    *)
(* turn or the one before; pings come faster than the pong timeout.          *)
TurnsInTime == 0 < MaxLag /\ 2 * MaxLag <= PongTimeout /\ PingInterval <= PongTimeout

(* Nothing but the player makes a pong, and nothing but a pong a handler.    *)
LEMMA AsideKeepsHandler ==
  ASSUME SInv, Aside
  PROVE  /\ ~Reachable /\ call'["ping"] \in {"replied", "ready"} =>
            call["ping"] \in {"replied", "ready"}
         /\ playerHandler' # NoHandler => playerHandler' = playerHandler
         /\ <<pc, pc'>> = <<"monitor", "ping">> /\ playerHandler' # NoHandler =>
                /\ onlinePlayer /\ ~onlinePlayer' => FALSE
                /\ onlinePlayer => pongAge <= PongTimeout
                /\ ~onlinePlayer' => pongAge >= PongTimeout
         /\ <<pc, pc'>> # <<"monitor", "ping">> => onlinePlayer' = onlinePlayer
<1>. USE CallFields, Numbers DEF At, Goto, idVars, handlerVars, clockVars, callVars, envVars, clientVars
<1>1. CASE Receive
  BY <1>1 DEF Receive, Call!Arrive
<1>2. CASE ReceiveNothing \/ NothingToAsk
  BY <1>2 DEF ReceiveNothing, NothingToAsk
<1>3. CASE SetIdFromPlayer \/ RegisterUnreadable
  BY <1>3 DEF SetIdFromPlayer, RegisterUnreadable, Collected, Unreadable, Call!Collect, Call!Settle
<1>4. CASE RegisterGivenUp
  BY <1>4 DEF RegisterGivenUp, Call!Expire, Call!Settle
<1>5. CASE PlayerOffline \/ PlayerOnline \/ PlayerAsBefore
  BY <1>5 DEF PlayerOffline, PlayerOnline, PlayerAsBefore
<1>6. CASE RegisterInPlayer \/ AlreadyRegistered
  BY <1>6 DEF RegisterInPlayer, AlreadyRegistered, Call!Start
<1>7. CASE ServePing \/ ServeRegister
  BY <1>7 DEF ServePing, ServeRegister, Call!Serve
<1>8. ASSUME NEW c \in Command, Fault(c) \/ Undeliverable(c)
      PROVE  /\ UNCHANGED <<pc, onlinePlayer, playerHandler>>
             /\ ~Reachable /\ call'["ping"] \in {"replied", "ready"} =>
                   call["ping"] \in {"replied", "ready"}
  BY <1>8 DEF Fault, Undeliverable, Call!Lose, Call!Serve, Reachable
<1>9. CASE PlayerCrashes \/ PlayerRestarts \/ ConnectionBreaks
  BY <1>9 DEF PlayerCrashes, PlayerRestarts, ConnectionBreaks
<1>. QED
  BY <1>1, <1>2, <1>3, <1>4, <1>5, <1>6, <1>7, <1>8, <1>9 DEF Aside

LEMMA SilenceInitially == TimedInit => SilenceInv
BY SessionAssumption DEF TimedInit, Init, Call!CallInit, Command, SilenceInv, SilenceStarts, Heard,
   HandlerIsNew

LEMMA SilenceEnough ==
  ASSUME SInv, WatchTypeOK, AskedInv, SilenceInv, TurnsInTime
  PROVE  SilenceIsHeard
<1>. USE Numbers DEF SilenceIsHeard, WithdrawLimit, TurnsInTime, SilenceInv, SilenceStarts
<1>1. CASE silence = 0
  BY <1>1
<1>2. CASE silence > 0 /\ playerHandler # NoHandler
  BY <1>2 DEF Heard, MayGoBack
<1>3. CASE silence > 0 /\ call["ping"] \in {"replied", "ready"}
  BY <1>3, AskedEnough DEF PingsGoOn, PingLimit, AskedInv
<1>. QED
  BY <1>1, <1>2, <1>3 DEF Withdrawn

LEMMA SilenceStep ==
  ASSUME SInv, WatchTypeOK, AskedInv, SilenceInv, TurnsInTime, TimedNext
  PROVE  SilenceInv'
<1>. USE CallFields, Numbers DEF TurnsInTime, SilenceInv, SilenceStarts, Heard, HandlerIsNew, At,
         Goto, idVars, handlerVars, clockVars, callVars, envVars
<1>a. /\ MayGoBack \in {0, ClockBack} /\ SetBack \in {0, ClockBack}
      /\ adjusted' = adjusted => MayGoBack' = MayGoBack /\ SetBack' = SetBack
  BY DEF MayGoBack, SetBack
<1>0. ASSUME Watch(0)
      PROVE  /\ silence' \in {0, silence} /\ silence' \in Nat
             /\ silence' > 0 => ~Reachable' /\ ~Withdrawn' /\ adjusted' # "forward"
             /\ ~PingSent => unasked' = unasked
             /\ unasked' \in Nat
  BY <1>0, WatchStands DEF AskedInv
<1>1. ASSUME Watch(0), Aside  PROVE SilenceInv'
  <2>1. /\ UNCHANGED <<pongAge, pingAge, lag, adjusted>>
        /\ call'["ping"] = "idle" <=> call["ping"] = "idle"
        /\ pc' = pc \/ <<pc, pc'>> \in {<<"poll", "commands">>, <<"commands", "monitor">>,
                                       <<"monitor", "ping">>, <<"register", "exec">>}
    BY <1>1, AsideKeepsPing
  <2>2. unasked' = unasked
    BY <1>0, <1>1, <2>1 DEF PingSent
  <2>3. SilenceStarts'
    BY <1>0, <1>1, <2>2, AsideKeepsHandler
  <2>4. HandlerIsNew'
    BY <1>1, <2>1, AsideKeepsHandler
  <2>5. Heard'
    BY <1>a, <1>0, <1>1, <2>1, AsideKeepsHandler
  <2>. QED
    BY <2>3, <2>4, <2>5
<1>2. ASSUME Watch(0), PingNotDue \/ NoPong \/ SendPing  PROVE SilenceInv'
  <2>1. /\ pc \in {"ping", "exec"} /\ pc' = "poll" /\ lag' = 0
        /\ UNCHANGED <<pongAge, playerHandler, onlinePlayer, adjusted>>
        /\ pingAge' <= PingInterval /\ pingAge' \in Int
    BY <1>2 DEF PingNotDue, NoPong, SendPing, TurnOver, PingDue
  <2>2. call'["ping"] \in {"replied", "ready"} => call'["ping"] = call["ping"] /\ ~PingSent
    BY <1>2 DEF PingNotDue, NoPong, SendPing, Unreadable, Call!Collect, Call!Settle, Call!Start,
       PingSent
  <2>3. SilenceStarts'
    BY <1>0, <1>2, <2>2
  <2>4. HandlerIsNew'
    BY <2>1
  <2>5. Heard'
    BY <1>a, <1>0, <1>2, <2>1
  <2>. QED
    BY <2>3, <2>4, <2>5
<1>3. ASSUME Watch(0), PingReady  PROVE SilenceInv'
  <2>1. /\ pc = "ping" /\ pc' = "exec"
        /\ UNCHANGED <<pongAge, pingAge, lag, playerHandler, onlinePlayer, adjusted>>
    BY <1>3 DEF PingReady
  <2>2. call'["ping"] # "idle" => call'["ping"] = call["ping"] /\ ~PingSent
    BY <1>3 DEF PingReady, Call!Expire, Call!Settle, PingSent
  <2>3. SilenceStarts'
    BY <1>0, <1>3, <2>2
  <2>4. HandlerIsNew'
    BY <2>1, <2>2
  <2>5. Heard'
    BY <1>a, <1>0, <1>3, <2>1
  <2>. QED
    BY <2>3, <2>4, <2>5
<1>4. ASSUME Watch(0), PongWithState \/ PongNotRegistered  PROVE SilenceInv'
  <2>1. /\ pc = "ping" /\ pc' \in {"register", "exec"} /\ pongAge' = 0 /\ pingAge > PingInterval
        /\ UNCHANGED <<pingAge, lag, onlinePlayer, adjusted>>
        /\ pc' = "register" => playerHandler' = playerHandler
    BY <1>4 DEF PongWithState, PongNotRegistered, PingDue
  <2>2. call["ping"] = "ready" /\ age["ping"] <= Expiration /\ call'["ping"] = "idle"
    BY <1>4 DEF PongWithState, PongNotRegistered, Collected, Call!Collect, Call!Settle, Call!Expired
  <2>3. silence <= Expiration + SetBack
    BY <1>a, <2>2 DEF AskedInv, Asked
  <2>4. SilenceStarts'
    BY <1>0, <1>4, <2>2
  <2>5. HandlerIsNew'
    BY <2>1, <2>2
  <2>6. Heard'
    BY <1>a, <1>0, <1>4, <2>1, <2>3
  <2>. QED
    BY <2>4, <2>5, <2>6
<1>5. ASSUME Watch(0), ClockIsSet  PROVE SilenceInv'
  <2>1. UNCHANGED <<pc, call, lag, playerHandler, onlinePlayer>> /\ adjusted = "no"
    BY <1>5 DEF ClockIsSet, Call!CallPass
  <2>2. unasked' = unasked /\ unasked \in Nat
    BY <1>0, <1>5, <2>1 DEF AskedInv, PingSent
  <2>3. SilenceStarts'
    BY <1>0, <1>5, <2>1, <2>2
  <2>4. CASE adjusted' = "forward"
    <3>1. silence' = 0
      BY <1>0, <1>5, <2>4
    <3>. QED
      BY <2>3, <2>4, <3>1
  <2>5. CASE adjusted' = "back" /\ Pass(-ClockBack)
    <3>1. /\ pongAge' = pongAge - ClockBack /\ pingAge' = pingAge - ClockBack
          /\ MayGoBack = ClockBack /\ MayGoBack' = 0 /\ SetBack = 0 /\ SetBack' = ClockBack
      BY <2>1, <2>5 DEF Pass, Older, MayGoBack, SetBack
    <3>2. HandlerIsNew'
      BY <2>1, <3>1
    <3>3. Heard'
      BY <1>0, <1>5, <2>1, <3>1
    <3>. QED
      BY <2>3, <3>2, <3>3
  <2>. QED
    BY <1>5, <2>4, <2>5 DEF ClockIsSet
<1>6. ASSUME Watch(1), Tick  PROVE SilenceInv'
  <2>1. /\ UNCHANGED <<pc, call, playerHandler, onlinePlayer, adjusted>> /\ lag' = lag + 1
        /\ pongAge' = Older(pongAge, PongTimeout, 1)
    BY <1>6 DEF Tick, Pass, Call!CallPass
  <2>2. unasked \in Nat /\ unasked' = unasked + 1
    BY <1>6, <2>1, WatchGoesOn, AskedEnough DEF PingSent, PingsGoOn, AskedInv
  <2>3. /\ silence' <= silence + 1 /\ silence' \in Nat
        /\ silence' > 0 => ~Reachable' /\ ~Withdrawn' /\ adjusted' # "forward"
    BY <1>6, WatchGoesOn DEF WatchTypeOK
  <2>4. SilenceStarts'
    BY <2>1, <2>2, <2>3
  <2>5. HandlerIsNew'
    BY <2>1 DEF Older
  <2>6. Heard'
    BY <1>a, <2>1, <2>3 DEF Older
  <2>. QED
    BY <2>4, <2>5, <2>6
<1>. QED
  BY <1>1, <1>2, <1>3, <1>4, <1>5, <1>6, TimedSteps

LEMMA SilenceStutter ==
  ASSUME UNCHANGED <<vars, watches>>  PROVE SilenceInv' <=> SilenceInv
BY DEF vars, clientVars, idVars, handlerVars, clockVars, callVars, envVars, watches,
   SilenceInv, SilenceStarts, Heard, HandlerIsNew, Withdrawn, Reachable, MayGoBack, SetBack

(* A player that is down, or that the connection no longer reaches, is taken *)
(* for dead in a bounded time, however its last pongs and the turns of the   *)
(* loop fall: after at most 17 s with the code's limits and turns of up to a *)
(* second, a pong that was waiting and the pong timeout after it, and as     *)
(* much more as the clock was set back by.  Longer turns than half the pong  *)
(* timeout may leave the handler for ever, and so may a clock that is set    *)
(* forward, on which nothing is said.                                        *)
THEOREM SilenceIsNoticed == ASSUME TurnsInTime  PROVE TimedSafety => []SilenceIsHeard
<1>1. TimedInit => SilenceInv
  BY SilenceInitially
<1>2. SInv /\ WatchTypeOK /\ AskedInv /\ SilenceInv /\ [TimedNext]_<<vars, watches>>
        => SilenceInv'
  BY SilenceStep, SilenceStutter
<1>3. SInv /\ WatchTypeOK /\ AskedInv /\ SilenceInv => SilenceIsHeard
  BY SilenceEnough
<1>4. TimedSafety => [](SInv /\ WatchTypeOK /\ AskedInv)
  BY AskedInvariance DEF TurnsInTime
<1>. QED
  BY <1>1, <1>2, <1>3, <1>4, PTL DEF TimedSafety

(* What is withdrawn stays so until the player can be reached again: no late *)
(* pong brings the handler of a silent player back (updatePlayer), so the    *)
(* watch that stops at the withdrawal misses nothing.                        *)
THEOREM WithdrawnForGood ==
  Safety => [][~Reachable /\ Withdrawn => Withdrawn' \/ Reachable']_vars
<1>1. SInv /\ [Next]_vars => (~Reachable /\ Withdrawn => Withdrawn' \/ Reachable')
  <2>. SUFFICES ASSUME SInv, [Next]_vars, ~Reachable, Withdrawn  PROVE Withdrawn'
    OBVIOUS
  <2>. USE CallFields DEF Withdrawn, handlerVars, callVars
  <2>1. CASE Aside
    BY <2>1, AsideKeepsHandler
  <2>2. CASE PingNotDue \/ PingReady \/ NoPong \/ SendPing
    BY <2>2 DEF PingNotDue, PingReady, NoPong, SendPing, Unreadable, Call!Collect, Call!Expire,
       Call!Settle, Call!Start
  <2>3. ~PongWithState /\ ~PongNotRegistered
    BY DEF PongWithState, PongNotRegistered, Collected, Call!Collect
  <2>4. CASE Tick \/ ClockIsSet
    BY <2>4 DEF Tick, ClockIsSet, Call!CallPass
  <2>5. CASE UNCHANGED vars
    BY <2>5 DEF vars, clientVars
  <2>. QED
    BY <2>1, <2>2, <2>3, <2>4, <2>5 DEF Next, Maintenance, Environment, Aside
<1>. QED
  BY <1>1, Invariance, PTL DEF Safety

-----------------------------------------------------------------------------
(* A client that the player knows is served. *)

(* The ping was sent after the last disturbance.                             *)
Fresh == unasked < settled

FreshPing ==
    /\ sentUserId = clientUniqueId
    /\ call["ping"] # "lost"
    /\ call["ping"] = "requested" => age["ping"] <= NetDelay
    /\ call["ping"] \in {"replied", "ready"} => reply["ping"].code = "OK"

(* Since a pong was looked at in time again, the client has its handler.     *)
Served == playerHandler = clientUniqueId

(* The interval that follows if the pong was not there when it was due.      *)
LateInterval ==
    /\ call["ping"] \in {"replied", "ready"}
    /\ call["ping"] = "replied" => pc = "poll"
    /\ pingAge <= PingInterval => age["ping"] <= PingInterval + MaxLag + pingAge
    /\ age["ping"] <= 2 * PingInterval + MaxLag + lag

FreshSchedule ==
    /\ call["ping"] = "idle" => pc = "exec" /\ Served /\ pongAge < lag
    /\ call["ping"] # "idle" =>
        /\ \/ pc \in {"poll", "commands", "monitor", "ping"}
           \/ pc = "exec" /\ call["ping"] = "replied" /\ FirstInterval
        /\ FirstInterval \/ LateInterval
        /\ pingAge > PingInterval => lag > 0
        /\ \/ settled < PingLimit + SetBack + age["ping"]
           \/ Served /\ pongAge < MaxLag + age["ping"]

FreshInv ==
    /\ settled \in Nat
    /\ settled > 0 => Known
    /\ Fresh => FreshPing /\ FreshSchedule

LEMMA FreshInitially == TimedInit => FreshInv
BY DEF TimedInit, FreshInv, Fresh

(* The pong of a fresh ping is looked at before the ping expires, and the    *)
(* monitoring finds it recent.                                               *)
LEMMA FreshBounds ==
  ASSUME SInv, InTime, FreshPing, FreshSchedule
  PROVE  /\ call["ping"] # "idle" => age["ping"] <= 2 * PingInterval + 2 * MaxLag
         /\ ~(call["ping"] # "idle" /\ Call!Expired("ping"))
         /\ call["ping"] \in {"idle", "requested", "replied", "ready"}
BY CallFields, Numbers DEF FreshPing, FreshSchedule, FirstInterval, LateInterval, InTime, Call!Expired

LEMMA FreshEnough ==
  ASSUME SInv, InTime, AskedInv, FreshInv
  PROVE  ServedInTime
<1>. SUFFICES ASSUME settled >= ServeLimit + SetBack  PROVE Served
  BY DEF ServedInTime, Served
<1>1. unasked < PingLimit + SetBack /\ unasked \in Nat
  BY AskedEnough DEF PingsGoOn, AskedInv
<1>2. Fresh
  BY <1>1, Limits DEF FreshInv, Fresh
<1>3. lag \in Nat /\ lag <= MaxLag /\ age["ping"] \in Int
  BY Numbers
<1>. QED
  BY <1>1, <1>2, <1>3, FreshBounds, Numbers, Limits DEF FreshInv, FreshSchedule, ServeLimit

(* A known client has registered: nothing of the registration is left.       *)
LEMMA KnownIsRegistered ==
  ASSUME SInv, Known
  PROVE  /\ clientUniqueId \in UserId /\ clientUniqueId # InvalidId /\ ~registrationInProgress
         /\ call["register"] = "idle" /\ commandsInProgress = {}
BY SessionAssumption DEF SInv, TypeOK, PlayerTypeOK, LatchHolds, Known

(* What one step to a fresh state may assume: nothing disturbs it, and it    *)
(* starts in a fresh state or sends a ping.                                  *)
LEMMA FreshBefore ==
  ASSUME SInv, WatchTypeOK, AskedInv, FreshInv, TimedNext, Fresh'
  PROVE  /\ Known /\ Known'
         /\ faults' = faults /\ crashes' = crashes
         /\ Fresh \/ PingSent
<1>. USE DEF FreshInv, Fresh, AskedInv
<1>1. CASE Watch(0)
  BY <1>1, WatchStands DEF Disturbed
<1>2. CASE Watch(1) /\ Tick
  <2>1. ~PingSent
    BY <1>2 DEF Tick, Call!CallPass, PingSent
  <2>2. unasked' = unasked + 1
    BY <1>2, <2>1, WatchGoesOn, AskedEnough DEF PingsGoOn
  <2>3. settled' \in Nat /\ settled' <= settled + 1 /\ ~Disturbed
    BY <1>2, <2>2, WatchGoesOn DEF WatchTypeOK
  <2>. QED
    BY <2>2, <2>3 DEF Disturbed
<1>. QED
  BY <1>1, <1>2, TimedSteps

FreshState == /\ SInv /\ InTime /\ Known
              /\ Fresh /\ FreshPing /\ FreshSchedule

FreshGoal == FreshPing /\ FreshSchedule

(* The first ping after a disturbance, or the next one.                      *)
LEMMA FreshSend ==
  ASSUME SInv, InTime, AskedInv, FreshInv, Known, SendPing, PingSent, settled' = settled,
         SetBack' = SetBack
  PROVE  FreshGoal'
<1>. USE CallFields, Numbers DEF At, Goto, idVars, handlerVars, clockVars, callVars, envVars
<1>1. call["ping"] = "idle" /\ call'["ping"] = "requested" /\ age'["ping"] = 0
      /\ sentUserId' = pingUserId
  BY DEF SendPing, PingSent, Call!Start, Call!IsPerforming, AskedInv, PingUnderWay
<1>2. /\ pc' = "poll" /\ pingAge' = 0 /\ lag' = 0
      /\ UNCHANGED <<clientUniqueId, playerHandler, pongAge>>
  BY DEF SendPing, TurnOver
<1>3. FreshPing'
  BY <1>1, <1>2 DEF FreshPing, SInv, PingsCarryOurId
<1>4. FirstInterval'
  BY <1>1, <1>2 DEF FirstInterval, Older
<1>5. CASE Fresh
  <2>1. Served /\ pongAge < lag
    BY <1>1, <1>5 DEF FreshInv, FreshSchedule
  <2>. QED
    BY <1>1, <1>2, <1>3, <1>4, <2>1 DEF FreshGoal, FreshSchedule, Served
<1>6. CASE ~Fresh
  <2>1. settled < PingLimit + SetBack
    BY <1>6, AskedEnough, Limits DEF Fresh, FreshInv, AskedInv, PingsGoOn
  <2>. QED
    BY <1>1, <1>2, <1>3, <1>4, <2>1, Limits DEF FreshGoal, FreshSchedule
<1>. QED
  BY <1>5, <1>6

(* A step that leaves ping and clocks alone, where a pong may be arriving.   *)
LEMMA FreshAlone ==
  ASSUME FreshState, settled' = settled, SetBack' = SetBack,
         UNCHANGED <<pongAge, pingAge, lag, clientUniqueId, sentUserId>>,
         age'["ping"] = age["ping"], reply'["ping"] = reply["ping"],
         <<pc, pc'>> \in {<<"poll", "commands">>, <<"commands", "monitor">>, <<"monitor", "ping">>},
         \/ call'["ping"] = call["ping"] /\ (pc = "poll" => call["ping"] # "replied")
         \/ call["ping"] = "replied" /\ call'["ping"] = "ready" /\ pc = "poll",
         \/ playerHandler' = playerHandler
         \/ ~(Served /\ pongAge < MaxLag + age["ping"])
  PROVE  FreshGoal'
<1>1. FreshPing'
  BY DEF FreshState, FreshPing
<1>2. FreshSchedule'
  BY DEF FreshState, FreshSchedule, FirstInterval, LateInterval, Older, Served
<1>. QED
  BY <1>1, <1>2 DEF FreshGoal

LEMMA FreshAside ==
  ASSUME FreshState, Known', Aside, faults' = faults, crashes' = crashes, settled' = settled,
         SetBack' = SetBack
  PROVE  FreshGoal'
<1>. USE CallFields, Numbers DEF FreshState, At, Goto, idVars, handlerVars, clockVars, callVars,
         envVars, clientVars
<1>0. /\ clientUniqueId # InvalidId /\ call["register"] = "idle" /\ commandsInProgress = {}
      /\ ~broken /\ up /\ clientUniqueId \in registered
  BY KnownIsRegistered DEF Known, Reachable
<1>1. CASE Receive
  <2>1. Call!Arrive("ping")
    BY <1>0, <1>1 DEF Receive, Call!Arrive, Command
  <2>2. call["ping"] = "replied" /\ call'["ping"] = "ready"
    BY <2>1, AnswerAssumption DEF Call!Arrive, SInv, Answered
  <2>3. UNCHANGED <<age, reply, pongAge, pingAge, lag, clientUniqueId, sentUserId, playerHandler>>
        /\ pc = "poll" /\ pc' = "commands"
    BY <1>1 DEF Receive, Call!Arrive
  <2>. QED
    BY <2>2, <2>3, FreshAlone
<1>2. CASE ReceiveNothing \/ NothingToAsk
  <2>1. UNCHANGED <<call, age, reply, pongAge, pingAge, lag, clientUniqueId, sentUserId, playerHandler>>
        /\ <<pc, pc'>> \in {<<"poll", "commands">>, <<"commands", "monitor">>}
    BY <1>2 DEF ReceiveNothing, NothingToAsk
  <2>2. pc = "poll" => call["ping"] # "replied"
    BY <1>0, <1>2 DEF ReceiveNothing, NothingToAsk
  <2>. QED
    BY <2>1, <2>2, FreshAlone
<1>3. ~(SetIdFromPlayer \/ RegisterUnreadable \/ RegisterGivenUp)
  BY <1>0 DEF SetIdFromPlayer, RegisterUnreadable, RegisterGivenUp
<1>4. CASE PlayerOffline \/ PlayerOnline \/ PlayerAsBefore
  <2>1. UNCHANGED <<call, age, reply, pongAge, pingAge, lag, clientUniqueId, sentUserId>>
        /\ pc = "monitor" /\ pc' = "ping"
    BY <1>4 DEF PlayerOffline, PlayerOnline, PlayerAsBefore
  <2>2. age["ping"] <= 2 * PingInterval + 2 * MaxLag
    BY <2>1, FreshBounds DEF FreshSchedule
  <2>3. ~PlayerOffline => playerHandler' = playerHandler
    BY <1>4 DEF PlayerOnline, PlayerAsBefore
  <2>4. PlayerOffline => ~(pongAge < MaxLag + age["ping"])
    BY <2>2 DEF PlayerOffline, InTime
  <2>. QED
    BY <2>1, <2>3, <2>4, FreshAlone
<1>5. ~(RegisterInPlayer \/ AlreadyRegistered)
  BY DEF RegisterInPlayer, AlreadyRegistered, FreshSchedule
<1>6. CASE ServePing
  <2>1. /\ call["ping"] = "requested" /\ call'["ping"] = "replied" /\ reply'["ping"].code = "OK"
        /\ UNCHANGED <<age, timeouted, pc, clientUniqueId, sentUserId, playerHandler, pongAge,
                       pingAge, lag>>
    BY <1>0, <1>6 DEF ServePing, Call!Serve, Pong, FreshPing
  <2>2. FirstInterval /\ FirstInterval'
    BY <2>1 DEF FreshSchedule, LateInterval, FirstInterval, Older
  <2>3. FreshPing'
    BY <2>1 DEF FreshPing
  <2>. QED
    BY <2>1, <2>2, <2>3 DEF FreshGoal, FreshSchedule, Served
<1>7. ~ServeRegister
  BY <1>0 DEF ServeRegister, Call!Serve
<1>8. ASSUME NEW c \in Command, Fault(c) \/ Undeliverable(c)  PROVE FALSE
  <2>1. ~Fault(c)
    BY DEF Fault
  <2>2. ~Undeliverable(c)
    BY <1>0 DEF Undeliverable, Reachable
  <2>. QED
    BY <1>8, <2>1, <2>2
<1>9. ~(PlayerCrashes \/ PlayerRestarts \/ ConnectionBreaks)
  <2>1. ~PlayerCrashes
    BY DEF PlayerCrashes
  <2>2. ~PlayerRestarts
    BY <1>0 DEF PlayerRestarts
  <2>3. ~ConnectionBreaks
    BY DEF ConnectionBreaks
  <2>. QED
    BY <2>1, <2>2, <2>3
<1>. QED
  BY <1>1, <1>2, <1>3, <1>4, <1>5, <1>6, <1>7, <1>8, <1>9 DEF Aside

(* The pong is looked at: if it is there, the client has a handler, and if   *)
(* not, it is there the next time.                                           *)
LEMMA FreshLook ==
  ASSUME FreshState, settled' = settled, SetBack' = SetBack,
         PingNotDue \/ PingReady \/ PongWithState \/ PongNotRegistered \/ NoPong
  PROVE  FreshGoal'
<1>. USE CallFields, Numbers DEF FreshState, At, Goto, idVars, handlerVars, clockVars, callVars,
         envVars
<1>0. /\ pc = "ping" /\ call["ping"] \in {"requested", "replied", "ready"}
      /\ UNCHANGED <<sentUserId, clientUniqueId>>
  BY FreshBounds DEF PingNotDue, PingReady, PongWithState, PongNotRegistered, NoPong, FreshSchedule
<1>1. CASE PingNotDue
  <2>1. /\ UNCHANGED <<call, age, reply, pongAge, pingAge, playerHandler>>
        /\ lag' = 0 /\ pc' = "poll" /\ pingAge <= PingInterval
    BY <1>1 DEF PingNotDue, TurnOver, PingDue
  <2>2. FreshPing'
    BY <1>0, <2>1 DEF FreshPing
  <2>3. FirstInterval => FirstInterval'
    BY <2>1 DEF FirstInterval, Older
  <2>4. LateInterval => LateInterval'
    BY <2>1 DEF LateInterval
  <2>. QED
    BY <1>0, <2>1, <2>2, <2>3, <2>4 DEF FreshGoal, FreshSchedule, Served
<1>2. CASE PingReady
  <2>1. /\ UNCHANGED <<call, age, reply, pongAge, pingAge, playerHandler, lag>> /\ pc' = "exec"
        /\ pingAge > PingInterval /\ call["ping"] # "ready"
    BY <1>0, <1>2, FreshBounds DEF PingReady, PingDue, Pending, Call!Expire, Call!IsPerforming
  <2>2. FirstInterval
    BY <1>0, <2>1 DEF FreshSchedule, LateInterval
  <2>3. call["ping"] = "replied"
    BY <1>0, <2>1, <2>2 DEF FirstInterval, FreshPing, InTime, Older
  <2>4. FreshPing' /\ FirstInterval'
    BY <1>0, <2>1, <2>2 DEF FreshPing, FirstInterval, Older
  <2>. QED
    BY <1>0, <2>1, <2>3, <2>4 DEF FreshGoal, FreshSchedule, Served
<1>3. CASE PongWithState
  <2>1. /\ call["ping"] = "ready" /\ call'["ping"] = "idle" /\ pongAge' = 0 /\ lag' = lag
        /\ pc' = "exec" /\ pingAge > PingInterval
        /\ playerHandler' = IF playerHandler = NoHandler THEN clientUniqueId ELSE playerHandler
    BY <1>3 DEF PongWithState, Collected, Call!Collect, Call!Settle, UpdatePlayer, PingDue
  <2>2. playerHandler' = clientUniqueId'
    BY <1>0, <2>1 DEF SInv, HandlerHoldsOurId
  <2>3. FreshPing'
    BY <1>0, <2>1 DEF FreshPing
  <2>4. lag > 0
    BY <2>1 DEF FreshSchedule
  <2>. QED
    BY <2>1, <2>2, <2>3, <2>4 DEF FreshGoal, FreshSchedule, Served
<1>4. ~PongNotRegistered
  BY DEF PongNotRegistered, Collected, Call!Collect, FreshPing
<1>5. CASE NoPong
  <2>1. /\ UNCHANGED <<call, age, reply, pongAge, playerHandler>> /\ pc' = "poll" /\ lag' = 0
        /\ pingAge' = 0 /\ pingAge > PingInterval /\ call["ping"] # "ready"
    BY <1>5 DEF NoPong, Unreadable, Pending, Call!Collect, FreshPing, PingDue, TurnOver
  <2>2. FirstInterval
    BY <1>0, <2>1 DEF FreshSchedule, LateInterval
  <2>3. call["ping"] = "replied"
    BY <1>0, <2>1, <2>2 DEF FirstInterval, FreshPing, InTime, Older
  <2>4. FreshPing' /\ LateInterval'
    BY <1>0, <2>1, <2>2, <2>3 DEF FreshPing, FirstInterval, LateInterval
  <2>. QED
    BY <1>0, <2>1, <2>3, <2>4 DEF FreshGoal, FreshSchedule, Served
<1>. QED
  BY <1>1, <1>2, <1>3, <1>4, <1>5

(* A ping that timed out once makes the client refuse where it would wait.   *)
LEMMA FreshRefused ==
  ASSUME FreshState, settled' = settled, SetBack' = SetBack, SendPing, ~PingSent
  PROVE  FreshGoal'
<1>. USE CallFields, Numbers DEF FreshState, At, Goto, idVars, handlerVars, clockVars, callVars,
         envVars
<1>1. /\ call["ping"] # "idle" /\ pc = "exec" /\ pc' = "poll" /\ pingAge' = 0 /\ lag' = 0
      /\ UNCHANGED <<call, age, reply, sentUserId, clientUniqueId, playerHandler, pongAge>>
  BY DEF SendPing, PingSent, Call!Start, Call!IsPerforming, TurnOver
<1>2. call["ping"] = "replied" /\ FirstInterval
  BY <1>1 DEF FreshSchedule
<1>3. FreshPing' /\ LateInterval'
  BY <1>1, <1>2 DEF FreshPing, FirstInterval, LateInterval
<1>. QED
  BY <1>1, <1>2, <1>3 DEF FreshGoal, FreshSchedule, Served

LEMMA FreshTick ==
  ASSUME FreshState, Tick, settled' <= settled + 1, settled \in Nat, settled' \in Nat,
         SetBack' = SetBack
  PROVE  FreshGoal'
<1>. USE CallFields, Numbers DEF FreshState
<1>1. /\ UNCHANGED <<pc, call, reply, clientUniqueId, sentUserId, playerHandler>> /\ lag' = lag + 1
      /\ pongAge' <= pongAge + 1 /\ pongAge' \in Int
      /\ pingAge' = IF pingAge < PingInterval + ClockBack + 1
                    THEN pingAge + 1 ELSE PingInterval + ClockBack + 1
      /\ call["ping"] = "requested" => age["ping"] < NetDelay
  BY DEF Tick, Pass, Older, Call!CallPass, SInv, TypeOK, ClockTypeOK, idVars, handlerVars, Known
<1>2. call["ping"] # "idle" => age'["ping"] = age["ping"] + 1
  BY FreshBounds DEF Tick, Call!CallPass, Call!IsPerforming, Call!Older, Call!Expired
<1>3. FreshPing'
  BY <1>1, <1>2 DEF FreshPing
<1>4. CASE call["ping"] = "idle"
  BY <1>1, <1>3, <1>4 DEF FreshGoal, FreshSchedule, Served
<1>5. CASE call["ping"] # "idle"
  <2>1. FirstInterval => FirstInterval'
    BY <1>1, <1>2, <1>5 DEF FirstInterval, Older
  <2>2. LateInterval => LateInterval'
    BY <1>1, <1>2, <1>5 DEF LateInterval
  <2>3. settled < PingLimit + SetBack + age["ping"]
          => settled' < PingLimit + SetBack' + age'["ping"]
    BY <1>2, <1>5, Limits
  <2>. QED
    BY <1>1, <1>2, <1>3, <1>5, <2>1, <2>2, <2>3 DEF FreshGoal, FreshSchedule, Served
<1>. QED
  BY <1>4, <1>5

LEMMA FreshStep ==
  ASSUME SInv, InTime, WatchTypeOK, AskedInv, FreshInv, TimedNext
  PROVE  FreshInv'
<1>1. settled' \in Nat /\ (settled' > 0 => Known')
  BY TimedSteps, WatchStands, WatchGoesOn, Limits DEF FreshInv, Disturbed, WatchTypeOK
<1>2. ASSUME Fresh'  PROVE FreshGoal'
  <2>1. /\ Known /\ Known' /\ faults' = faults /\ crashes' = crashes
        /\ Fresh \/ PingSent
    BY <1>2, FreshBefore
  <2>2. Fresh => FreshState
    BY <2>1 DEF FreshState, FreshInv
  <2>0. SetBack' = SetBack
    <3>1. adjusted' = adjusted
      BY <2>1, Numbers DEF TimedNext, Receive, ReceiveNothing, NothingToAsk, SetIdFromPlayer,
         RegisterUnreadable, RegisterGivenUp, PlayerOffline, PlayerOnline, PlayerAsBefore,
         PingNotDue, PingReady, PongWithState, PongNotRegistered, NoPong, RegisterInPlayer,
         AlreadyRegistered, SendPing, TurnOver, ServePing, ServeRegister, Fault, Undeliverable,
         PlayerCrashes, PlayerRestarts, ConnectionBreaks, ClockIsSet, Tick, envVars
    <3>. QED
      BY <3>1 DEF SetBack
  <2>3. Watch(0) => settled' = settled
    BY <2>1, WatchStands DEF Disturbed
  <2>4. ASSUME Watch(0), Aside  PROVE FreshGoal'
    BY <2>0, <2>1, <2>2, <2>3, <2>4, AsideKeepsPing, FreshAside DEF PingSent
  <2>5. ASSUME Watch(0), PingNotDue \/ PingReady \/ PongWithState \/ PongNotRegistered \/ NoPong
        PROVE  FreshGoal'
    <3>1. ~PingSent
      BY <2>5, CallFields DEF PingNotDue, PingReady, PongWithState, PongNotRegistered, NoPong,
         Collected, Unreadable, Call!Collect, Call!Expire, Call!Settle, PingSent, callVars
    <3>. QED
      BY <2>0, <2>1, <2>2, <2>3, <2>5, <3>1, FreshLook
  <2>6. ASSUME Watch(0), SendPing  PROVE FreshGoal'
    BY <2>0, <2>1, <2>2, <2>3, <2>6, FreshSend, FreshRefused
  <2>7. ~ClockIsSet
    BY <2>1, Numbers DEF ClockIsSet
  <2>8. ASSUME Watch(1), Tick  PROVE FreshGoal'
    <3>1. ~PingSent
      BY <2>8 DEF Tick, Call!CallPass, PingSent
    <3>. QED
      BY <1>1, <2>0, <2>1, <2>2, <2>8, <3>1, WatchGoesOn, FreshTick DEF FreshInv
  <2>. QED
    BY <2>4, <2>5, <2>6, <2>7, <2>8, TimedSteps
<1>. QED
  BY <1>1, <1>2 DEF FreshInv, FreshGoal

LEMMA FreshStutter ==
  ASSUME UNCHANGED <<vars, watches>>  PROVE FreshInv' <=> FreshInv
BY DEF vars, clientVars, idVars, handlerVars, clockVars, callVars, envVars, watches,
   FreshInv, Fresh, FreshPing, FreshSchedule, FirstInterval, LateInterval, Served, Known, Reachable,
   Older, SetBack

(* Whatever has happened before, a client that the player knows and that     *)
(* nothing disturbs any more has its handler in a bounded time and keeps it: *)
(* after less than 17 s with the code's limits, a second for an answer and   *)
(* for a turn, and as much more as the clock was set back by.  The pings go  *)
(* on, the next is answered, the pong is looked at when the next but one is  *)
(* due, and so are all that follow.                                          *)
THEOREM KnownClientIsServed ==
  ASSUME InTime, MaxLag > 0  PROVE TimedSafety => []ServedInTime
<1>1. TimedInit => FreshInv
  BY FreshInitially
<1>2. SInv /\ WatchTypeOK /\ AskedInv /\ FreshInv /\ [TimedNext]_<<vars, watches>> => FreshInv'
  BY FreshStep, FreshStutter
<1>3. SInv /\ AskedInv /\ FreshInv => ServedInTime
  BY FreshEnough
<1>4. TimedSafety => [](SInv /\ WatchTypeOK /\ AskedInv)
  BY AskedInvariance
<1>. QED
  BY <1>1, <1>2, <1>3, <1>4, PTL DEF TimedSafety

-----------------------------------------------------------------------------
(* An undisturbed client registers in time. *)

(* The time limit of the register command allows for the answer and for      *)
(* four turns.                                                               *)
RegisterInTime == NetDelay + 4 * MaxLag <= Expiration

(* No pong competes for the next poll.                                       *)
Taken == call["ping"] \notin {"requested", "replied"}

AnswerBy(limit) == age["register"] <= NetDelay + limit + lag

(* The answer is there after the delay of the network.  The first poll after *)
(* that may take a pong instead, and so may the second, if the first pong    *)
(* was looked at at once and the next ping was answered as fast; but then    *)
(* no other ping is due before the third.                                    *)
AnswerWaits ==
    \/ AnswerBy(0)
    \/ AnswerBy(MaxLag) /\ (pc = "poll" \/ Taken)
    \/ AnswerBy(2 * MaxLag) /\ (pc = "poll" \/ Taken) /\ pingAge <= lag
    \/ AnswerBy(3 * MaxLag) /\ pc = "poll" /\ call["ping"] = "ready"

RegisterUnderWay ==
    /\ "register" \in commandsInProgress
    /\ call["register"] \in {"requested", "replied", "ready"}
    /\ call["ping"] = "idle" => pc \in {"register", "exec"} /\ pingAge > PingInterval
    /\ call["register"] = "requested" => age["register"] <= NetDelay
    /\ call["register"] = "replied" => AnswerWaits
    /\ call["register"] = "ready" => pc = "commands" /\ AnswerBy(3 * MaxLag)
    /\ call["register"] \in {"replied", "ready"} =>
            reply["register"].code # "GARBLED" /\ reply["register"].id \in registered
    /\ unregistered <= 3 * PingInterval + 3 * MaxLag + age["register"]

(* The first ping, whose pong tells that there is no registration: it is     *)
(* sent when the last ping of the instance before is an interval old.        *)
NotYetAsked ==
    /\ age["register"] = 0
    /\ call["ping"] = "idle" /\ pc = "register" =>
        /\ pingAge > PingInterval
        /\ unregistered <= 3 * PingInterval + 2 * MaxLag + lag
    /\ call["ping"] = "idle" /\ pc # "register" =>
        /\ unregistered <= PingInterval + lag
        /\ pingAge <= PingInterval => unregistered <= pingAge
    /\ call["ping"] # "idle" => unregistered <= PingInterval + MaxLag + age["ping"]

RegistrationGoes ==
    /\ clientUniqueId # InvalidId => Known
    /\ registrationInProgress => RegisterUnderWay
    /\ ~registrationInProgress /\ ~Known => NotYetAsked

RegisterInv ==
    /\ unregistered \in Nat
    /\ unregistered > 0 => Calm /\ ~Known
    /\ Calm => RegistrationGoes

LEMMA RegisterInitially == TimedInit => RegisterInv
BY Limits, SessionAssumption DEF TimedInit, RegisterInv, RegistrationGoes, NotYetAsked, Init, Call!CallInit,
   Command, Known, Calm

(* What one step of an unregistered client may assume.                       *)
RegisterState ==
    /\ CalmState /\ RegisterInTime
    /\ clientUniqueId = InvalidId
    /\ RegistrationGoes
    /\ unregistered \in Nat

LEMMA RegisterFacts ==
  ASSUME RegisterState
  PROVE  /\ clientUniqueId \notin registered /\ ~Known /\ up /\ ~broken /\ Reachable
         /\ registrationInProgress => RegisterUnderWay
         /\ ~registrationInProgress =>
                /\ NotYetAsked /\ call["register"] = "idle" /\ commandsInProgress = {}
         /\ call["register"] # "idle" => age["register"] <= NetDelay + 4 * MaxLag
         /\ call["register"] # "idle" => ~Call!Expired("register")
         /\ call["ping"] \in {"idle", "requested", "replied", "ready"}
         /\ call["ping"] \in {"replied", "ready"} => reply["ping"].code = "NOT_REGISTERED"
         /\ call["ping"] # "idle" => pc \in {"poll", "commands", "monitor", "ping"}
                                     /\ ~Call!Expired("ping")
         /\ ~timeouted["ping"]
<1>. USE CallFields, Numbers, CalmNumbers DEF RegisterState, CalmState
<1>1. clientUniqueId \notin registered /\ ~Known /\ up /\ ~broken /\ Reachable
  BY SessionAssumption DEF SInv, TypeOK, PlayerTypeOK, Known, Reachable
<1>2. /\ registrationInProgress => RegisterUnderWay
      /\ ~registrationInProgress =>
            /\ NotYetAsked /\ call["register"] = "idle" /\ commandsInProgress = {}
  BY <1>1 DEF RegistrationGoes, SInv, LatchHolds
<1>3. call["register"] # "idle" => age["register"] <= NetDelay + 4 * MaxLag
  BY <1>2 DEF RegisterUnderWay, AnswerWaits, AnswerBy
<1>4. call["register"] # "idle" => ~Call!Expired("register")
  BY <1>3 DEF RegisterInTime, Call!Expired
<1>5. call["ping"] \in {"idle", "requested", "replied", "ready"} /\ ~timeouted["ping"]
  BY DEF PingIntact
<1>6. call["ping"] \in {"replied", "ready"} => reply["ping"].code = "NOT_REGISTERED"
  <2>1. call["ping"] \in {"replied", "ready"} =>
            reply["ping"].code \in {"OK", "NOT_REGISTERED", "GARBLED"}
    BY DEF SInv, Answered, Answer
  <2>2. InvalidId \notin UserId
    BY SessionAssumption
  <2>. QED
    BY <2>1, <2>2 DEF SInv, PingsCarryOurId, PingIntact
<1>7. call["ping"] # "idle" => pc \in {"poll", "commands", "monitor", "ping"}
                              /\ ~Call!Expired("ping")
  BY PongIsRecent DEF Schedule, Call!Expired
<1>. QED
  BY <1>1, <1>2, <1>3, <1>4, <1>5, <1>6, <1>7

(* A step that leaves the registration and the clocks alone.                 *)
LEMMA RegisterLeftAlone ==
  ASSUME RegisterState, unregistered' <= unregistered, unregistered' \in Nat,
         UNCHANGED <<pingAge, lag, clientUniqueId, registrationInProgress, commandsInProgress,
                     registered, up, broken>>,
         call'["register"] = call["register"], age'["register"] = age["register"],
         reply'["register"] = reply["register"], call["register"] = "ready" => pc' = pc,
         call'["ping"] = "idle" <=> call["ping"] = "idle", age'["ping"] = age["ping"],
         call["ping"] = "ready" => call'["ping"] = "ready",
         \/ pc' = pc
         \/ /\ {pc, pc'} \subseteq {"poll", "commands", "monitor", "ping"}
            /\ pc' # "poll"
            /\ pc = "poll" /\ call["register"] = "replied" => Taken' /\ ~Taken
         \/ pc = "register" /\ pc' = "exec" /\ registrationInProgress
  PROVE  RegistrationGoes'
<1>. USE CallFields, Numbers, CalmNumbers, RegisterFacts DEF RegisterState, CalmState
<1>1. ~Known' /\ clientUniqueId' = InvalidId
  BY DEF RegisterState, Known, Reachable
<1>2. CASE registrationInProgress
  <2>1. ASSUME call["register"] = "replied"  PROVE AnswerWaits'
    <3>1. \A l \in {0, MaxLag, 2 * MaxLag, 3 * MaxLag} : AnswerBy(l) => AnswerBy(l)'
      BY DEF AnswerBy
    <3>2. AnswerWaits
      BY <1>2, <2>1 DEF RegisterUnderWay
    <3>3. pc = "poll" => pc' = "poll" \/ (Taken' /\ ~Taken)
      BY <2>1
    <3>4. call["ping"] = "ready" => Taken
      BY DEF Taken
    <3>5. Taken => Taken'
      BY DEF Taken
    <3>. QED
      BY <3>1, <3>2, <3>3, <3>4, <3>5 DEF AnswerWaits
  <2>. QED
    BY <1>1, <1>2, <2>1 DEF RegistrationGoes, RegisterUnderWay, AnswerBy
<1>3. CASE ~registrationInProgress
  BY <1>1, <1>3 DEF RegistrationGoes, NotYetAsked
<1>. QED
  BY <1>2, <1>3

LEMMA RegisterPoll ==
  ASSUME RegisterState, unregistered' <= unregistered, unregistered' \in Nat,
         Receive \/ ReceiveNothing
  PROVE  RegistrationGoes'
<1>. USE CallFields, Numbers, CalmNumbers, RegisterFacts
     DEF RegisterState, CalmState, At, Goto, idVars, handlerVars, clockVars, callVars, envVars
<1>0. /\ pc = "poll" /\ pc' = "commands"
      /\ UNCHANGED <<pingAge, lag, clientUniqueId, registrationInProgress, commandsInProgress,
                     registered, up, broken, age, reply>>
  BY DEF Receive, ReceiveNothing, Call!Arrive
<1>1. call["register"] # "ready"
  BY <1>0 DEF RegisterUnderWay
<1>2. CASE ReceiveNothing
  BY <1>0, <1>1, <1>2, RegisterLeftAlone DEF ReceiveNothing
<1>3. CASE Call!Arrive("ping") /\ Receive
  <2>1. call["ping"] = "replied" /\ call'["ping"] = "ready" /\ call'["register"] = call["register"]
    BY <1>3, AnswerAssumption DEF Call!Arrive, SInv, Answered
  <2>. QED
    BY <1>0, <1>1, <2>1, RegisterLeftAlone DEF Taken
<1>4. CASE Call!Arrive("register") /\ Receive
  <2>1. call["register"] = "replied" /\ call'["register"] = "ready" /\ call'["ping"] = call["ping"]
    BY <1>4, AnswerAssumption DEF Call!Arrive, SInv, Answered
  <2>2. registrationInProgress /\ RegisterUnderWay
    BY <2>1
  <2>3. AnswerBy(3 * MaxLag)'
    BY <1>0, <2>1, <2>2 DEF RegisterUnderWay, AnswerWaits, AnswerBy
  <2>4. RegisterUnderWay'
    BY <1>0, <2>1, <2>2, <2>3 DEF RegisterUnderWay
  <2>. QED
    BY <1>0, <2>2, <2>4 DEF RegistrationGoes, Known
<1>. QED
  BY <1>2, <1>3, <1>4 DEF Receive, Command

LEMMA RegisterCommands ==
  ASSUME RegisterState, unregistered' <= unregistered, unregistered' \in Nat,
         NothingToAsk \/ SetIdFromPlayer \/ RegisterUnreadable \/ RegisterGivenUp
  PROVE  RegistrationGoes'
<1>. USE CallFields, Numbers, CalmNumbers, RegisterFacts
     DEF RegisterState, CalmState, At, Goto, idVars, handlerVars, clockVars, callVars, envVars
<1>1. CASE NothingToAsk
  <2>1. call["register"] # "ready"
    BY <1>1 DEF NothingToAsk, Pending, RegisterUnderWay
  <2>. QED
    BY <1>1, <2>1, RegisterLeftAlone DEF NothingToAsk
<1>2. CASE SetIdFromPlayer
  <2>1. call["register"] = "ready" /\ registrationInProgress
    BY <1>2 DEF SetIdFromPlayer, Collected, Call!Collect
  <2>2. Known' /\ ~registrationInProgress'
    BY <1>2, <2>1 DEF SetIdFromPlayer, RegisterUnderWay, Known, Reachable
  <2>. QED
    BY <2>2 DEF RegistrationGoes
<1>3. ~RegisterUnreadable
  BY DEF RegisterUnreadable, Unreadable, Call!Collect, RegisterUnderWay
<1>4. ~RegisterGivenUp
  BY DEF RegisterGivenUp, Call!Expire, Call!IsPerforming, RegisterUnderWay
<1>. QED
  BY <1>1, <1>2, <1>3, <1>4

LEMMA RegisterMonitor ==
  ASSUME RegisterState, unregistered' <= unregistered, unregistered' \in Nat,
         PlayerOffline \/ PlayerOnline \/ PlayerAsBefore
  PROVE  RegistrationGoes'
<1>. USE CallFields, Numbers, CalmNumbers, RegisterFacts
     DEF RegisterState, CalmState, At, Goto, idVars, handlerVars, clockVars, callVars, envVars
<1>1. /\ pc = "monitor" /\ pc' = "ping"
      /\ UNCHANGED <<pingAge, lag, clientUniqueId, registrationInProgress, commandsInProgress,
                     registered, up, broken, call, age, reply>>
  BY DEF PlayerOffline, PlayerOnline, PlayerAsBefore
<1>2. call["register"] # "ready"
  BY <1>1 DEF RegisterUnderWay
<1>. QED
  BY <1>1, <1>2, RegisterLeftAlone

(* The turn is over: what was late for one poll is there for the next.       *)
LEMMA RegisterTurnOver ==
  ASSUME RegisterState, registrationInProgress, unregistered' <= unregistered, unregistered' \in Nat,
         pc \in {"ping", "exec"}, TurnOver,
         UNCHANGED <<clientUniqueId, registrationInProgress, commandsInProgress>>,
         call'["register"] = call["register"], age'["register"] = age["register"],
         reply'["register"] = reply["register"], call'["ping"] # "idle",
         \/ pingAge' = pingAge /\ pingAge <= PingInterval /\ call'["ping"] = call["ping"]
         \/ pingAge' = 0 /\ pingAge > PingInterval
  PROVE  RegistrationGoes'
<1>. USE CallFields, Numbers, CalmNumbers, RegisterFacts DEF RegisterState, CalmState
<1>1. /\ pc' = "poll" /\ lag' = 0
      /\ UNCHANGED <<up, broken, registered>>
  BY DEF TurnOver, Goto
<1>2. RegisterUnderWay
  OBVIOUS
<1>3. ASSUME call["register"] = "replied"  PROVE AnswerWaits'
  <2>1. CASE AnswerBy(0)
    BY <1>1, <2>1 DEF AnswerWaits, AnswerBy
  <2>2. CASE AnswerBy(MaxLag) /\ Taken
    <3>1. AnswerBy(2 * MaxLag)'
      BY <1>1, <2>2 DEF AnswerBy
    <3>2. CASE pingAge' = 0
      BY <1>1, <3>1, <3>2 DEF AnswerWaits
    <3>3. CASE call'["ping"] = call["ping"]
      <4>1. call'["ping"] = "ready"
        BY <2>2, <3>3 DEF Taken
      <4>2. AnswerBy(3 * MaxLag)'
        BY <1>1, <2>2 DEF AnswerBy
      <4>. QED
        BY <1>1, <4>1, <4>2 DEF AnswerWaits
    <3>. QED
      BY <3>2, <3>3
  <2>3. CASE AnswerBy(2 * MaxLag) /\ Taken /\ pingAge <= lag
    <3>1. AnswerBy(3 * MaxLag)'
      BY <1>1, <2>3 DEF AnswerBy
    <3>2. pingAge <= PingInterval
      BY <2>3 DEF InTime
    <3>3. call'["ping"] = "ready"
      BY <2>3, <3>2 DEF Taken
    <3>. QED
      BY <1>1, <3>1, <3>3 DEF AnswerWaits
  <2>. QED
    BY <1>2, <1>3, <2>1, <2>2, <2>3 DEF RegisterUnderWay, AnswerWaits
<1>4. call["register"] # "ready"
  BY <1>2 DEF RegisterUnderWay
<1>5. RegisterUnderWay'
  BY <1>1, <1>2, <1>3, <1>4 DEF RegisterUnderWay
<1>. QED
  BY <1>1, <1>5 DEF RegistrationGoes

LEMMA RegisterLook ==
  ASSUME RegisterState, unregistered' <= unregistered, unregistered' \in Nat,
         PingNotDue \/ PingReady \/ PongWithState \/ PongNotRegistered \/ NoPong
  PROVE  RegistrationGoes'
<1>. USE CallFields, Numbers, CalmNumbers, RegisterFacts
     DEF RegisterState, CalmState, At, Goto, idVars, handlerVars, clockVars, callVars, envVars
<1>0. /\ pc = "ping" /\ call["register"] # "ready"
      /\ registrationInProgress => call["ping"] # "idle"
      /\ UNCHANGED <<clientUniqueId, registrationInProgress, commandsInProgress>>
  BY DEF PingNotDue, PingReady, PongWithState, PongNotRegistered, NoPong, RegisterUnderWay
<1>1. CASE PingNotDue
  <2>1. /\ UNCHANGED <<call, age, reply, pingAge>> /\ pingAge <= PingInterval /\ TurnOver
    BY <1>1 DEF PingNotDue, PingDue
  <2>2. CASE registrationInProgress
    BY <1>0, <2>1, <2>2, RegisterTurnOver
  <2>3. CASE ~registrationInProgress
    <3>1. NotYetAsked'
      BY <1>0, <2>1, <2>3 DEF NotYetAsked, TurnOver
    <3>. QED
      BY <1>0, <2>3, <3>1 DEF RegistrationGoes
  <2>. QED
    BY <2>2, <2>3
<1>2. CASE PingReady
  <2>1. call["ping"] = "idle" /\ UNCHANGED <<call, age, pingAge, lag>> /\ pingAge > PingInterval
        /\ pc' = "exec"
    BY <1>2 DEF PingReady, PingDue, Call!Expire, Call!IsPerforming
  <2>2. ~registrationInProgress
    BY <1>0, <2>1
  <2>3. NotYetAsked'
    BY <1>0, <2>1, <2>2 DEF NotYetAsked
  <2>. QED
    BY <1>0, <2>2, <2>3 DEF RegistrationGoes
<1>3. ~PongWithState
  BY DEF PongWithState, Collected, Call!Collect
<1>4. CASE PongNotRegistered
  <2>1. /\ call["ping"] = "ready" /\ call'["ping"] = "idle" /\ call'["register"] = call["register"]
        /\ age'["register"] = age["register"] /\ reply'["register"] = reply["register"]
        /\ UNCHANGED <<pingAge, lag, registered>> /\ pc' = "register" /\ pingAge > PingInterval
    BY <1>4 DEF PongNotRegistered, Collected, Call!Collect, Call!Settle, PingDue
  <2>2. CASE registrationInProgress
    <3>1. ~(pingAge <= lag)
      BY <2>1 DEF InTime
    <3>2. call["register"] = "replied" => AnswerBy(0) \/ AnswerBy(MaxLag)
      BY <1>0, <2>2, <3>1 DEF RegisterUnderWay, AnswerWaits
    <3>3. call["register"] = "replied" => AnswerWaits'
      BY <2>1, <3>2 DEF AnswerWaits, AnswerBy, Taken
    <3>4. RegisterUnderWay'
      BY <1>0, <2>1, <2>2, <3>3 DEF RegisterUnderWay
    <3>. QED
      BY <1>0, <2>2, <3>4 DEF RegistrationGoes
  <2>3. CASE ~registrationInProgress
    <3>1. age["ping"] <= 2 * PingInterval + MaxLag + lag
      BY <2>1 DEF Schedule, FirstInterval, SecondInterval
    <3>2. NotYetAsked'
      BY <1>0, <2>1, <2>3, <3>1 DEF NotYetAsked
    <3>. QED
      BY <1>0, <2>3, <3>2 DEF RegistrationGoes
  <2>. QED
    BY <2>2, <2>3
<1>5. CASE NoPong
  <2>1. /\ UNCHANGED <<call, age, reply>> /\ call["ping"] # "idle" /\ TurnOver
        /\ pingAge' = 0 /\ pingAge > PingInterval
    BY <1>5 DEF NoPong, Unreadable, Pending, Call!Collect, Call!IsPerforming, PingDue
  <2>2. CASE registrationInProgress
    BY <1>0, <2>1, <2>2, RegisterTurnOver
  <2>3. CASE ~registrationInProgress
    <3>1. NotYetAsked'
      BY <1>0, <2>1, <2>3 DEF NotYetAsked
    <3>. QED
      BY <1>0, <2>3, <3>1 DEF RegistrationGoes
  <2>. QED
    BY <2>2, <2>3
<1>. QED
  BY <1>1, <1>2, <1>3, <1>4, <1>5

LEMMA RegisterExec ==
  ASSUME RegisterState, unregistered' <= unregistered, unregistered' \in Nat,
         RegisterInPlayer \/ AlreadyRegistered \/ SendPing
  PROVE  RegistrationGoes'
<1>. USE CallFields, Numbers, CalmNumbers, RegisterFacts
     DEF RegisterState, CalmState, At, Goto, idVars, handlerVars, clockVars, callVars, envVars
<1>0. /\ pc \in {"register", "exec"} /\ call["register"] # "ready" /\ call["ping"] = "idle"
      /\ clientUniqueId' = clientUniqueId
  BY DEF RegisterInPlayer, AlreadyRegistered, SendPing, RegisterUnderWay
<1>1. CASE RegisterInPlayer
  <2>1. ~registrationInProgress /\ pc = "register"
    BY <1>1 DEF RegisterInPlayer, MayRegister
  <2>2. /\ call'["register"] = "requested" /\ call'["ping"] = "idle" /\ age' = age
        /\ "register" \in commandsInProgress' /\ registrationInProgress' /\ pc' = "exec"
        /\ UNCHANGED <<pingAge, lag>>
    BY <1>0, <1>1 DEF RegisterInPlayer, Call!Start
  <2>3. age["register"] = 0 /\ pingAge > PingInterval
        /\ unregistered <= 3 * PingInterval + 2 * MaxLag + lag
    BY <1>0, <2>1 DEF NotYetAsked
  <2>4. RegisterUnderWay'
    BY <2>2, <2>3 DEF RegisterUnderWay
  <2>. QED
    BY <1>0, <2>2, <2>4 DEF RegistrationGoes
<1>2. CASE AlreadyRegistered
  <2>1. registrationInProgress /\ pc = "register" /\ pc' = "exec"
    BY <1>2 DEF AlreadyRegistered, MayRegister
  <2>. QED
    BY <1>0, <1>2, <2>1, RegisterLeftAlone DEF AlreadyRegistered
<1>3. CASE SendPing
  <2>1. /\ call'["ping"] = "requested" /\ age' = age /\ age["ping"] = 0 /\ pingAge' = 0 /\ TurnOver
        /\ call'["register"] = call["register"] /\ reply' = reply /\ pc = "exec"
        /\ UNCHANGED <<registrationInProgress, commandsInProgress>>
    BY <1>0, <1>3 DEF SendPing, Call!Start, Call!IsPerforming, PingIntact
  <2>2. CASE registrationInProgress
    <3>1. pingAge > PingInterval
      BY <1>0, <2>2 DEF RegisterUnderWay
    <3>. QED
      BY <1>0, <2>1, <2>2, <3>1, RegisterTurnOver
  <2>3. CASE ~registrationInProgress
    <3>1. NotYetAsked'
      BY <1>0, <2>1, <2>3 DEF NotYetAsked
    <3>. QED
      BY <1>0, <2>1, <2>3, <3>1 DEF RegistrationGoes
  <2>. QED
    BY <2>2, <2>3
<1>. QED
  BY <1>1, <1>2, <1>3

LEMMA RegisterServe ==
  ASSUME RegisterState, unregistered' <= unregistered, unregistered' \in Nat,
         ServePing \/ ServeRegister
  PROVE  RegistrationGoes'
<1>. USE CallFields, Numbers, CalmNumbers, RegisterFacts
     DEF RegisterState, CalmState, idVars, handlerVars, clockVars, callVars, envVars, clientVars
<1>1. CASE ServePing
  <2>1. /\ call["ping"] = "requested" /\ call'["ping"] = "replied"
        /\ call'["register"] = call["register"] /\ reply'["register"] = reply["register"]
        /\ UNCHANGED <<pc, age, pingAge, lag, clientUniqueId, registrationInProgress,
                       commandsInProgress, registered, up, broken>>
    BY <1>1 DEF ServePing, Call!Serve
  <2>. QED
    BY <2>1, RegisterLeftAlone
<1>2. CASE ServeRegister
  <2>1. PICK u \in UserId \ registered :
            Call!Serve("register", Registered(u)) /\ registered' = registered \cup {u}
    BY <1>2 DEF ServeRegister
  <2>2. /\ call["register"] = "requested" /\ call'["register"] = "replied"
        /\ call'["ping"] = call["ping"] /\ reply'["register"] = Registered(u)
        /\ UNCHANGED <<pc, age, pingAge, lag, clientUniqueId, registrationInProgress,
                       commandsInProgress>>
    BY <1>2, <2>1 DEF ServeRegister, Call!Serve
  <2>3. registrationInProgress /\ RegisterUnderWay
    BY <2>2
  <2>4. AnswerBy(0)'
    BY <2>2, <2>3 DEF RegisterUnderWay, AnswerBy
  <2>5. RegisterUnderWay'
    BY <2>1, <2>2, <2>3, <2>4 DEF RegisterUnderWay, AnswerWaits, Registered
  <2>. QED
    BY <2>2, <2>3, <2>5 DEF RegistrationGoes
<1>. QED
  BY <1>1, <1>2

LEMMA RegisterTick ==
  ASSUME RegisterState, unregistered' <= unregistered + 1, unregistered' \in Nat, Tick
  PROVE  RegistrationGoes'
<1>. USE CallFields, Numbers, CalmNumbers, RegisterFacts DEF RegisterState, CalmState
<1>1. /\ UNCHANGED <<pc, call, reply, clientUniqueId, registrationInProgress, commandsInProgress,
                     registered, up, broken>>
      /\ lag' = lag + 1
      /\ pingAge' = IF pingAge < PingInterval + ClockBack + 1
                    THEN pingAge + 1 ELSE PingInterval + ClockBack + 1
      /\ call["register"] = "requested" => age["register"] < NetDelay
  BY DEF Tick, Pass, Older, Call!CallPass, SInv, TypeOK, ClockTypeOK, idVars, handlerVars
<1>2. /\ call["register"] # "idle" => age'["register"] = age["register"] + 1
      /\ call["register"] = "idle" => age'["register"] = age["register"]
      /\ call["ping"] # "idle" => age'["ping"] = age["ping"] + 1
  BY DEF Tick, Call!CallPass, Call!IsPerforming, Call!Older, Call!Expired
<1>3. CASE registrationInProgress
  <2>1. RegisterUnderWay /\ call["register"] # "idle"
    BY <1>3 DEF RegisterUnderWay
  <2>2. \A l \in {0, MaxLag, 2 * MaxLag, 3 * MaxLag} : AnswerBy(l) => AnswerBy(l)'
    BY <1>1, <1>2, <2>1 DEF AnswerBy
  <2>3. call["register"] = "replied" => AnswerWaits'
    BY <1>1, <2>1, <2>2 DEF RegisterUnderWay, AnswerWaits, Taken
  <2>4. call["register"] = "ready" => AnswerBy(3 * MaxLag)'
    BY <2>1, <2>2 DEF RegisterUnderWay
  <2>5. RegisterUnderWay'
    BY <1>1, <1>2, <2>1, <2>3, <2>4 DEF RegisterUnderWay
  <2>. QED
    BY <1>1, <1>3, <2>5 DEF RegistrationGoes
<1>4. CASE ~registrationInProgress
  <2>1. NotYetAsked'
    BY <1>1, <1>2, <1>4 DEF NotYetAsked
  <2>. QED
    BY <1>1, <1>4, <2>1 DEF RegistrationGoes
<1>. QED
  BY <1>3, <1>4

(* A calm player forgets nobody and stays.                                   *)
LEMMA KnownStays ==
  ASSUME SInv, SInv', Known, [Next]_vars, FaultsAreCounted', Calm', Calm
  PROVE  Known' /\ ~registrationInProgress'
<1>1. up' /\ ~broken'
  BY DEF FaultsAreCounted, Calm
<1>2. clientUniqueId' = clientUniqueId
  <2>1. ~SetIdFromPlayer
    BY KnownIsRegistered DEF SetIdFromPlayer
  <2>. QED
    BY <2>1 DEF Next, Maintenance, Receive, ReceiveNothing, NothingToAsk, RegisterUnreadable,
       RegisterGivenUp, PlayerOffline, PlayerOnline, PlayerAsBefore, PingNotDue, PingReady,
       PongWithState, PongNotRegistered, NoPong, RegisterInPlayer, AlreadyRegistered, SendPing,
       Environment, ServePing, ServeRegister, Fault, PlayerCrashes, PlayerRestarts, ConnectionBreaks,
       Undeliverable, ClockIsSet, Tick, idVars, clientVars, vars
<1>3. registered \subseteq registered'
  <2>1. ~PlayerCrashes
    BY <1>1 DEF PlayerCrashes
  <2>. QED
    BY <2>1 DEF Next, Maintenance, Receive, ReceiveNothing, NothingToAsk, SetIdFromPlayer,
       RegisterUnreadable, RegisterGivenUp, PlayerOffline, PlayerOnline, PlayerAsBefore, PingNotDue,
       PingReady, PongWithState, PongNotRegistered, NoPong, RegisterInPlayer, AlreadyRegistered,
       SendPing, Environment, ServePing, ServeRegister, Fault, PlayerRestarts, ConnectionBreaks,
       Undeliverable, ClockIsSet, Tick, TurnOver, envVars, vars
<1>4. Known'
  BY <1>1, <1>2, <1>3 DEF Known, Reachable
<1>5. clientUniqueId' # InvalidId
  BY <1>2, KnownIsRegistered
<1>. QED
  BY <1>4, <1>5 DEF SInv, LatchHolds

LEMMA RegisterStep ==
  ASSUME SInv, InTime, RegisterInTime, WatchTypeOK, FaultsAreCounted, CalmInv, RegisterInv, TimedNext
  PROVE  RegisterInv'
<1>0. SInv' /\ FaultsAreCounted' /\ (Calm' => Calm) /\ [Next]_vars
  BY TimedIsNext, NextInv, CountedStep
<1>1. unregistered' \in Nat
  BY TimedSteps, WatchStands, WatchGoesOn, Limits DEF WatchTypeOK
<1>2. unregistered' > 0 => Calm' /\ ~Known'
  <2>1. faults' \in Nat /\ crashes' \in Nat
    BY <1>0, SessionAssumption DEF SInv, TypeOK, PlayerTypeOK
  <2>2. unregistered' > 0 => ~(faults' > 0) /\ ~(crashes' > 0) /\ ~Known'
    BY TimedSteps, WatchStands, WatchGoesOn
  <2>. QED
    BY <2>1, <2>2 DEF Calm
<1>3. ASSUME Calm'  PROVE RegistrationGoes'
  <2>1. CASE Known
    BY <1>0, <1>3, <2>1, KnownStays DEF RegistrationGoes
  <2>2. CASE ~Known
    <3>1. RegisterState
      BY <1>0, <1>3, <2>2 DEF RegisterState, RegisterInv, RegistrationGoes, CalmState, CalmInv,
         FaultsAreCounted, Calm
    <3>2. ASSUME Watch(0)  PROVE unregistered' <= unregistered
      BY <3>1, <3>2, WatchStands DEF RegisterState
    <3>3. ~(\E c \in Command : Fault(c) \/ Undeliverable(c)) /\ ~PlayerCrashes /\ ~PlayerRestarts
          /\ ~ConnectionBreaks /\ ~ClockIsSet
      <4>1. ~(\E c \in Command : Fault(c)) /\ ~PlayerCrashes /\ ~ConnectionBreaks /\ ~ClockIsSet
        BY <1>0, <1>3, Numbers DEF Calm, Fault, PlayerCrashes, ConnectionBreaks, ClockIsSet
      <4>2. ~(\E c \in Command : Undeliverable(c)) /\ ~PlayerRestarts
        BY <3>1, RegisterFacts DEF Undeliverable, PlayerRestarts, Reachable
      <4>. QED
        BY <4>1, <4>2
    <3>4. CASE Watch(1) /\ Tick
      BY <1>1, <3>1, <3>4, WatchGoesOn, RegisterTick
    <3>5. CASE Watch(0) /\ Aside
      BY <1>1, <3>1, <3>2, <3>3, <3>5, RegisterPoll, RegisterCommands, RegisterMonitor, RegisterExec,
         RegisterServe DEF Aside
    <3>6. CASE Watch(0) /\ (PingNotDue \/ PingReady \/ PongWithState \/ PongNotRegistered
                            \/ NoPong \/ SendPing)
      BY <1>1, <3>1, <3>2, <3>6, RegisterLook, RegisterExec
    <3>. QED
      BY <3>3, <3>4, <3>5, <3>6, TimedSteps
  <2>. QED
    BY <2>1, <2>2
<1>. QED
  BY <1>1, <1>2, <1>3 DEF RegisterInv

LEMMA RegisterStutter ==
  ASSUME UNCHANGED <<vars, watches>>  PROVE RegisterInv' <=> RegisterInv
BY DEF vars, clientVars, idVars, handlerVars, clockVars, callVars, envVars, watches, RegisterInv,
   RegistrationGoes, RegisterUnderWay, NotYetAsked, AnswerWaits, AnswerBy, Taken, Known, Reachable,
   Calm

(* The wait for the id is over when the answer has been waited for as long   *)
(* as it may be.                                                             *)
LEMMA RegisterEnough ==
  ASSUME SInv, InTime, RegisterInTime, FaultsAreCounted, CalmInv, RegisterInv
  PROVE  RegisteredInTime
<1>. SUFFICES ASSUME unregistered > 0  PROVE unregistered <= RegisterLimit
  BY Limits DEF RegisteredInTime, RegisterInv
<1>1. Calm /\ ~Known
  BY DEF RegisterInv
<1>2. RegisterState
  BY <1>1 DEF RegisterState, RegisterInv, RegistrationGoes, CalmState, CalmInv, FaultsAreCounted,
     Calm
<1>3. unregistered \in Nat /\ lag \in Nat /\ lag <= MaxLag /\ age["ping"] \in Nat
        /\ age["register"] \in Nat
  <2>1. age \in [Command -> Nat] /\ "ping" \in Command /\ "register" \in Command
    BY <1>2, CallFields, CalmNumbers DEF RegisterState
  <2>2. unregistered \in Nat
    BY DEF RegisterInv
  <2>. QED
    BY <2>1, <2>2, Numbers
<1>. USE Numbers DEF RegisterLimit
<1>4. CASE registrationInProgress
  <2>1. RegisterUnderWay /\ call["register"] # "idle"
    BY <1>2, <1>4, RegisterFacts DEF RegisterUnderWay
  <2>2. age["register"] <= NetDelay + 4 * MaxLag
    BY <1>2, <2>1, RegisterFacts
  <2>3. unregistered <= 3 * PingInterval + 3 * MaxLag + age["register"]
    BY <2>1 DEF RegisterUnderWay
  <2>. QED
    BY <1>3, <2>2, <2>3
<1>5. CASE ~registrationInProgress
  <2>1. NotYetAsked
    BY <1>2, <1>5, RegisterFacts
  <2>2. CASE call["ping"] = "idle"
    BY <1>3, <2>1, <2>2 DEF NotYetAsked
  <2>3. CASE call["ping"] # "idle"
    <3>1. age["ping"] <= 2 * PingInterval + 2 * MaxLag
      BY <1>2, <1>3, <2>3, CallFields DEF RegisterState, CalmState, Schedule, FirstInterval, SecondInterval
    <3>. QED
      BY <1>3, <2>1, <2>3, <3>1 DEF NotYetAsked
  <2>. QED
    BY <2>2, <2>3
<1>. QED
  BY <1>4, <1>5

(* A client that nothing disturbs has registered after at most 11 s with the *)
(* code's limits, a second for an answer and for a turn.  The first ping is  *)
(* sent as soon as the last ping of the instance before, if there was one,   *)
(* is an interval old; its pong starts the one register command there is,    *)
(* and its answer is read before the time limit of the command, although a   *)
(* poll takes one message and pongs may be before it.                        *)
THEOREM UndisturbedClientRegisters ==
  ASSUME InTime, RegisterInTime, MaxLag > 0  PROVE TimedSafety => []RegisteredInTime
<1>1. TimedInit => FaultsAreCounted /\ CalmInv /\ RegisterInv
  BY CalmInitially, RegisterInitially DEF TimedInit
<1>2. SInv /\ WatchTypeOK /\ FaultsAreCounted /\ CalmInv /\ RegisterInv
        /\ [TimedNext]_<<vars, watches>>
        => FaultsAreCounted' /\ CalmInv' /\ RegisterInv'
  BY TimedIsNext, CountedStep, CalmStep, RegisterStep, RegisterStutter
<1>3. SInv /\ FaultsAreCounted /\ CalmInv /\ RegisterInv => RegisteredInTime
  BY RegisterEnough
<1>4. TimedSafety => [](SInv /\ WatchTypeOK)
  BY AskedInvariance, PTL
<1>. QED
  BY <1>1, <1>2, <1>3, <1>4, PTL DEF TimedSafety
=============================================================================
