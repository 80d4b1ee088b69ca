--------------------------- MODULE PlayerHandler ---------------------------
(***************************************************************************)
(* The player handler that the application is given: its life in           *)
(* dss_client.cpp (updatePlayer, remoteServicesMonitoring,                 *)
(* getPlayerHandler), the playing state that pongs bring to it, and the    *)
(* commands that the application gives through it (player_handler.cpp and  *)
(* commands/player/cmd_play_*.cpp).                                        *)
(*                                                                         *)
(* The maintenance thread makes, updates and gives up the handler step by  *)
(* step; the application has a thread of its own and takes the handler     *)
(* whenever it likes, and again in each m_signalPlayerOnline.  A handler   *)
(* is shared: the application may keep one that the client has given up.   *)
(*                                                                         *)
(* The client has its id here; how it gets one, and when the player counts *)
(* as offline, is the business of PlayerSession, and which container keeps *)
(* the sent commands that of CommandQueue.                                 *)
(***************************************************************************)
EXTENDS Integers, Sequences

CONSTANTS
    OurId,          \* the id that the player gave to this client
    NoId,           \* the empty settings.userId of a new handler
    Unset,          \* the playing state of a new handler
    NoPong,         \* no pong is under way
    MaxStep,        \* the last step of the player's data
    RangeLeft,      \* globalRangeMillisec.first
    StepInterval,   \* stepIntervalMillisec
    MaxOffline,     \* bound on offline events
    MaxCommand,     \* bound on commands of the application
    MaxFault        \* bound on lost messages

(* Times and step numbers differ, so that one cannot pass for the other.     *)
ASSUME HandlerAssumption ==
    /\ OurId # NoId
    /\ {MaxStep, MaxOffline, MaxCommand, MaxFault} \subseteq Nat
    /\ RangeLeft \in Nat /\ RangeLeft > MaxStep
    /\ StepInterval \in Nat \ {0}
    /\ Unset \notin Int
    /\ NoPong \notin Int

Null     == 0
Handler  == 1 .. MaxOffline + 1
Step     == 0 .. MaxStep

(* "step number to step time" *)
TimeOf(s) == RangeLeft + s * StepInterval
Time      == {TimeOf(s) : s \in Step}

(* What the commands that are not about positions set in the player.         *)
Mode == [playing : BOOLEAN, reverse : BOOLEAN, loop : BOOLEAN, live : BOOLEAN,
         speed : Int]

(* The records that the commands write; none of them uses its answer.        *)
PlayStart        == [cmd_name |-> "play_start"]
PlayPause        == [cmd_name |-> "play_pause"]
PlayStop         == [cmd_name |-> "play_stop"]
PlayStep(f)      == [cmd_name |-> "play_step", step_forward |-> f]
PlayReverse(b)   == [cmd_name |-> "play_reverse", reverse |-> b]
PlayLoop(b)      == [cmd_name |-> "play_loop", loop |-> b]
PlayLive(b)      == [cmd_name |-> "play_live", live |-> b]
PlayFromPos(t)   == [cmd_name |-> "play_from_pos", target_pos_ms |-> t]
PlaySpeed(i, n)  == [cmd_name |-> "play_with_speed", increase |-> i, normalize |-> n]

Command ==
    {PlayStart, PlayPause, PlayStop}
        \cup {PlayStep(b) : b \in BOOLEAN} \cup {PlayReverse(b) : b \in BOOLEAN}
        \cup {PlayLoop(b) : b \in BOOLEAN} \cup {PlayLive(b) : b \in BOOLEAN}
        \cup {PlayFromPos(t) : t \in Time}
        \cup {PlaySpeed(i, n) : i, n \in BOOLEAN}

Message == [user_id : {OurId, NoId}, cmd : Command]

VARIABLES
    playerHandler,  \* the handler of the client, Null for none
    created,        \* counter: handlers made so far
    userId,         \* settings.userId of each handler
    shown,          \* currentStepMillisec of each handler
    newState,       \* the step number that the collected pong carries
    fresh,          \* whether updatePlayer has made the handler
    pc,             \* where the maintenance thread is
    announced,      \* history: the handlers of m_signalPlayerOnline( true )
    appHandler,     \* the handler that the application has
    toPlayer,       \* published commands
    sent,           \* counter of commands
    pong,           \* the pong under way
    step, mode,     \* the player: its position and its modes
    wish,           \* history: the modes the application asked for
    premature,      \* history: a command was sent before its handler was announced
    lost,           \* history: a command was lost
    faults, offlines \* counters

clientVars == <<playerHandler, created, userId, shown, newState, fresh, pc, announced, offlines>>
orderVars  == <<toPlayer, sent, wish, premature>>
playerVars == <<step, mode>>
netVars    == <<lost, faults>>
vars       == <<clientVars, appHandler, orderVars, pong, playerVars, netVars>>

Idle == [playing |-> FALSE, reverse |-> FALSE, loop |-> FALSE, live |-> FALSE, speed |-> 0]

Init ==
    /\ playerHandler = Null
    /\ created = 0
    /\ userId = [h \in Handler |-> NoId]
    /\ shown = [h \in Handler |-> Unset]
    /\ newState = 0
    /\ fresh = FALSE
    /\ pc = "idle"
    /\ announced = {}
    /\ appHandler = Null
    /\ toPlayer = <<>>
    /\ sent = 0
    /\ pong = NoPong
    /\ step \in Step
    /\ mode = Idle
    /\ wish = Idle
    /\ premature = FALSE
    /\ lost = FALSE
    /\ faults = 0
    /\ offlines = 0

-----------------------------------------------------------------------------
(* The maintenance thread.                                                   *)
(* Definitions named Bad... hold one plausible mistake each and are used by  *)
(* no behaviour; each stands before the definition it would replace.         *)

At(l)       == pc = l
GoTo(l, m)  == At(l) /\ pc' = m
ClientOnly  == UNCHANGED <<orderVars, pong, playerVars, netVars>>

\* Only a new handler gets a state.
BadCollectPong ==
    /\ pong # NoPong
    /\ GoTo("idle", IF playerHandler = Null THEN "create" ELSE "idle")
    /\ newState' = pong
    /\ fresh' = (playerHandler = Null)
    /\ pong' = NoPong
    /\ UNCHANGED <<playerHandler, created, userId, shown, announced, offlines, appHandler, orderVars,
                   playerVars, netVars>>

(* updatePlayer with the state of a pong.                                    *)
CollectPong ==
    /\ pong # NoPong
    /\ GoTo("idle", IF playerHandler = Null THEN "create" ELSE "assign")
    /\ newState' = pong
    /\ fresh' = (playerHandler = Null)
    /\ pong' = NoPong
    /\ UNCHANGED <<playerHandler, created, userId, shown, announced, offlines, appHandler, orderVars,
                   playerVars, netVars>>

(* The new handler can be taken from here on, before it has an id.           *)
CreateHandler ==
    /\ GoTo("create", "init")
    /\ created' = created + 1
    /\ playerHandler' = created + 1
    /\ UNCHANGED <<userId, shown, newState, fresh, announced, offlines, appHandler>>
    /\ ClientOnly

\* The settings are not stored.
BadInitHandler ==
    /\ GoTo("init", "assign")
    /\ UNCHANGED <<playerHandler, created, userId, shown, newState, fresh, announced, offlines,
                   appHandler>>
    /\ ClientOnly

InitHandler ==
    /\ GoTo("init", "assign")
    /\ userId' = [userId EXCEPT ![playerHandler] = OurId]
    /\ UNCHANGED <<playerHandler, created, shown, newState, fresh, announced, offlines, appHandler>>
    /\ ClientOnly

(* updateState first stores the step number where the time belongs ...       *)
AssignState ==
    /\ GoTo("assign", "convert")
    /\ shown' = [shown EXCEPT ![playerHandler] = newState]
    /\ UNCHANGED <<playerHandler, created, userId, newState, fresh, announced, offlines, appHandler>>
    /\ ClientOnly

\* The interval is taken for the whole distance.
BadConvertState ==
    /\ GoTo("convert", "notify")
    /\ shown' = [shown EXCEPT ![playerHandler] = RangeLeft + @ + StepInterval]
    /\ UNCHANGED <<playerHandler, created, userId, newState, fresh, announced, offlines, appHandler>>
    /\ ClientOnly

(* ... and then computes the time from it.                                   *)
ConvertState ==
    /\ GoTo("convert", "notify")
    /\ shown' = [shown EXCEPT ![playerHandler] = TimeOf(@)]
    /\ UNCHANGED <<playerHandler, created, userId, newState, fresh, announced, offlines, appHandler>>
    /\ ClientOnly

(* m_stateUpdated of a handler that was there, m_signalPlayerOnline( true )  *)
(* of a new one, in which the application takes it.                          *)
NotifyUpdate ==
    /\ ~fresh
    /\ GoTo("notify", "idle")
    /\ UNCHANGED <<playerHandler, created, userId, shown, newState, fresh, announced, offlines,
                   appHandler>>
    /\ ClientOnly

SignalOnline ==
    /\ fresh
    /\ GoTo("notify", "idle")
    /\ announced' = announced \cup {playerHandler}
    /\ appHandler' = playerHandler
    /\ UNCHANGED <<playerHandler, created, userId, shown, newState, fresh, offlines>>
    /\ ClientOnly

(* remoteServicesMonitoring: the signal comes before the reset, so what the  *)
(* application takes in it is the handler that is about to be given up.      *)
SignalOffline ==
    /\ offlines < MaxOffline
    /\ GoTo("idle", "reset")
    /\ offlines' = offlines + 1
    /\ appHandler' = playerHandler
    /\ UNCHANGED <<playerHandler, created, userId, shown, newState, fresh, announced>>
    /\ ClientOnly

ResetHandler ==
    /\ GoTo("reset", "idle")
    /\ playerHandler' = Null
    /\ UNCHANGED <<created, userId, shown, newState, fresh, announced, offlines, appHandler>>
    /\ ClientOnly

Maintenance ==
    \/ CollectPong \/ CreateHandler \/ InitHandler
    \/ AssignState \/ ConvertState \/ NotifyUpdate \/ SignalOnline
    \/ SignalOffline \/ ResetHandler

-----------------------------------------------------------------------------
(* The application. *)

GetPlayerHandler ==
    /\ appHandler' = playerHandler
    /\ UNCHANGED <<clientVars, orderVars, pong, playerVars, netVars>>

(* Each method makes a command with the id of its handler and sends it.      *)
Send(command, wanted) ==
    /\ appHandler # Null
    /\ sent < MaxCommand
    /\ sent' = sent + 1
    /\ toPlayer' = Append(toPlayer, [user_id |-> userId[appHandler], cmd |-> command])
    /\ wish' = wanted
    /\ premature' = (premature \/ appHandler \notin announced)
    /\ UNCHANGED <<clientVars, appHandler, pong, playerVars, netVars>>

Start == Send(PlayStart, [wish EXCEPT !.playing = TRUE])
Pause == Send(PlayPause, [wish EXCEPT !.playing = FALSE])
Stop  == Send(PlayStop,  [wish EXCEPT !.playing = FALSE])

StepForward  == Send(PlayStep(TRUE), wish)
StepBackward == Send(PlayStep(FALSE), wish)

SwitchReverseMode(b) == Send(PlayReverse(b), [wish EXCEPT !.reverse = b])
SwitchLoopMode(b)    == Send(PlayLoop(b), [wish EXCEPT !.loop = b])
SwitchLiveMode(b)    == Send(PlayLive(b), [wish EXCEPT !.live = b])

PlayFromPosition(t) == Send(PlayFromPos(t), wish)

IncreasePlayingSpeed == Send(PlaySpeed(TRUE, FALSE), [wish EXCEPT !.speed = @ + 1])
DecreasePlayingSpeed == Send(PlaySpeed(FALSE, FALSE), [wish EXCEPT !.speed = @ - 1])

\* The flag of decreasePlayingSpeed is left as it was.
BadNormalizePlayingSpeed == Send(PlaySpeed(FALSE, FALSE), [wish EXCEPT !.speed = 0])

NormalizePlayingSpeed == Send(PlaySpeed(FALSE, TRUE), [wish EXCEPT !.speed = 0])

Application ==
    \/ GetPlayerHandler
    \/ Start \/ Pause \/ Stop \/ StepForward \/ StepBackward
    \/ \E b \in BOOLEAN : SwitchReverseMode(b) \/ SwitchLoopMode(b) \/ SwitchLiveMode(b)
    \/ \E t \in Time : PlayFromPosition(t)
    \/ IncreasePlayingSpeed \/ DecreasePlayingSpeed \/ NormalizePlayingSpeed

-----------------------------------------------------------------------------
(* The player and the network. *)

(* The modes m after a command.                                              *)
ModeAfter(m, c) ==
    CASE c.cmd_name = "play_start"      -> [m EXCEPT !.playing = TRUE]
      [] c.cmd_name \in {"play_pause", "play_stop"} -> [m EXCEPT !.playing = FALSE]
      [] c.cmd_name = "play_reverse"    -> [m EXCEPT !.reverse = c.reverse]
      [] c.cmd_name = "play_loop"       -> [m EXCEPT !.loop = c.loop]
      [] c.cmd_name = "play_live"       -> [m EXCEPT !.live = c.live]
      [] c.cmd_name = "play_with_speed" ->
            [m EXCEPT !.speed = IF c.normalize THEN 0
                                ELSE IF c.increase THEN @ + 1 ELSE @ - 1]
      [] OTHER                          -> m

StepAfter(c) ==
    CASE c.cmd_name = "play_step" ->
            IF c.step_forward THEN (IF step < MaxStep THEN step + 1 ELSE step)
                              ELSE (IF step > 0 THEN step - 1 ELSE step)
      [] c.cmd_name = "play_from_pos" -> CHOOSE s \in Step : TimeOf(s) = c.target_pos_ms
      [] OTHER -> step

(* Commands arrive in order; those of an unknown user are refused.           *)
Obey ==
    /\ toPlayer # <<>>
    /\ toPlayer' = Tail(toPlayer)
    /\ LET first == Head(toPlayer) IN
        /\ mode' = IF first.user_id = OurId THEN ModeAfter(mode, first.cmd) ELSE mode
        /\ step' = IF first.user_id = OurId THEN StepAfter(first.cmd) ELSE step
    /\ UNCHANGED <<clientVars, appHandler, sent, wish, premature, pong, netVars>>

Play ==
    /\ mode.playing
    /\ step < MaxStep
    /\ step' = step + 1
    /\ UNCHANGED <<clientVars, appHandler, orderVars, pong, mode, netVars>>

AnswerPing ==
    /\ pong = NoPong
    /\ pong' = step
    /\ UNCHANGED <<clientVars, appHandler, orderVars, playerVars, netVars>>

LosePong ==
    /\ pong # NoPong
    /\ faults < MaxFault
    /\ faults' = faults + 1
    /\ pong' = NoPong
    /\ UNCHANGED <<clientVars, appHandler, orderVars, playerVars, lost>>

LoseCommand ==
    /\ toPlayer # <<>>
    /\ faults < MaxFault
    /\ faults' = faults + 1
    /\ lost' = TRUE
    /\ toPlayer' = Tail(toPlayer)
    /\ UNCHANGED <<clientVars, appHandler, sent, wish, premature, pong, playerVars>>

Environment == Obey \/ Play \/ AnswerPing \/ LosePong \/ LoseCommand

Next == Maintenance \/ Application \/ Environment

(* The loop turns, and the player answers the pings (PlayerSession).         *)
Fairness == WF_vars(Maintenance) /\ WF_vars(AnswerPing)

Safety == Init /\ [][Next]_vars
Spec   == Safety /\ Fairness

-----------------------------------------------------------------------------
(* Properties *)

TypeOK ==
    /\ playerHandler \in Handler \cup {Null}
    /\ created \in 0 .. MaxOffline + 1
    /\ userId \in [Handler -> {OurId, NoId}]
    /\ shown \in [Handler -> Step \cup Time \cup {Unset}]
    /\ newState \in Step
    /\ fresh \in BOOLEAN
    /\ pc \in {"idle", "create", "init", "assign", "convert", "notify", "reset"}
    /\ announced \subseteq Handler
    /\ appHandler \in Handler \cup {Null}
    /\ toPlayer \in Seq(Message)
    /\ sent \in 0 .. MaxCommand
    /\ pong \in Step \cup {NoPong}
    /\ step \in Step
    /\ mode \in Mode /\ wish \in Mode
    /\ premature \in BOOLEAN /\ lost \in BOOLEAN
    /\ faults \in 0 .. MaxFault
    /\ offlines \in 0 .. MaxOffline

(* What a signal announces is complete, although the handler could be taken  *)
(* before: one that m_signalPlayerOnline( true ) announced has the id and a  *)
(* state for ever and, until it is given up, is the one the application has; *)
(* one that m_stateUpdated announces shows the time the player is at         *)
(* (updatePlayer, dss_client.cpp:240-263, updateState).                      *)
AnnouncedIsComplete ==
    /\ \A h \in announced : userId[h] = OurId /\ shown[h] # Unset
    /\ playerHandler \in announced => appHandler = playerHandler
    /\ At("notify") => shown[playerHandler] = TimeOf(newState)

(* "the client only [...] transfers async commands" (dss_client.h:14): when  *)
(* every command has arrived the player is in the modes that the application *)
(* asked for, also through handlers that the client has given up meanwhile.  *)
(* The exceptions are lost commands, which nobody repeats, and commands      *)
(* given before the handler was announced, which may carry no id.            *)
QuietPlayerObeys == toPlayer = <<>> /\ ~lost /\ ~premature => mode = wish

(* "the client only show system's state" (dss_client.h:14): whatever pongs   *)
(* are lost and however often the player was offline, the handler ends with  *)
(* the time where the player stays, except for the moment in which           *)
(* updateState has stored a step number in its place (lines 63-68).          *)
ShownFollowsPlayer ==
    \A s \in Step :
        <>[](step = s)
            => <>[](~At("convert") => playerHandler # Null /\ shown[playerHandler] = TimeOf(s))
=============================================================================
