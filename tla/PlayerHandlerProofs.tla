------------------------ MODULE PlayerHandlerProofs ------------------------
(***************************************************************************)
(* Proofs about PlayerHandler, for any number of offline events, commands, *)
(* losses and steps: type correctness, that what a signal announces is     *)
(* complete, and that the commands of the application add up to the modes  *)
(* of the player.                                                          *)
(***************************************************************************)
EXTENDS PlayerHandler, TLAPS

-----------------------------------------------------------------------------
(* The inductive invariant, in named parts. *)

(* Each offline event costs at most one handler.                             *)
Counters ==
    /\ created \in Nat
    /\ offlines \in 0 .. MaxOffline
    /\ playerHandler \in 0 .. created
    /\ created <= offlines + 1
    /\ playerHandler = Null \/ pc = "reset" => created <= offlines
    /\ announced \subseteq 1 .. created

ClientTypes ==
    /\ userId \in [Handler -> {OurId, NoId}]
    /\ shown \in [Handler -> Step \cup Time \cup {Unset}]
    /\ newState \in Step
    /\ fresh \in BOOLEAN
    /\ pc \in {"idle", "create", "init", "assign", "convert", "notify", "reset"}
    /\ appHandler \in Handler \cup {Null}
    /\ pong \in Step \cup {NoPong}

OrderTypes ==
    /\ toPlayer \in Seq(Message)
    /\ sent \in 0 .. MaxCommand
    /\ step \in Step
    /\ mode \in Mode /\ wish \in Mode
    /\ premature \in BOOLEAN /\ lost \in BOOLEAN
    /\ faults \in 0 .. MaxFault

(* How far the handler of the client is at each point of the thread.         *)
InMaking == {"init", "assign", "convert", "notify"}

Life ==
    /\ pc \in InMaking => playerHandler # Null /\ (fresh <=> playerHandler \notin announced)
    /\ pc = "create" => playerHandler = Null /\ fresh
    /\ pc = "init" => fresh
    /\ pc \in {"idle", "reset"} /\ playerHandler # Null => playerHandler \in announced
    /\ pc \in {"assign", "convert", "notify"} => userId[playerHandler] = OurId
    /\ pc = "convert" => shown[playerHandler] = newState
    /\ pc = "notify" => shown[playerHandler] = TimeOf(newState)

Announced ==
    /\ \A h \in announced : userId[h] = OurId /\ shown[h] # Unset
    /\ playerHandler \in announced => appHandler = playerHandler

HandlerInv == Counters /\ ClientTypes /\ OrderTypes /\ Life /\ Announced

-----------------------------------------------------------------------------
LEMMA Bounds ==
  /\ MaxStep \in Nat /\ MaxOffline \in Nat /\ MaxCommand \in Nat /\ MaxFault \in Nat
  /\ RangeLeft \in Nat /\ StepInterval \in Nat
  /\ OurId # NoId
BY HandlerAssumption

(* A step number is no time that is missing, and its time is one.            *)
LEMMA StepsHaveTimes ==
  /\ Step \subseteq Int
  /\ NoPong \notin Step
  /\ \A s \in Step : TimeOf(s) \in Time /\ s # Unset /\ TimeOf(s) # Unset
<1>1. /\ Step \subseteq Int
      /\ Unset \notin Int
      /\ NoPong \notin Int
  BY HandlerAssumption DEF Step
<1>2. ASSUME NEW s \in Step
      PROVE  TimeOf(s) \in Time /\ TimeOf(s) \in Int
  <2>1. TimeOf(s) \in Time
    BY DEF Time
  <2>2. s \in Int /\ RangeLeft \in Int /\ StepInterval \in Int
    BY <1>1, Bounds
  <2>3. TimeOf(s) \in Int
    BY <2>2 DEF TimeOf
  <2> QED
    BY <2>1, <2>3
<1> QED
  BY <1>1, <1>2

(* The handlers that are made are those there is room for.                   *)
LEMMA HandlerRange ==
  Counters => /\ playerHandler \in Handler \cup {Null}
              /\ announced \subseteq Handler
              /\ created \in 0 .. MaxOffline + 1
              /\ Null \notin announced
BY Bounds DEF Counters, Handler, Null

LEMMA Typed == HandlerInv => TypeOK
BY HandlerRange, Bounds DEF HandlerInv, Counters, ClientTypes, OrderTypes, TypeOK

LEMMA Complete == HandlerInv => AnnouncedIsComplete
BY DEF HandlerInv, Life, Announced, AnnouncedIsComplete, At

LEMMA StartsAndStops ==
  ASSUME NEW m
  PROVE  /\ ModeAfter(m, PlayStart) = [m EXCEPT !.playing = TRUE]
         /\ ModeAfter(m, PlayPause) = [m EXCEPT !.playing = FALSE]
         /\ ModeAfter(m, PlayStop) = [m EXCEPT !.playing = FALSE]
<1>1. ModeAfter(m, PlayStart) = [m EXCEPT !.playing = TRUE]
  BY DEF ModeAfter, PlayStart
<1>2. ModeAfter(m, PlayPause) = [m EXCEPT !.playing = FALSE]
  BY DEF ModeAfter, PlayPause
<1>3. ModeAfter(m, PlayStop) = [m EXCEPT !.playing = FALSE]
  BY DEF ModeAfter, PlayStop
<1> QED
  BY <1>1, <1>2, <1>3

(* What a command of the client makes of the modes are modes.                *)
LEMMA ModesStay ==
  ASSUME NEW c \in Command, NEW m \in Mode
  PROVE  ModeAfter(m, c) \in Mode
<1>1. CASE c \in {PlayStart, PlayPause, PlayStop}
  <2>1. \A b \in BOOLEAN : [m EXCEPT !.playing = b] \in Mode
    BY DEF Mode
  <2>2. ModeAfter(m, c) \in {[m EXCEPT !.playing = TRUE], [m EXCEPT !.playing = FALSE]}
    BY <1>1, StartsAndStops
  <2> QED
    BY <2>1, <2>2
<1>2. CASE \E b \in BOOLEAN : c \in {PlayStep(b), PlayReverse(b), PlayLoop(b), PlayLive(b)}
  BY <1>2 DEF ModeAfter, Mode, PlayStep, PlayReverse, PlayLoop, PlayLive
<1>3. CASE \E t \in Time : c = PlayFromPos(t)
  BY <1>3 DEF ModeAfter, Mode, PlayFromPos
<1>4. CASE \E i, n \in BOOLEAN : c = PlaySpeed(i, n)
  BY <1>4 DEF ModeAfter, Mode, PlaySpeed
<1> QED
  BY <1>1, <1>2, <1>3, <1>4 DEF Command

LEMMA StepsStay ==
  ASSUME NEW c \in Command, step \in Step
  PROVE  StepAfter(c) \in Step
<1>1. CASE c \in {PlayStart, PlayPause, PlayStop}
  BY <1>1 DEF StepAfter, PlayStart, PlayPause, PlayStop
<1>2. CASE \E b \in BOOLEAN : c \in {PlayReverse(b), PlayLoop(b), PlayLive(b)}
  BY <1>2 DEF StepAfter, PlayReverse, PlayLoop, PlayLive
<1>3. CASE \E b \in BOOLEAN : c = PlayStep(b)
  <2>1. step \in Int /\ MaxStep \in Nat /\ 0 <= step /\ step <= MaxStep
    BY Bounds DEF Step
  <2>2. /\ step < MaxStep => step + 1 \in Step
        /\ step > 0 => step - 1 \in Step
    BY <2>1 DEF Step
  <2> QED
    BY <1>3, <2>2 DEF StepAfter, PlayStep
<1>4. CASE \E t \in Time : c = PlayFromPos(t)
  <2>1. PICK t \in Time : c = PlayFromPos(t)
    BY <1>4
  <2>2. \E s \in Step : TimeOf(s) = t
    BY <2>1 DEF Time
  <2>3. (CHOOSE s \in Step : TimeOf(s) = t) \in Step
    BY <2>2
  <2>4. StepAfter(c) = CHOOSE s \in Step : TimeOf(s) = t
    BY <2>1 DEF StepAfter, PlayFromPos
  <2> QED
    BY <2>3, <2>4
<1>5. CASE \E i, n \in BOOLEAN : c = PlaySpeed(i, n)
  BY <1>5 DEF StepAfter, PlaySpeed
<1> QED
  BY <1>1, <1>2, <1>3, <1>4, <1>5 DEF Command

-----------------------------------------------------------------------------
(* Initially and in every step. *)

LEMMA Initially == Init => HandlerInv
<1> SUFFICES ASSUME Init PROVE HandlerInv
  OBVIOUS
<1>1. Counters
  BY Bounds DEF Init, Counters, Null
<1>0. 0 \in Step /\ 0 \in 0 .. MaxCommand /\ 0 \in 0 .. MaxFault
  BY Bounds DEF Step
<1>2. ClientTypes
  BY <1>0 DEF Init, ClientTypes
<1>3. OrderTypes
  <2>1. Idle \in Mode
    BY DEF Idle, Mode
  <2>2. <<>> \in Seq(Message)
    OBVIOUS
  <2> QED
    BY <1>0, <2>1, <2>2 DEF Init, OrderTypes
<1>4. Life /\ Announced
  BY DEF Init, Life, Announced, InMaking, Null
<1> QED
  BY <1>1, <1>2, <1>3, <1>4 DEF HandlerInv

(* The steps of the maintenance thread leave commands and player alone.      *)
LEMMA OrdersKept ==
  ASSUME OrderTypes, UNCHANGED <<orderVars, playerVars, netVars>>
  PROVE  OrderTypes'
BY DEF OrderTypes, orderVars, playerVars, netVars

LEMMA MaintenanceKeeps ==
  ASSUME HandlerInv, Maintenance
  PROVE  HandlerInv'
<1> USE DEF HandlerInv
<1>h. /\ playerHandler \in Handler \cup {Null}
      /\ announced \subseteq Handler
      /\ Null \notin announced
  BY HandlerRange
<1>1. CASE CollectPong
  <2>1. Counters'
    BY <1>1 DEF CollectPong, GoTo, At, Counters
  <2>2. ClientTypes'
    BY <1>1 DEF CollectPong, GoTo, At, ClientTypes
  <2>3. Life' /\ Announced'
    BY <1>1, <1>h DEF CollectPong, GoTo, At, Life, Announced, InMaking
  <2> QED
    BY <1>1, <2>1, <2>2, <2>3, OrdersKept DEF CollectPong
<1>2. CASE CreateHandler
  <2>1. Counters' /\ playerHandler' \notin announced /\ playerHandler' # Null
    BY <1>2, Bounds DEF CreateHandler, GoTo, At, Counters, Life, Null
  <2>2. ClientTypes'
    BY <1>2 DEF CreateHandler, GoTo, At, ClientTypes, ClientOnly
  <2>3. Life' /\ Announced'
    BY <1>2, <2>1 DEF CreateHandler, GoTo, At, Life, Announced, InMaking
  <2> QED
    BY <1>2, <2>1, <2>2, <2>3, OrdersKept DEF CreateHandler, ClientOnly
<1>3. CASE InitHandler
  <2>0. pc = "init" /\ pc' = "assign" /\ playerHandler \in Handler
    BY <1>3, <1>h DEF InitHandler, GoTo, At, Life, InMaking
  <2>1. Counters'
    BY <1>3, <2>0 DEF InitHandler, Counters
  <2>2. ClientTypes'
    BY <1>3, <2>0 DEF InitHandler, ClientTypes, ClientOnly
  <2>3. Life' /\ Announced'
    BY <1>3, <1>h, <2>0 DEF InitHandler, Life, Announced, InMaking, ClientTypes
  <2> QED
    BY <1>3, <2>1, <2>2, <2>3, OrdersKept DEF InitHandler, ClientOnly
<1>4. CASE AssignState
  <2>0. pc = "assign" /\ pc' = "convert" /\ playerHandler \in Handler
    BY <1>4, <1>h DEF AssignState, GoTo, At, Life, InMaking
  <2>1. Counters'
    BY <1>4, <2>0 DEF AssignState, Counters
  <2>2. ClientTypes'
    BY <1>4, <2>0 DEF AssignState, ClientTypes, ClientOnly
  <2>3. newState # Unset
    BY StepsHaveTimes DEF ClientTypes
  <2>4. Life' /\ Announced'
    BY <1>4, <1>h, <2>0, <2>3 DEF AssignState, Life, Announced, InMaking, ClientTypes
  <2> QED
    BY <1>4, <2>1, <2>2, <2>4, OrdersKept DEF AssignState, ClientOnly
<1>5. CASE ConvertState
  <2>0. pc = "convert" /\ pc' = "notify" /\ playerHandler \in Handler
    BY <1>5, <1>h DEF ConvertState, GoTo, At, Life, InMaking
  <2>1. Counters'
    BY <1>5, <2>0 DEF ConvertState, Counters
  <2>2. TimeOf(newState) \in Time /\ TimeOf(newState) # Unset
    BY StepsHaveTimes DEF ClientTypes
  <2>3. shown' = [shown EXCEPT ![playerHandler] = TimeOf(newState)]
    BY <1>5, <2>0 DEF ConvertState, Life
  <2>4. ClientTypes'
    BY <1>5, <2>0, <2>2, <2>3 DEF ConvertState, ClientTypes, ClientOnly
  <2>5. TimeOf(newState)' = TimeOf(newState)
    BY <1>5 DEF ConvertState, TimeOf
  <2>6. Life' /\ Announced'
    BY <1>5, <1>h, <2>0, <2>2, <2>3, <2>5
    DEF ConvertState, Life, Announced, InMaking, ClientTypes
  <2> QED
    BY <1>5, <2>1, <2>4, <2>6, OrdersKept DEF ConvertState, ClientOnly
<1>6. CASE NotifyUpdate
  <2>1. Counters'
    BY <1>6 DEF NotifyUpdate, GoTo, At, Counters
  <2>2. ClientTypes'
    BY <1>6 DEF NotifyUpdate, GoTo, At, ClientTypes, ClientOnly
  <2>3. Life' /\ Announced'
    BY <1>6 DEF NotifyUpdate, GoTo, At, Life, Announced, InMaking
  <2> QED
    BY <1>6, <2>1, <2>2, <2>3, OrdersKept DEF NotifyUpdate, ClientOnly
<1>7. CASE SignalOnline
  <2>0. pc = "notify" /\ pc' = "idle" /\ playerHandler \in Handler
    BY <1>7, <1>h DEF SignalOnline, GoTo, At, Life, InMaking
  <2>1. Counters'
    BY <1>7, <2>0 DEF SignalOnline, Counters, Handler
  <2>2. ClientTypes'
    BY <1>7, <2>0 DEF SignalOnline, ClientTypes, ClientOnly
  <2>3. shown[playerHandler] # Unset /\ userId[playerHandler] = OurId
    BY <2>0, StepsHaveTimes DEF Life, ClientTypes
  <2>4. Life' /\ Announced'
    BY <1>7, <2>0, <2>3 DEF SignalOnline, Life, Announced, InMaking
  <2> QED
    BY <1>7, <2>1, <2>2, <2>4, OrdersKept DEF SignalOnline, ClientOnly
<1>8. CASE SignalOffline
  <2>1. Counters'
    BY <1>8, Bounds DEF SignalOffline, GoTo, At, Counters
  <2>2. ClientTypes'
    BY <1>8, <1>h DEF SignalOffline, GoTo, At, ClientTypes, ClientOnly
  <2>3. Life' /\ Announced'
    BY <1>8 DEF SignalOffline, GoTo, At, Life, Announced, InMaking
  <2> QED
    BY <1>8, <2>1, <2>2, <2>3, OrdersKept DEF SignalOffline, ClientOnly
<1>9. CASE ResetHandler
  <2>1. Counters'
    BY <1>9 DEF ResetHandler, GoTo, At, Counters, Null
  <2>2. ClientTypes'
    BY <1>9 DEF ResetHandler, GoTo, At, ClientTypes, ClientOnly
  <2>3. Life' /\ Announced'
    BY <1>9, <1>h DEF ResetHandler, GoTo, At, Life, Announced, InMaking
  <2> QED
    BY <1>9, <2>1, <2>2, <2>3, OrdersKept DEF ResetHandler, ClientOnly
<1> QED
  BY <1>1, <1>2, <1>3, <1>4, <1>5, <1>6, <1>7, <1>8, <1>9 DEF Maintenance

(* The application and the player leave the handlers alone; the application  *)
(* can only take the present one.                                            *)
LEMMA HandlersKept ==
  ASSUME HandlerInv, UNCHANGED clientVars, pong' \in Step \cup {NoPong},
         appHandler' \in {appHandler, playerHandler}
  PROVE  Counters' /\ ClientTypes' /\ Life' /\ Announced'
<1> USE DEF HandlerInv, clientVars
<1>1. Counters'
  BY DEF Counters
<1>2. ClientTypes'
  BY HandlerRange DEF ClientTypes
<1>3. Life'
  BY DEF Life, TimeOf
<1>4. Announced'
  BY DEF Announced
<1> QED
  BY <1>1, <1>2, <1>3, <1>4

LEMMA SendKeeps ==
  ASSUME HandlerInv, NEW c \in Command, NEW w \in Mode, Send(c, w)
  PROVE  HandlerInv'
<1>1. userId[appHandler] \in {OurId, NoId}
  BY DEF Send, HandlerInv, ClientTypes, Null
<1>2. [user_id |-> userId[appHandler], cmd |-> c] \in Message
  BY <1>1 DEF Message
<1>3. toPlayer' \in Seq(Message)
  BY <1>2 DEF Send, HandlerInv, OrderTypes
<1>4. sent' \in 0 .. MaxCommand
  BY Bounds DEF Send, HandlerInv, OrderTypes
<1>5. premature' \in BOOLEAN
  BY DEF Send, HandlerInv, OrderTypes
<1>6. OrderTypes'
  BY <1>3, <1>4, <1>5 DEF Send, HandlerInv, OrderTypes, playerVars, netVars
<1>7. UNCHANGED clientVars /\ pong' \in Step \cup {NoPong} /\ appHandler' = appHandler
  BY DEF Send, HandlerInv, ClientTypes
<1> QED
  BY <1>6, <1>7, HandlersKept DEF HandlerInv

LEMMA ApplicationKeeps ==
  ASSUME HandlerInv, Application
  PROVE  HandlerInv'
<1> USE SendKeeps
<1>w. wish \in Mode
  BY DEF HandlerInv, OrderTypes
<1>c. /\ {PlayStart, PlayPause, PlayStop} \subseteq Command
      /\ \A b \in BOOLEAN : {PlayStep(b), PlayReverse(b), PlayLoop(b), PlayLive(b)} \subseteq Command
      /\ \A t \in Time : PlayFromPos(t) \in Command
      /\ \A i, n \in BOOLEAN : PlaySpeed(i, n) \in Command
  BY DEF Command
<1>m. \A b \in BOOLEAN : /\ [wish EXCEPT !.playing = b] \in Mode
                         /\ [wish EXCEPT !.reverse = b] \in Mode
                         /\ [wish EXCEPT !.loop = b] \in Mode
                         /\ [wish EXCEPT !.live = b] \in Mode
  BY <1>w DEF Mode
<1>s. /\ [wish EXCEPT !.speed = @ + 1] \in Mode
      /\ [wish EXCEPT !.speed = @ - 1] \in Mode
      /\ [wish EXCEPT !.speed = 0] \in Mode
  BY <1>w DEF Mode
<1>1. CASE GetPlayerHandler
  <2>1. OrderTypes'
    BY <1>1, OrdersKept DEF GetPlayerHandler, HandlerInv
  <2>2. UNCHANGED clientVars /\ pong' \in Step \cup {NoPong} /\ appHandler' = playerHandler
    BY <1>1 DEF GetPlayerHandler, HandlerInv, ClientTypes
  <2> QED
    BY <2>1, <2>2, HandlersKept DEF HandlerInv
<1>2. CASE Start \/ Pause \/ Stop
  BY <1>2, <1>c, <1>m DEF Start, Pause, Stop
<1>3. CASE StepForward \/ StepBackward
  BY <1>3, <1>c, <1>w DEF StepForward, StepBackward
<1>4. ASSUME NEW b \in BOOLEAN, SwitchReverseMode(b) \/ SwitchLoopMode(b) \/ SwitchLiveMode(b)
      PROVE  HandlerInv'
  BY <1>4, <1>c, <1>m DEF SwitchReverseMode, SwitchLoopMode, SwitchLiveMode
<1>5. ASSUME NEW t \in Time, PlayFromPosition(t)
      PROVE  HandlerInv'
  BY <1>5, <1>c, <1>w DEF PlayFromPosition
<1>6. CASE IncreasePlayingSpeed \/ DecreasePlayingSpeed \/ NormalizePlayingSpeed
  BY <1>6, <1>c, <1>s DEF IncreasePlayingSpeed, DecreasePlayingSpeed, NormalizePlayingSpeed
<1> QED
  BY <1>1, <1>2, <1>3, <1>4, <1>5, <1>6 DEF Application

LEMMA EnvironmentKeeps ==
  ASSUME HandlerInv, Environment
  PROVE  HandlerInv'
<1>1. CASE Obey
  <2>1. PICK m \in Message : m = Head(toPlayer)
    BY <1>1 DEF Obey, HandlerInv, OrderTypes
  <2>2. m.cmd \in Command
    BY <2>1 DEF Message
  <2>3. mode' \in Mode
    BY <1>1, <2>1, <2>2, ModesStay DEF Obey, HandlerInv, OrderTypes
  <2>4. step' \in Step
    BY <1>1, <2>1, <2>2, StepsStay DEF Obey, HandlerInv, OrderTypes
  <2>5. toPlayer' \in Seq(Message)
    BY <1>1 DEF Obey, HandlerInv, OrderTypes
  <2>6. OrderTypes'
    BY <1>1, <2>3, <2>4, <2>5 DEF Obey, HandlerInv, OrderTypes, netVars
  <2>7. UNCHANGED clientVars /\ pong' \in Step \cup {NoPong} /\ appHandler' = appHandler
    BY <1>1 DEF Obey, HandlerInv, ClientTypes
  <2> QED
    BY <2>6, <2>7, HandlersKept DEF HandlerInv
<1>2. CASE Play
  <2>1. step' \in Step
    BY <1>2, Bounds DEF Play, HandlerInv, OrderTypes, Step
  <2>2. OrderTypes'
    BY <1>2, <2>1 DEF Play, HandlerInv, OrderTypes, orderVars, netVars
  <2>3. UNCHANGED clientVars /\ pong' \in Step \cup {NoPong} /\ appHandler' = appHandler
    BY <1>2 DEF Play, HandlerInv, ClientTypes
  <2> QED
    BY <2>2, <2>3, HandlersKept DEF HandlerInv
<1>3. CASE AnswerPing
  <2>1. OrderTypes'
    BY <1>3, OrdersKept DEF AnswerPing, HandlerInv
  <2>2. UNCHANGED clientVars /\ pong' \in Step \cup {NoPong} /\ appHandler' = appHandler
    BY <1>3 DEF AnswerPing, HandlerInv, OrderTypes
  <2> QED
    BY <2>1, <2>2, HandlersKept DEF HandlerInv
<1>4. CASE LosePong
  <2>1. faults' \in 0 .. MaxFault
    BY <1>4, Bounds DEF LosePong, HandlerInv, OrderTypes
  <2>2. OrderTypes'
    BY <1>4, <2>1 DEF LosePong, HandlerInv, OrderTypes, orderVars, playerVars
  <2>3. UNCHANGED clientVars /\ pong' \in Step \cup {NoPong} /\ appHandler' = appHandler
    BY <1>4 DEF LosePong
  <2> QED
    BY <2>2, <2>3, HandlersKept DEF HandlerInv
<1>5. CASE LoseCommand
  <2>1. faults' \in 0 .. MaxFault
    BY <1>5, Bounds DEF LoseCommand, HandlerInv, OrderTypes
  <2>2. toPlayer' \in Seq(Message)
    BY <1>5 DEF LoseCommand, HandlerInv, OrderTypes
  <2>3. OrderTypes'
    BY <1>5, <2>1, <2>2 DEF LoseCommand, HandlerInv, OrderTypes, playerVars
  <2>4. UNCHANGED clientVars /\ pong' \in Step \cup {NoPong} /\ appHandler' = appHandler
    BY <1>5 DEF LoseCommand, HandlerInv, ClientTypes
  <2> QED
    BY <2>3, <2>4, HandlersKept DEF HandlerInv
<1> QED
  BY <1>1, <1>2, <1>3, <1>4, <1>5 DEF Environment

LEMMA Stutters == HandlerInv /\ UNCHANGED vars => HandlerInv'
<1> SUFFICES ASSUME HandlerInv, UNCHANGED vars PROVE HandlerInv'
  OBVIOUS
<1>1. OrderTypes'
  BY OrdersKept DEF HandlerInv, vars
<1>2. UNCHANGED clientVars /\ pong' \in Step \cup {NoPong} /\ appHandler' = appHandler
  BY DEF vars, HandlerInv, ClientTypes
<1> QED
  BY <1>1, <1>2, HandlersKept DEF HandlerInv

LEMMA Inductive == Safety => []HandlerInv
<1>1. HandlerInv /\ [Next]_vars => HandlerInv'
  BY MaintenanceKeeps, ApplicationKeeps, EnvironmentKeeps, Stutters DEF Next
<1> QED
  BY Initially, <1>1, PTL DEF Safety

-----------------------------------------------------------------------------
(* The commands under way lead from the modes of the player to those that    *)
(* the application asked for: the queue is walked by modes ms, one for each  *)
(* point of it, so that no function on the queue has to be computed.         *)
LeadsToWish(ms) ==
    /\ ms[1] = mode
    /\ \A k \in 1 .. Len(toPlayer) : ms[k + 1] = ModeAfter(ms[k], toPlayer[k].cmd)
    /\ ms[Len(toPlayer) + 1] = wish

Walk == [1 .. Len(toPlayer) + 1 -> Mode]

OrderInv ==
    ~lost /\ ~premature =>
        /\ \A k \in 1 .. Len(toPlayer) : toPlayer[k].user_id = OurId
        /\ \E ms \in Walk : LeadsToWish(ms)

LEMMA OrderInitially == Init => OrderInv
<1> SUFFICES ASSUME Init PROVE OrderInv
  OBVIOUS
<1>1. Idle \in Mode
  BY DEF Idle, Mode
<1>2. Len(toPlayer) = 0 /\ 1 .. 0 = {}
  BY DEF Init
<1>3. [k \in 1 .. 1 |-> Idle] \in Walk /\ LeadsToWish([k \in 1 .. 1 |-> Idle])
  BY <1>1, <1>2 DEF Walk, LeadsToWish, Init
<1> QED
  BY <1>2, <1>3 DEF OrderInv

(* A command goes to the end of the queue and changes the wish as it will    *)
(* change the modes.                                                         *)
LEMMA SendKeepsOrder ==
  ASSUME HandlerInv, OrderInv, NEW c \in Command, Send(c, ModeAfter(wish, c))
  PROVE  OrderInv'
<1> SUFFICES ASSUME ~lost, ~premature, appHandler \in announced
             PROVE  /\ \A k \in 1 .. Len(toPlayer') : toPlayer'[k].user_id = OurId
                    /\ \E ms \in Walk' : LeadsToWish(ms)'
  BY DEF Send, OrderInv, netVars
<1> DEFINE n == Len(toPlayer)
<1> DEFINE m == [user_id |-> userId[appHandler], cmd |-> c]
<1>1. toPlayer \in Seq(Message) /\ n \in Nat /\ wish \in Mode
  BY DEF HandlerInv, OrderTypes
<1>2. m.user_id = OurId /\ m.cmd = c /\ m \in Message
  BY DEF HandlerInv, Announced, Message
<1> HIDE DEF m
<1>3. toPlayer' = Append(toPlayer, m)
  BY DEF Send, m
<1>4. /\ Len(toPlayer') = n + 1
      /\ \A k \in 1 .. n : toPlayer'[k] = toPlayer[k]
      /\ toPlayer'[n + 1] = m
  BY <1>1, <1>2, <1>3
<1>5. ModeAfter(wish, c) \in Mode
  BY <1>1, ModesStay
<1>6. PICK ms \in Walk : LeadsToWish(ms)
  BY DEF OrderInv
<1> PICK ns : ns = [k \in 1 .. n + 2 |-> IF k = n + 2 THEN ModeAfter(wish, c) ELSE ms[k]]
  OBVIOUS
<1>7. ns \in Walk'
  <2>1. \A k \in 1 .. n + 2 : k # n + 2 => k \in 1 .. n + 1
    BY <1>1
  <2>2. \A k \in 1 .. n + 1 : ms[k] \in Mode
    BY <1>6 DEF Walk
  <2>3. ns \in [1 .. n + 2 -> Mode]
    BY <1>5, <2>1, <2>2
  <2>4. Len(toPlayer') + 1 = n + 2
    BY <1>1, <1>4
  <2>5. Walk' = [1 .. Len(toPlayer') + 1 -> Mode]
    BY DEF Walk, Mode
  <2> QED
    BY <2>3, <2>4, <2>5
<1>8. \A k \in 1 .. n + 1 : ns[k] = ms[k]
  BY <1>1
<1>9. ns[n + 2] = ModeAfter(wish, c)
  BY <1>1
<1>10. ns[1] = mode'
  BY <1>1, <1>6, <1>8 DEF LeadsToWish, Send, playerVars
<1>11. ASSUME NEW k \in 1 .. n + 1
       PROVE  ns[k + 1] = ModeAfter(ns[k], toPlayer'[k].cmd)
  <2>1. CASE k \in 1 .. n
    BY <1>1, <1>4, <1>6, <1>8, <2>1 DEF LeadsToWish
  <2>2. CASE k = n + 1
    BY <1>1, <1>2, <1>4, <1>6, <1>8, <1>9, <2>2 DEF LeadsToWish
  <2> QED
    BY <1>1, <2>1, <2>2
<1>12. ns[Len(toPlayer') + 1] = wish'
  BY <1>1, <1>4, <1>9 DEF Send
<1>13. LeadsToWish(ns)'
  <2>1. \A k \in 1 .. Len(toPlayer') : ns[k + 1] = ModeAfter(ns[k], toPlayer'[k].cmd)
    BY <1>4, <1>11
  <2> QED
    BY <1>10, <1>12, <2>1 DEF LeadsToWish, ModeAfter
<1>14. \A k \in 1 .. n + 1 : toPlayer'[k].user_id = OurId
  <2>1. \A k \in 1 .. n : toPlayer[k].user_id = OurId
    BY DEF OrderInv
  <2> QED
    BY <1>1, <1>2, <1>4, <2>1
<1> QED
  BY <1>4, <1>7, <1>13, <1>14

(* What the application asks for is what the commands do.                    *)
LEMMA WishIsWhatCommandsDo ==
  ASSUME Application
  PROVE  \/ GetPlayerHandler
         \/ \E c \in Command : Send(c, ModeAfter(wish, c))
<1>1. CASE Start \/ Pause \/ Stop
  <2>1. {PlayStart, PlayPause, PlayStop} \subseteq Command
    BY DEF Command
  <2> QED
    BY <1>1, <2>1, StartsAndStops DEF Start, Pause, Stop
<1>2. CASE StepForward \/ StepBackward
  <2>1. \A b \in BOOLEAN : ModeAfter(wish, PlayStep(b)) = wish /\ PlayStep(b) \in Command
    BY DEF ModeAfter, PlayStep, Command
  <2> QED
    BY <1>2, <2>1 DEF StepForward, StepBackward
<1>3. ASSUME NEW b \in BOOLEAN, SwitchReverseMode(b) \/ SwitchLoopMode(b) \/ SwitchLiveMode(b)
      PROVE  \E c \in Command : Send(c, ModeAfter(wish, c))
  <2>1. /\ ModeAfter(wish, PlayReverse(b)) = [wish EXCEPT !.reverse = b]
        /\ PlayReverse(b) \in Command
    BY DEF ModeAfter, PlayReverse, Command
  <2>2. /\ ModeAfter(wish, PlayLoop(b)) = [wish EXCEPT !.loop = b]
        /\ PlayLoop(b) \in Command
    BY DEF ModeAfter, PlayLoop, Command
  <2>3. /\ ModeAfter(wish, PlayLive(b)) = [wish EXCEPT !.live = b]
        /\ PlayLive(b) \in Command
    BY DEF ModeAfter, PlayLive, Command
  <2> QED
    BY <1>3, <2>1, <2>2, <2>3 DEF SwitchReverseMode, SwitchLoopMode, SwitchLiveMode
<1>4. ASSUME NEW t \in Time, PlayFromPosition(t)
      PROVE  \E c \in Command : Send(c, ModeAfter(wish, c))
  <2>1. ModeAfter(wish, PlayFromPos(t)) = wish /\ PlayFromPos(t) \in Command
    BY DEF ModeAfter, PlayFromPos, Command
  <2> QED
    BY <1>4, <2>1 DEF PlayFromPosition
<1>5. CASE IncreasePlayingSpeed \/ DecreasePlayingSpeed \/ NormalizePlayingSpeed
  <2>1. /\ ModeAfter(wish, PlaySpeed(TRUE, FALSE)) = [wish EXCEPT !.speed = @ + 1]
        /\ ModeAfter(wish, PlaySpeed(FALSE, FALSE)) = [wish EXCEPT !.speed = @ - 1]
        /\ ModeAfter(wish, PlaySpeed(FALSE, TRUE)) = [wish EXCEPT !.speed = 0]
    BY DEF ModeAfter, PlaySpeed
  <2>2. \A i, n \in BOOLEAN : PlaySpeed(i, n) \in Command
    BY DEF Command
  <2> QED
    BY <1>5, <2>1, <2>2 DEF IncreasePlayingSpeed, DecreasePlayingSpeed, NormalizePlayingSpeed
<1> QED
  BY <1>1, <1>2, <1>3, <1>4, <1>5 DEF Application

(* The player obeys the first command: the walk goes on from the second      *)
(* point of the queue.                                                       *)
LEMMA ObeyKeepsOrder ==
  ASSUME HandlerInv, OrderInv, Obey
  PROVE  OrderInv'
<1> SUFFICES ASSUME ~lost, ~premature
             PROVE  /\ \A k \in 1 .. Len(toPlayer') : toPlayer'[k].user_id = OurId
                    /\ \E ms \in Walk' : LeadsToWish(ms)'
  BY DEF Obey, OrderInv, netVars
<1> DEFINE n == Len(toPlayer)
<1>1. toPlayer \in Seq(Message) /\ n \in Nat /\ n >= 1
  BY DEF HandlerInv, OrderTypes, Obey
<1>2. /\ Len(toPlayer') = n - 1
      /\ \A k \in 1 .. n - 1 : toPlayer'[k] = toPlayer[k + 1]
      /\ Head(toPlayer) = toPlayer[1]
  BY <1>1 DEF Obey
<1>3. \A k \in 1 .. n : toPlayer[k].user_id = OurId
  BY DEF OrderInv
<1>4. PICK ms \in Walk : LeadsToWish(ms)
  BY DEF OrderInv
<1>5. ms[2] = mode'
  <2>1. mode' = ModeAfter(mode, toPlayer[1].cmd)
    BY <1>1, <1>2, <1>3 DEF Obey
  <2>2. 1 \in 1 .. n /\ 1 + 1 = 2
    BY <1>1
  <2>3. ms[2] = ModeAfter(ms[1], toPlayer[1].cmd)
    BY <1>4, <2>2 DEF LeadsToWish
  <2> QED
    BY <1>4, <2>1, <2>3 DEF LeadsToWish
<1> PICK ns : ns = [k \in 1 .. n |-> ms[k + 1]]
  OBVIOUS
<1>6. ns \in Walk'
  <2>1. \A k \in 1 .. n : ms[k + 1] \in Mode
    BY <1>1, <1>4 DEF Walk
  <2>2. ns \in [1 .. n -> Mode]
    BY <2>1
  <2>3. Walk' = [1 .. Len(toPlayer') + 1 -> Mode] /\ Len(toPlayer') + 1 = n
    BY <1>1, <1>2 DEF Walk, Mode
  <2> QED
    BY <2>2, <2>3
<1>7. \A k \in 1 .. n : ns[k] = ms[k + 1]
  OBVIOUS
<1>8. ns[1] = mode' /\ ns[Len(toPlayer') + 1] = wish'
  BY <1>1, <1>2, <1>4, <1>5, <1>7 DEF LeadsToWish, Obey
<1>9. ASSUME NEW k \in 1 .. n - 1
      PROVE  ns[k + 1] = ModeAfter(ns[k], toPlayer'[k].cmd)
  <2>1. k \in 1 .. n /\ k + 1 \in 1 .. n
    BY <1>1
  <2>2. ms[(k + 1) + 1] = ModeAfter(ms[k + 1], toPlayer[k + 1].cmd)
    BY <1>4, <2>1 DEF LeadsToWish
  <2> QED
    BY <1>2, <1>7, <2>1, <2>2
<1>10. LeadsToWish(ns)'
  <2>1. \A k \in 1 .. Len(toPlayer') : ns[k + 1] = ModeAfter(ns[k], toPlayer'[k].cmd)
    BY <1>2, <1>9
  <2> QED
    BY <1>8, <2>1 DEF LeadsToWish, ModeAfter
<1>11. \A k \in 1 .. Len(toPlayer') : toPlayer'[k].user_id = OurId
  BY <1>1, <1>2, <1>3
<1> QED
  BY <1>6, <1>10, <1>11

(* Nothing else touches the queue, the modes or the wish, but a loss, which  *)
(* is remembered.                                                            *)
LEMMA OrderSteps ==
  ASSUME HandlerInv, OrderInv, [Next]_vars
  PROVE  OrderInv'
<1>1. ASSUME UNCHANGED <<toPlayer, mode, wish, lost, premature>>
      PROVE  OrderInv'
  BY <1>1 DEF OrderInv, Walk, LeadsToWish, ModeAfter, Mode
<1>2. CASE Maintenance
  BY <1>1, <1>2 DEF Maintenance, CollectPong, CreateHandler, InitHandler, AssignState,
     ConvertState, NotifyUpdate, SignalOnline, SignalOffline, ResetHandler, ClientOnly,
     orderVars, playerVars, netVars
<1>3. CASE Application
  BY <1>1, <1>3, WishIsWhatCommandsDo, SendKeepsOrder
     DEF GetPlayerHandler, orderVars, playerVars, netVars
<1>4. CASE Obey
  BY <1>4, ObeyKeepsOrder
<1>5. CASE Play \/ AnswerPing \/ LosePong
  BY <1>1, <1>5 DEF Play, AnswerPing, LosePong, orderVars, playerVars, netVars
<1>6. CASE LoseCommand
  BY <1>6 DEF LoseCommand, OrderInv
<1>7. CASE UNCHANGED vars
  BY <1>1, <1>7 DEF vars, orderVars, playerVars, netVars
<1> QED
  BY <1>2, <1>3, <1>4, <1>5, <1>6, <1>7 DEF Next, Environment

LEMMA OrderInductive == Safety => []OrderInv
BY OrderInitially, OrderSteps, Inductive, PTL DEF Safety

-----------------------------------------------------------------------------
(* Handlers, states, commands and the player have their types.               *)
THEOREM TypeCorrect == Spec => []TypeOK
BY Inductive, Typed, PTL DEF Spec

(* What a signal announces is complete (updatePlayer, dss_client.cpp:        *)
(* 240-263): whenever the application takes the handler, and however often   *)
(* it is given up, an announced one has the id and a state for ever, is the  *)
(* one the application has until the next offline signal has ended, and      *)
(* shows the player's time when its update is announced.                     *)
THEOREM AnnouncementsAreComplete == Spec => []AnnouncedIsComplete
BY Inductive, Complete, PTL DEF Spec

(* Asynchronous commands add up (player_handler.cpp:97-216): whatever is     *)
(* given through however many handlers, when the last command has arrived    *)
(* the player is in the modes the application asked for, unless a command    *)
(* was lost or given before its handler was announced.                       *)
THEOREM CommandsAddUp == Spec => []QuietPlayerObeys
<1>1. OrderInv => QuietPlayerObeys
  <2> SUFFICES ASSUME OrderInv, toPlayer = <<>>, ~lost, ~premature  PROVE mode = wish
    BY DEF QuietPlayerObeys
  <2>1. Len(toPlayer) + 1 = 1
    OBVIOUS
  <2> QED
    BY <2>1 DEF OrderInv, LeadsToWish
<1> QED
  BY <1>1, OrderInductive, PTL DEF Spec
=============================================================================
