# dss_client in TLA+

This directory specifies the client library of the DSS (`dss_client`), checks
the specification with TLC on small instances and proves its main invariants
with TLAPS.  Paths below are relative to the repository's root (`src/` here).

## The system

`dss_client` is a C++ library that an application loads to see and control a
player over an AMQP broker.  The header says what it wants to be: "maximum
stupid", it "only show[s] system's state and transfers async commands"
(`dss_client.h:12-14`).

| component | code | state | operations |
|---|---|---|---|
| asynchronous requests | `from_ms_common/communication/amqp_client_c.cpp:91-169, 399-550, 612-644`, `network_interface.h`, `commands/i_command.cpp` | per request `m_correlationId`, `m_requestTimeMillisec`, `m_timeouted`; per connection `m_readyResponsesToAsyncMessages`, `m_refusedMessages` | `execAsync`, `isReady`, `sendPackageAsync`, `poll` |
| blocked requests | `amqp_client_c.cpp:552-610` | `m_syncRequestPerformed`, a condition variable | `exec`, `sendPackageBlocked` |
| player session | `dss_client.cpp` (`threadMaintenance` and what it calls), `cmd_player_ping.cpp`, `cmd_player_register.cpp` | `clientUniqueIdForPlayer`, `registrationOnPlayerInProgress`, `onlinePlayer`, `playerHandler`, times of the last ping and pong | one turn of the maintenance loop, pong and registration callbacks |
| player handler | `player_handler.cpp`, `dss_client.cpp:240-263, 448-451`, `commands/player/cmd_play_*.cpp` | the playing state and the user id of each handler, the handler of the client | `updatePlayer`, `updateState`, `getPlayerHandler`, one method per playing command |
| command container | `dss_client.cpp:107-123, 174, 276, 289` | `commandsInProgress`, `commandOpenContext` | iterate and erase, push from the application's threads |
| context reporting | `dss_client.cpp:227-290` | the context of objrepr, the last reported one | context opened, context closed, report after registration |
| instance life cycle | `dss_client.cpp:367-446` | `g_instance`, `g_instanceRefCounter`, the maintenance threads | `getInstance`, `releaseInstance`, `init`, destructor |
| connection set-up | `dss_client.cpp:292-363, 418-446`, `amqp_client_c.cpp:187-396`, `amqp_controller.cpp` | two AMQP connections, two routes, the mailbox in the broker | `init`, `configureRoute`, `shutdown` |
| DSS core session, node handlers | `commands/dss_core`, `handler_node_*` | - | never started, or stubs |

### How they interact

One *maintenance thread* turns a loop every 10 ms: it polls the broker for at
most one message, asks every command of the container whether it is ready,
compares the time of the last pong with the time limit, and pings the player
when the ping interval is over.  Answers are stored by `poll` in a map under
their correlation id and collected by `isReady` of the command that sent the
request; parsing an answer calls back into the client (`IClientControl`):
a pong updates the player handler or starts the registration, the answer of
the registration sets the id.

The application's threads call `getPlayerHandler()` and the methods of the
handler, which send commands; objrepr's signals call `callbackContextOpened`
and `callbackContextClosed` on whatever thread loads a context.  They share
the command container, the map of answers, the ids and the handler with the
maintenance thread.  Only the publish is locked (`m_muSendAsync`).

### What is hard

* sends by one thread and polls by another over unlocked containers;
* answers that are late, lost, garbled or given to an earlier use of the same
  request; a publish that fails unnoticed;
* three time limits (ping interval 1 s, pong timeout 5 s, expiration 10 s) and
  a loop whose turn may take long;
* a player that crashes, restarts and may forget its clients;
* a connection that is lost without a word, and a clock that somebody sets,
  forward or back;
* signals, destruction and registration callbacks that overlap; slots that call
  the library from the thread that it is about to join.

`PROJECT.json` lists each of these at its line (`hazards`).

## Modules

A module and the code it stands for have the same names wherever TLA+ allows
it; `PROJECT.json` ("map") gives the lines of every definition.  Definitions
named `Bad...` are plausible mistakes, one each.  No behaviour uses them; put in
place of the definition that follows them they break the property listed with
them under "mutants", which shows that the property depends on that code.

| module | what it models | state and actions |
|---|---|---|
| `AsyncCall` | abstract: what a command's owner may rely on | a call is idle, requested, replied, ready or lost; it is collected while younger than the expiration, or expires, or is dropped by its owner. Its age is that of a clock that may be set forward (`CallTick`) or back (`CallBack`) |
| `AmqpClient` | `AmqpRequest` and `AmqpClient` as they do it | `readyResponses` is `m_readyResponsesToAsyncMessages` (`Absent` for no entry), `refusedMessages` is `m_refusedMessages`. A send is three steps (id, publish, insert), `Poll` takes at most one message, `Timeout` and `GetAsyncResponse` are the two ways `isReady` settles a request, `Abandon` is `commandOpenContext` overwritten. Ids, and what the network does to a message, are `wire` and `body`. Nobody sets its clock back |
| `PlayerSession` | one turn of `threadMaintenance` and the player | `pc` walks through poll, commands, monitoring, ping; `SetIdFromPlayer`, `PlayerOffline`, `PlayerOnline`, `RegisterInPlayer`, `UpdatePlayer` are the functions of these names. The ping and the register command are two calls of `AsyncCall`. `Init` is that of any instance of the process: `lastPingAtMillisec` is a static of `ping` (`dss_client.cpp:162`), so `pingAge` may be that of the last ping of the instance before. The environment is the player (crash, restart, loss of its registrations), the network (`Fault`, which may also answer a registration without a `user_id`, and `ConnectionBreaks`) and the clock (`Tick`, and `ClockIsSet`, forward or back) |
| `PlayerSessionTimed` | the same with four stop watches, which observe and never hold back | every action of `PlayerSession` with `Watch(d)`: `silence` runs while a player that cannot be reached is taken for alive, `unasked` since the last ping was sent, `settled` since something last disturbed client and player, `unregistered` while a client that no fault disturbs is not known to the player |
| `PlayerHandler` | the handlers that the client makes, updates and gives up, and what the application does through them | `CreateHandler` to `SignalOnline` are the steps of `updatePlayer` with `updateState` (the step number is stored first and converted then), `SignalOffline` and `ResetHandler` those of `remoteServicesMonitoring`; one action per method of the handler; `PlayStart` to `PlaySpeed` are the records that the nine commands write |
| `ContextReporting` | the two callbacks of objrepr and `setIdFromPlayer`, on two threads | read the context, make the command, publish, each a step; `LoseReport` is a report that expires or whose publish fails |
| `CommandQueue` | `commandsInProgress` and `commandOpenContext` | `iter` is the iterator of `commandsProcessing`; `AddCommmand` and `ContextOpened` are the pushes of other threads. A push while the iterator lives moves the vector (`invalidatedBy`), and the behaviour ends there, because what follows is undefined |
| `InstanceLifecycle` | `getInstance`, `releaseInstance`, the thread of `init` and the destructor | every access to `g_instance` and `g_instanceRefCounter` is a step. Callers are threads and slots: a slot runs on a maintenance loop (`SlotCalls`), which cannot end in the middle of it. A second `init` starts a second loop and the destructor joins the last (`KnownLoop`); a slot that joins its own loop gets an exception (`JoinSelf`) |
| `SharedInstance` | abstract: what an application may rely on when it takes and releases the client | `GetFirst`, `GetShared`, `Release`, `Destroy`; a new instance was never used before, all holders have the same, it goes away when nobody holds it |
| `ConnectionSetup` | `init`, both `configureRoute`, the broker's queue | the five calls of the broker are `Steps`; the mailbox has one name for the whole process, so a former client may still consume from it |
| `MC...` | values of the constants for TLC | - |
| `...Proofs` | theorems and proofs about the module they are named after | - |

### How the modules fit together

`AmqpClient` implements `AsyncCall`: `Abs` instantiates the abstract module
with `AbsCall` and `AbsReply`, computed from the id, the map and the wire
(`ImplementsAsyncCall`, run `amqp`; the safety part is proved, `ImplementsCalls`).
`PlayerSession` is written over `AsyncCall` (`Call == INSTANCE AsyncCall`) and
its proof shows that every step of it is a step of the calls (`SessionUsesCalls`),
so the real client may stand where the abstract calls stand, as long as nobody
sets the clock back: `AmqpClient` has no such step and implements the calls with
`ClockBack = 0`.  When calls do not
overlap, `InstanceLifecycle` implements `SharedInstance`: a caller has the
instance from the step of `getInstance` that finds or makes it to the step of
`releaseInstance` that takes it off the counter (`HasInstance`), and the instance exists until its
destructor has returned (`LivingInstance`); checked as
`ImplementsSharedInstance` in run `instance` and proved (`InstanceIsShared`).
The other modules take over what these establish: `CommandQueue` lets every request settle
(`EveryCallSettles`); `ContextReporting` sets the id once (`RegistersOnce`,
`IdIsKept`); `PlayerHandler` has pongs that carry the player's state and a handler
that is made with the client's id (`HandlerHoldsOurId`).

## What is checked

| run | question | expected |
|---|---|---|
| `amqp` | a reused ping and a command of another thread: is each stored answer final, owned by one waiting request, never refused while waited for, refused when it was still on its way at the timeout; is none of the polling thread's answers misrouted; does every request settle; is all this an `AsyncCall`? | holds |
| `amqp_twothreads` | is the answer to a request of *another* thread ever taken for an initiative of the other side? | it is: poll between publish and insert |
| `session` | with two faults (lost or garbled messages, a registration answered without an id, a lost connection, a clock set forward or back) and a crash of a player that forgets its clients: one registration, a handler with our id exactly while online was signalled, no offline without a fault; how long may the handler of a player that is dead or cannot be reached stay, how far are two pings apart, how soon is a client that the player knows served again, and an undisturbed one registered; is it served in the end? | holds, with 17 s, 13 s and 17 s, each plus what the clock was set back by, and 11 s |
| `session_lostregister` | is a player that stays up always served? | no, if one registration is lost |
| `session_forgetful` | the same, no message lost | no, if the player restarts without its registrations |
| `playing` | is a handler complete when it is announced, does the player end in the modes that were asked for, does the handler end with the time where the player stays? | holds |
| `context_reports` | does the player end with the context the client works in, and does a lost report matter? | it does, unless a context event falls into one window of `setIdFromPlayer`; only the loss of the *last* report matters |
| `commands` | does a walk ask every command exactly once, do its handlers leave the vector alone, who may destroy a performing command, does every command leave? | holds while no other thread moves the vector |
| `instance` | three threads and the slots of every loop, one call at a time, two inits, three generations: one instance, exactly counted, destroyed after its loop by the last release; which calls hang; is all this a `SharedInstance`? | holds; a call hangs only when it joins the loop of a slot that calls |
| `instance_miscounted` | does the assertion of `releaseInstance` hold when calls overlap? | no, an update of the counter is lost |
| `connection` | after `init` has returned true, is there a consumed mailbox, and in the end ours alone; is every failure reported and does it have a cause? | holds |
| `connection_unreachable` | does `init` return when the broker cannot be reached? | no, a null client is dereferenced |

The five runs that end in a violation are the findings of `PROJECT.json`, each
with the sentence of the repository that the code contradicts.

Beyond the findings the models show, without a run of their own:

* one lost pong is enough to withdraw the handler of a live player, because the
  ping expires after 10 s and the pong timeout is 5 s (`OfflineHasCause` allows
  faults for this reason);
* the time limits of the code leave room for turns and answers of up to one
  second (`InTime`, below).  With turns of two ticks (`MaxLag = 2`) a client that
  nothing disturbs may be told offline, and with turns longer than half the pong
  timeout `SilenceIsHeard` fails (`PongTimeout = 5`, `MaxLag = 3`): a pong that
  took a turn to collect and another to reach line 138 is stale there, and
  `onlinePlayer` stays false next to a handler that nothing withdraws any more;
* a player that dies is shown online for up to 17 s, not for the 5 s of
  `PONG_TIMEOUT_MILLISEC`: the last ping before its death expires first, 10 s
  after it was sent;
* a clock that is set forward has the same effects: between the pong that makes
  the handler and line 138 it leaves the handler of a dead player for ever
  (`silence` does not run on a clock that was set forward), and during the
  registration it ends registration for ever, as a lost answer does;
* a clock that is set back makes the times since the last ping, the last pong
  and the last request negative (`dss_client.cpp:127, 138, 163`,
  `amqp_client_c.cpp:132`): no ping is sent, nothing expires and nobody is
  reported offline for as long.  It costs that time and no more, which is what
  `SetBack` in `SilenceIsHeard`, `PingsGoOn` and `ServedInTime` says; TLC finds
  that each of the three bounds is reached;
* an answer to the register command that has no `user_id` gives the client an
  empty id, which is not `INVALID_CLIENT_ID`: it pings with it for ever and never
  registers again (`cmd_player_register.cpp:40`, `dss_client.cpp:215`).
  `HandlerHoldsOurId` says that no handler comes of it;
* the body of an answer that is polled after the expiration and before the next
  `isReady` stays in the map for ever, as does that of a destroyed command
  (`LateAnswerRefused` names both);
* a second `init` of a living instance leaves a loop that nobody joins, which
  runs on in what is freed (`ended = "orphan"`); a slot that releases the last
  pointer joins itself (`ended = "join"`); a slot that waits for the lock of the
  application while another thread joins its loop hangs with it (the second
  disjunct of `CallsReturn`);
* overlapping calls (`Concurrent = TRUE`) break `HolderHasSingleton` as well;
* a lost report of a context is made good by the next event, and by none if
  there is none.

### Bounds, and why they are enough

* `amqp`: two requests, two ids.  The code compares ids for equality only, and a
  request has at most a previous and a current use; two uses of the ping, or one
  of each request, are both reached.  `Expiration = 1` tells young, just in time
  and too old apart.  The safety properties are proved for all values.
* `session`: one tick is a second; the limits are the code's (1, 5 and 10), so
  every relation between them is the real one.  Two faults allow a fault and one
  more during the recovery; one crash is enough to lose the registrations.
  `MaxLag = 1` is a turn of at most a second, the loop sleeps 10 ms.  A lost
  connection, a registration answered without an id and a change of the clock
  count as faults; the clock is set at most once.  `ClockJump = 11` exceeds every
  limit at once, `ClockBack = 2` is more than the ping interval.  Ages are counted
  up to `ClockBack` above the limit they are compared with, so that setting the
  clock back is exact, and cut off there, which no comparison sees.  The ages of a
  clock that was set back are negative.  A clock that was set back before the
  instance began, so that even the first `pingAge` is negative, is not modelled.
  `MCFirstId` (an action
  constraint) lets the first id that the player gives be `u1`: the ids are alike,
  so this leaves out only behaviours that are renamings of others, and the
  player that has to give an id always may.  The watches stop above
  `WithdrawLimit`, `PingLimit`, `ServeLimit` and `RegisterLimit`, further than the
  properties compare them.  With the limits of the run the first three are
  exact: TLC violates each property when its bound is one tick less, with the
  clock set back or not.  The longest wait for a registration that TLC finds is
  10 s, one below the limit.  `session_lostregister` and `session_forgetful` need
  no set clock (`ClockBack = 0`).
* `playing`: two lives of the handler (an old one kept, a new one made), every
  pair of commands, one lost message, two positions; `RangeLeft` is above every
  step number, so that a step can never pass for a time.
* `context_reports`: four events give two loads and two unloads, around and
  inside the one registration; two lost reports are one that a later report
  corrects and one more.  `commands`: a command of every kind that the
  code tells apart, two open commands, one being overwritten.  `instance`: three
  threads, so that two overlapping generations have a witness, and two inits,
  so that a loop that is not the known one exists.  `connection`:
  four clients and two faults give a failure, a second attempt, a release and
  another instance.

Symmetry is used only in safety runs (`amqp_twothreads`, `context_reports`,
`instance_miscounted`).  Deadlock is checked in `amqp`, `session` and `playing`.
It is off in `commands` (nothing follows an invalid iterator), `context_reports`,
`instance` and `connection` (the number of events is bounded, and an assertion
or a null pointer ends the process): there the system really stops.

### Fairness

| assumed | why |
|---|---|
| the maintenance loop turns (`WF(Maintenance)`, `WF(Timeout \/ GetAsyncResponse)`) | `dss_client.cpp:95-105`: no step of it waits for anybody; a poll has a time limit of its own |
| time passes (`Tick`) | it is compared, never waited for |
| a thread in a send goes on | the three steps of `sendPackageAsync` wait for one mutex that is held for a bounded time |
| a player that is up and can be reached answers (`ServePing`, `ServeRegister`, `AnswerPing`) | what "up" means: a player that does not answer is down |
| a call of the library that has begun goes on; a loop that was told to shut down ends | `InstanceLifecycle`, `dss_client.cpp:95-105, 373-381` |
| the broker notices that a consumer is gone (`Teardown`) | AMQP: the queue is `auto_delete`, its consumer is the closed connection |

Safety does not need any of this.  `SilenceIsHeard`, `PingsGoOn`, `ServedInTime`
and `RegisteredInTime` are invariants: "in a bounded time" is said of the watches, and
that a turn and an answer take a bounded time is in the guard of `Tick`.  Where
time passes they say more than "in the end" would; where it does not, nothing.
`UndisturbedClientServed` is the liveness property beside the last two: it also
excludes that the loop or the time stands still before the handler is there.

Nothing is assumed about answers, deliveries, the application, its slots or the
context: they may always stop.  That a slot returns is not assumed either: one
that waits for its turn may wait for ever.

## What is proved

All proofs hold for every value of the constants that meets the `ASSUME` of the
module; none of them needs the bounds to be small.

**`AmqpClientProofs`** - from `AmqpAssumption`.  `TypeOK` and the five safety
invariants of run `amqp`.  None of them is inductive: that an answer is final
needs to know that an id is issued once and only then put on the wire, and that
a waited id is not refused needs one owner per id.  `IInv` adds how far the
message with an id is for each state of its request; each conjunct has a step
per action.  `OneThreadMisroutesNothing` says that with `Foreign = {}` the
violation of `amqp_twothreads` cannot happen, so the second thread is its only
cause.  `ImplementsCalls` proves the safety part of the refinement: initial
states map to initial states, every step to a step or a stutter of `AsyncCall`.

**`PlayerSessionProofs`** - from `SessionAssumption` and `AnswerAssumption` (the
empty body is no answer).  `TypeOK`,
`HandlerHoldsOurId`, `RegistersOnce`, `IdIsKept` (an id, once set, is never
replaced) and `SessionUsesCalls`.  The strengthening `SInv` relates the latch
`registrationOnPlayerInProgress` to the register call (`LatchHolds`), the
player's registrations to the client's id and the answer under way
(`PlayerKnowsOneId`), and pongs to the id their ping carried (`PingsCarryOurId`):
without the last one a pong might create a handler before there is an id.

`NoFalseAlarm` proves `OfflineHasCause` for all time limits that meet `InTime`:

    NetDelay <= PingInterval                MaxLag <= PingInterval
    2*PingInterval + 2*MaxLag <= Expiration
    2*PingInterval + 3*MaxLag <= PongTimeout + 1

The pong of a ping is collected when the next ping is due, or, if it was not
there by then, when the next but one is; `FirstInterval` and `SecondInterval`
bound the age of the ping in the two cases and `Schedule` the age of the last
pong with it.  At most one poll can miss a pong that is there, the one that takes
the answer to the register command.  In ticks of 1 ms with the code's 1000, 5000
and 10000 this says that turns of the loop and answers of up to one second never
make a living player look dead.  The last inequality is exact in the instances
TLC was tried on (`PingInterval = MaxLag = 1`: 4 is enough, 3 is not;
`PingInterval = MaxLag = 2`: 9 is enough, 8 is not).

**`PlayerSessionTimedProofs`** - from the same assumptions; `MaxLag > 0` says that
time may pass while a turn of the loop takes its course.

* `PingsArePunctual` (`PingsGoOn`) holds for all time limits, whatever is lost or
  crashes.  `AskedInv` bounds `unasked` by the age of the last ping and, when that
  ping is settled, by the interval that began then; one turn is added for the
  moment at which each is noticed.  A clock that was set back is behind by
  `SetBack`, which is added to every bound; one that may still be set back makes
  an age young again, so the bounds have to hold of ages `MayGoBack` above the
  limit as well.
* `SilenceIsNoticed` (`SilenceIsHeard`) needs `TurnsInTime`: two turns are at
  most the pong timeout, and the ping interval is not longer. The first is sharp
  (above). A pong that is on its way in the silence was asked for before it
  (`SilenceStarts`), so the last one comes within the expiration, and `Heard`
  counts on from there until it is too old and line 138 is reached. The
  invariant that matters is `HandlerIsNew`: a handler next to `onlinePlayer =
  FALSE` is as young as the last pong, and young enough for line 138 to set the
  flag before the pong is stale.  A clock that is set back makes a pong younger,
  which disturbs none of this; of one that is set forward nothing is said.
* `WithdrawnForGood`: while the player cannot be reached, a withdrawn handler
  stays so; no pong is left that could make one.
* `KnownClientIsServed` (`ServedInTime`) needs `InTime`.  It is the argument of
  `NoFalseAlarm` started in the middle: `FreshInv` says that some time after the
  last disturbance the ping under way carries the client's id, was sent since,
  and will be answered, so that the bounds of the schedule hold from its pong on.
* `UndisturbedClientRegisters` (`RegisteredInTime`) needs `InTime` and that the
  network delay and four turns fit into the expiration (`RegisterInTime`).  A poll
  takes one message, so the answer to the register command may wait while pongs
  are taken; `AnswerWaits` shows that this happens twice at most, because a ping
  is sent only when its interval is over.  `NotYetAsked` bounds the time until
  the first pong starts the registration, counting from a last ping that an
  earlier instance may have sent just before, `RegisterUnderWay` the rest.  Each is
  the worst case of its part, and the two cannot meet: hence the second that
  TLC finds to be missing.

**`ConnectionSetupProofs`** - from `SetupAssumption`.  `TypeOK`,
`ReadyMeansReachable`, `FailureIsReported`, `FailureHasCause`.  `Stage` says
what `init` has by each of its steps, `Reported` and `Caused` follow a failure
from the null pointer that it leaves to the value that `init` returns, and
`Kept` says that the queue lives as long as it has a consumer and that a
connected client past its subscription is one: former clients that disappear at
any step cannot change this.

**`PlayerHandlerProofs`** - from `HandlerAssumption`.  `TypeOK`,
`AnnouncedIsComplete` and `QuietPlayerObeys`.  `Life` says whether the handler of
the client is announced, complete or in the making at each point of the
maintenance thread, and `Counters` that a new handler is none of the announced
ones; no step of the application disturbs either, so an early `getPlayerHandler`
does no harm to what is announced later.  For `QuietPlayerObeys` one would
compute the modes after the whole queue by recursion over it; `OrderInv` says
instead that there *is* a walk of modes, one more than the commands under way,
that starts at the player's, takes one command a step and ends at the wish: a
command that is sent makes the walk longer, one that is obeyed takes off its head.

**`InstanceLifecycleProofs`** - from `LifecycleAssumption` and `~Concurrent`.
`TypeOK` and the four safety invariants of run `instance`.  `CounterIsExact` says
that the counter is the number of those who hold the pointer or are about to get
it, and that what a caller has read of it is still true; it needs `Alone`, the
lock.  `CallersAgree` and `PointerAgrees` say what the pointer is for each place
of a call.  Without the lock `instance_miscounted` breaks the first of them.
`InstanceIsShared` proves the whole refinement of `SharedInstance`, from the same
invariant: `CreateInstance` is `GetFirst`, `LookForInstance` is `GetShared` when
it finds a pointer, `DropReference` is `Release` and `Join` is `Destroy`.  That
the pointer which is found is not that of an instance on its way out is the
lock again.

**`ContextReportingProofs`** - from `ContextAssumption`.  `TypeOK` and
`OnlyOvertakenReportsMislead`.  `WillHave(x)` says that the player has context `x`
once it has taken every report under way, which the last one with a valid id
decides.  `LastReportTells` says that until a report is overtaken or lost at the
end, either a report is still to come (`Pending`) or the player will have the
current context.

**`CommandQueueProofs`** - from `QueueAssumption`.  `TypeOK`, `WalkAsksEachOnce`
and `OnlyContextEventsForget`.  A command is sent once, so the vector has it once
(`VectorIsUnique`): erasing at the iterator therefore takes nothing from the rest
of the walk.  The pointer holds a command of the maintenance thread only after
the one registration (`OpenedByRegistration`), so a second one that would destroy
it is another thread's.

Every safety invariant that a passing run checks is proved.  Out of the prover's
reach, and left to TLC: everything under fairness (`EveryCallSettles`,
`UndisturbedClientServed`, `CallsReturn`, `CommandsLeave`, `MailboxIsOurs`,
`ShownFollowsPlayer`, the liveness part of `ImplementsAsyncCall`) and `ENABLED`.

## What is not modelled

* The DSS core session: its commands are written but never started (`ping()` has
  a TODO in its place); `onlineDSS` stays false.
* The node handlers and `setRange`: every method is a TODO.
* Blocked requests: `ICommand::exec`, the only way to send one, has no caller, so
  neither the second mutex of `AmqpClient` nor its condition variable is ever used.
* The answering side of `AmqpRequest` (the replier branch of `sendMessageAsync`, `amqp_client_c.cpp:113-127`): nothing in this
  client answers a request.
* What happens after a destruction: a signal of objrepr that calls into the
  destroyed implementation (`dss_client.cpp:441` connects and nothing
  disconnects), a player handler that the application keeps longer than the
  client.  Both read freed memory; when they happen is the choice of the
  application, and the repository says nothing about it that could be checked.
* Other processes: two of them in containers with the same address and the same
  pid would share one mailbox (`dss_client.cpp:319`) and lose each other's answers.
* The width of the integers: times are differences of 64-bit milliseconds, the
  step time is the player's choice.
* Overlapping operations of one `std::map`, `std::vector` or `shared_ptr`: they
  are undefined; the models have their orders.
* Reconnecting: the code has no operation for it, a broken connection stays so.
* The status, the ranges and the data sets of the playing state.  `readState`
  never sets the status, so what the application reads there is indeterminate.
* Loggers and formatting.

## Plan

Done: all modules above, and the proofs of every safety invariant that the runs
check and of both refinements.  What could be added:

1. Compose `PlayerSession` with `PlayerHandler` over the abstract calls, so that
   going offline in the second is the first's, and a playing command competes
   with pongs for the one message of a poll.
2. A second process at the mailbox of `ConnectionSetup`.
3. The calls of `CommandQueue` from a slot: an application that commands the
   player from a signal of the maintenance thread pushes outside of a walk only,
   because nothing that the walk asks emits a signal.
4. The exact `RegisterLimit`, a turn less, which needs the two parts of
   `UndisturbedClientRegisters` related.
