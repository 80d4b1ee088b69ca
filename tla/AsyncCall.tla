------------------------------ MODULE AsyncCall ------------------------------
(***************************************************************************)
(* What an asynchronous command of the client promises to its owner.       *)
(*                                                                         *)
(* A command is started, its request travels to the other side, and one    *)
(* of three things happens: the answer is collected while the request is   *)
(* younger than the expiration, the request expires, or its owner drops    *)
(* it.  The owner of a collected answer has the answer the other side gave *)
(* to this very call.  How the client does it (correlation ids, the map    *)
(* of ready responses, the set of refused messages, the send lock) is the  *)
(* business of AmqpClient, which implements this module.                   *)
(***************************************************************************)
EXTENDS Integers

CONSTANTS
    Request,        \* the requests (AmqpRequest objects, one per command)
    Reused,         \* those whose object outlives an expiration (the pings)
    Droppable,      \* those whose owner may drop them while performing
    Body,           \* the bodies an answer may have
    Empty,          \* the empty body: it never counts as an answer
    Expiration,     \* deliveredMessageExpirationSec, in ticks
    ClockBack       \* ticks that the clock may be set back by, 0 for never

VARIABLES
    call,           \* where each call is
    age,            \* the clock's ticks since m_requestTimeMillisec, cut off
    reply,          \* the answer of the other side
    timeouted       \* m_timeouted, never reset in an object

callVars == <<call, age, reply, timeouted>>

(* Negative is the age of what was begun before the clock was set back.      *)
Age == -ClockBack .. Expiration + ClockBack + 1

(* The code only compares an age with the expiration.  It is counted as far   *)
(* above it as the clock can be set back, and cut off there.                 *)
Older(a, d) == IF a + d > Expiration + ClockBack THEN Expiration + ClockBack + 1 ELSE a + d

IsPerforming(r) == call[r] # "idle"

(* A request without a time limit: a mistake that no behaviour makes.         *)
BadExpired(r) == FALSE
Expired(r)    == age[r] > Expiration

CallTypeOK ==
    /\ call \in [Request -> {"idle", "requested", "replied", "ready", "lost"}]
    /\ age \in [Request -> Age]
    /\ reply \in [Request -> Body \cup {Empty}]
    /\ timeouted \in [Request -> BOOLEAN]

CallInit ==
    /\ call = [r \in Request |-> "idle"]
    /\ age = [r \in Request |-> 0]
    /\ reply = [r \in Request |-> Empty]
    /\ timeouted = [r \in Request |-> FALSE]

(* A call that ends leaves its age and its answer behind. *)
Settle(r) ==
    /\ call' = [call EXCEPT ![r] = "idle"]
    /\ reply' = [reply EXCEPT ![r] = Empty]
    /\ age' = [age EXCEPT ![r] = 0]

-----------------------------------------------------------------------------
(* ICommand::execAsync of a command that is not performing. A command that *)
(* is not reused is a new object, with m_timeouted false.                  *)
Start(r) ==
    /\ ~IsPerforming(r)
    /\ call' = [call EXCEPT ![r] = "requested"]
    /\ timeouted' = [timeouted EXCEPT ![r] = r \in Reused /\ @]
    /\ UNCHANGED <<age, reply>>

(* The other side answers. *)
Serve(r, b) ==
    /\ call[r] = "requested"
    /\ call' = [call EXCEPT ![r] = "replied"]
    /\ reply' = [reply EXCEPT ![r] = b]
    /\ UNCHANGED <<age, timeouted>>

(* The request or its answer is gone: publishing failed, the broker dropped *)
(* the message, or the answer was taken for something else.                 *)
Lose(r) ==
    /\ call[r] \in {"requested", "replied"}
    /\ call' = [call EXCEPT ![r] = "lost"]
    /\ reply' = [reply EXCEPT ![r] = Empty]
    /\ UNCHANGED <<age, timeouted>>

(* The answer reaches the client. An empty one is as good as none. *)
Arrive(r) ==
    /\ call[r] = "replied"
    /\ call' = [call EXCEPT ![r] = IF reply[r] = Empty THEN "lost" ELSE "ready"]
    /\ UNCHANGED <<age, reply, timeouted>>

(* ICommand::isReady finds the answer. *)
Collect(r) ==
    /\ call[r] = "ready"
    /\ ~Expired(r)
    /\ Settle(r)
    /\ UNCHANGED timeouted

(* ICommand::isReady finds the request too old, whatever has arrived. *)
Expire(r) ==
    /\ IsPerforming(r)
    /\ Expired(r)
    /\ Settle(r)
    /\ timeouted' = [timeouted EXCEPT ![r] = TRUE]

(* The owner drops a performing command. *)
Drop(r) ==
    /\ r \in Droppable
    /\ IsPerforming(r)
    /\ Settle(r)
    /\ UNCHANGED timeouted

(* Every performing request is d ticks older, by the clock. *)
CallPass(d) ==
    /\ age' = [r \in Request |-> IF IsPerforming(r) THEN Older(age[r], d) ELSE age[r]]
    /\ UNCHANGED <<call, reply, timeouted>>

(* Time passes, or the clock is set forward. *)
CallTick == \E d \in 1 .. Expiration + 2 * ClockBack + 1 : CallPass(d)

(* The clock is set back, once. *)
CallBack ==
    /\ ClockBack > 0
    /\ \A r \in Request : age[r] >= 0
    /\ CallPass(-ClockBack)

CallNext ==
    \/ \E r \in Request :
        \/ Start(r)
        \/ \E b \in Body \cup {Empty} : Serve(r, b)
        \/ Lose(r)
        \/ Arrive(r)
        \/ Collect(r)
        \/ Expire(r)
        \/ Drop(r)
    \/ CallTick
    \/ CallBack

(* The owner keeps asking isReady, and time passes. *)
CallFairness ==
    /\ WF_callVars(CallTick)
    /\ \A r \in Request : WF_callVars(Collect(r) \/ Expire(r))

CallSafety == CallInit /\ [][CallNext]_callVars
CallSpec   == CallSafety /\ CallFairness
=============================================================================
