-------------------------- MODULE AmqpClientProofs --------------------------
(***************************************************************************)
(* Proofs about AmqpClient: for any requests, threads, ids and expiration. *)
(***************************************************************************)
EXTENDS AmqpClient, TLAPS

(* Every step of every thread keeps the requests and the containers typed. *)
LEMMA TypeStep == TypeOK /\ [Next]_vars => TypeOK'
<1>. USE AmqpAssumption
<1>. SUFFICES ASSUME TypeOK, [Next]_vars PROVE TypeOK'
  OBVIOUS
<1>. USE DEF TypeOK, netVars, clientVars, IsPerforming, ClearCorrelationId
<1>0. CASE UNCHANGED vars
  BY <1>0 DEF vars
<1>1. ASSUME NEW r \in Request, SendMessageAsync(r) PROVE TypeOK'
  BY <1>1 DEF SendMessageAsync
<1>2. ASSUME NEW r \in Request, Publish(r) PROVE TypeOK'
  BY <1>2 DEF Publish
<1>3. ASSUME NEW r \in Request, PublishFails(r) PROVE TypeOK'
  BY <1>3 DEF PublishFails
<1>4. ASSUME NEW r \in Request, ExpectResponse(r) PROVE TypeOK'
  BY <1>4 DEF ExpectResponse
<1>5. ASSUME NEW r \in Request, Timeout(r) PROVE TypeOK'
  BY <1>5 DEF Timeout, CanAsk, Age
<1>6. ASSUME NEW r \in Request, GetAsyncResponse(r) PROVE TypeOK'
  BY <1>6 DEF GetAsyncResponse, CanAsk, Age
<1>7. ASSUME NEW r \in Request, Abandon(r) PROVE TypeOK'
  BY <1>7 DEF Abandon, Age
<1>8. ASSUME NEW c \in CorrId, StoreResponse(c) PROVE TypeOK'
  BY <1>8 DEF StoreResponse, Consume
<1>9. ASSUME NEW c \in CorrId, RefuseResponse(c) PROVE TypeOK'
  BY <1>9 DEF RefuseResponse, Consume
<1>10. ASSUME NEW c \in CorrId, TakeAsInitiative(c) PROVE TypeOK'
  BY <1>10 DEF TakeAsInitiative, Consume
<1>11. ASSUME NEW c \in CorrId, ServerReply(c) PROVE TypeOK'
  BY <1>11 DEF ServerReply
<1>12. ASSUME NEW c \in CorrId, LoseMessage(c) PROVE TypeOK'
  BY <1>12 DEF LoseMessage
<1>13. CASE Tick
  BY <1>13 DEF Tick, Older, Age
<1>. QED
  BY <1>0, <1>1, <1>2, <1>3, <1>4, <1>5, <1>6, <1>7, <1>8, <1>9, <1>10, <1>11, <1>12, <1>13
     DEF Next, Poll

(* Type correctness of the requests and of the containers they share.       *)
THEOREM TypeCorrect == Safety => []TypeOK
<1>1. Init => TypeOK
  BY AmqpAssumption DEF Init, TypeOK, Age
<1>. QED
  BY <1>1, TypeStep, PTL DEF Safety

-----------------------------------------------------------------------------
(* The strengthening that makes the properties inductive. *)

(* Nothing is known of an id that was never used, and whoever performs uses one. *)
FreshIdsAreUnused ==
    /\ \A c \in CorrId : FreshId(c) => /\ ~IsExpected(c)
                                       /\ ~IsRefused(c)
    /\ \A r \in Request : IsPerforming(r) => ~FreshId(correlationId[r])

(* How far a send is, and where its message is. *)
SendMatchesWire ==
    \A r \in Request :
        /\ sending[r] = "assigned"  => wire[correlationId[r]] = "issued"
        /\ sending[r] = "published" => wire[correlationId[r]] \in {"request", "reply", "gone"}

(* A message on its way has its entry, or its sender has still to insert it. *)
PublishedIsExpected ==
    \A c \in CorrId :
        wire[c] \in {"request", "reply"} =>
            \/ IsExpected(c)
            \/ \E r \in Request : sending[r] = "published" /\ correlationId[r] = c

IInv == /\ TypeOK
        /\ FreshIdsAreUnused
        /\ SendMatchesWire
        /\ PublishedIsExpected
        /\ StoredAnswerIsFinal
        /\ OneOwner
        /\ WaitedNotRefused
        /\ LateAnswerRefused

LEMMA InitInv == Init => IInv
BY AmqpAssumption DEF Init, IInv, TypeOK, Age, FreshIdsAreUnused, SendMatchesWire,
    PublishedIsExpected, StoredAnswerIsFinal, OneOwner, WaitedNotRefused, LateAnswerRefused,
    FreshId, IsExpected, IsRefused, IsPerforming, HasResponse

(* Ids are used once: a send takes a fresh one, and only ids in use reach
   the containers. *)
LEMMA FreshIdsAreUnusedStep ==
  ASSUME IInv, TypeOK', [Next]_vars  PROVE  FreshIdsAreUnused'
<1>. USE DEF IInv, TypeOK, FreshIdsAreUnused, netVars, clientVars
<1>. USE DEF IsPerforming, FreshId, IsExpected, IsRefused, HasResponse, ClearCorrelationId
<1>1. ASSUME NEW r \in Request, ExpectResponse(r)  PROVE  FreshIdsAreUnused'
  BY <1>1 DEF ExpectResponse, OneOwner
<1>2. ASSUME NEW r \in Request,
               \/ SendMessageAsync(r)
               \/ Publish(r)
               \/ PublishFails(r)
               \/ Timeout(r)
               \/ GetAsyncResponse(r)
               \/ Abandon(r)
       PROVE  FreshIdsAreUnused'
  BY <1>2 DEF SendMessageAsync, Publish, PublishFails, Timeout,
     GetAsyncResponse, Abandon, CanAsk, SendLockFree
<1>3. ASSUME NEW c \in CorrId,
               \/ StoreResponse(c)
               \/ RefuseResponse(c)
               \/ TakeAsInitiative(c)
               \/ ServerReply(c)
               \/ LoseMessage(c)
       PROVE  FreshIdsAreUnused'
  BY <1>3 DEF StoreResponse, RefuseResponse, TakeAsInitiative, ServerReply,
     LoseMessage, Consume
<1>4. CASE Tick \/ UNCHANGED vars
  BY <1>4 DEF Tick, vars
<1>. QED
  BY <1>1, <1>2, <1>3, <1>4 DEF Next, Poll

(* A send touches its own id only (OneOwner), so it finds its message
   where it left it. *)
LEMMA SendMatchesWireStep ==
  ASSUME IInv, TypeOK', [Next]_vars  PROVE  SendMatchesWire'
<1>. USE DEF IInv, TypeOK, SendMatchesWire, netVars, clientVars
<1>. USE DEF IsPerforming, FreshId, IsExpected, IsRefused, HasResponse, ClearCorrelationId
<1>1. ASSUME NEW r \in Request, SendMessageAsync(r)  PROVE  SendMatchesWire'
  BY <1>1 DEF SendMessageAsync
<1>2. ASSUME NEW r \in Request, Publish(r)  PROVE  SendMatchesWire'
  BY <1>2 DEF Publish, SendLockFree, OneOwner
<1>3. ASSUME NEW r \in Request, PublishFails(r)  PROVE  SendMatchesWire'
  BY <1>3 DEF PublishFails, OneOwner
<1>4. ASSUME NEW c \in CorrId, StoreResponse(c)  PROVE  SendMatchesWire'
  BY <1>4 DEF StoreResponse, Consume
<1>5. ASSUME NEW c \in CorrId, RefuseResponse(c)  PROVE  SendMatchesWire'
  BY <1>5 DEF RefuseResponse, Consume
<1>6. ASSUME NEW c \in CorrId, TakeAsInitiative(c)  PROVE  SendMatchesWire'
  BY <1>6 DEF TakeAsInitiative, Consume
<1>7. ASSUME NEW c \in CorrId, ServerReply(c)  PROVE  SendMatchesWire'
  BY <1>7 DEF ServerReply
<1>8. ASSUME NEW c \in CorrId, LoseMessage(c)  PROVE  SendMatchesWire'
  BY <1>8 DEF LoseMessage
<1>9. ASSUME NEW r \in Request,
               \/ ExpectResponse(r)
               \/ Timeout(r)
               \/ GetAsyncResponse(r)
               \/ Abandon(r)
       PROVE  SendMatchesWire'
  BY <1>9 DEF ExpectResponse, Timeout, GetAsyncResponse, Abandon, CanAsk
<1>10. CASE Tick \/ UNCHANGED vars
  BY <1>10 DEF Tick, vars
<1>. QED
  BY <1>1, <1>2, <1>3, <1>4, <1>5, <1>6, <1>7, <1>8, <1>9, <1>10 DEF Next, Poll

(* The entry of a message on its way is erased only with its answer in
   it. *)
LEMMA PublishedIsExpectedStep ==
  ASSUME IInv, TypeOK', [Next]_vars  PROVE  PublishedIsExpected'
<1>. USE DEF IInv, TypeOK, PublishedIsExpected, netVars, clientVars
<1>. USE DEF IsPerforming, FreshId, IsExpected, IsRefused, HasResponse, ClearCorrelationId
<1>1. ASSUME NEW r \in Request, SendMessageAsync(r)  PROVE  PublishedIsExpected'
  BY <1>1 DEF SendMessageAsync, OneOwner
<1>2. ASSUME NEW r \in Request, ExpectResponse(r)  PROVE  PublishedIsExpected'
  BY <1>2, AmqpAssumption DEF ExpectResponse
<1>3. ASSUME NEW r \in Request, GetAsyncResponse(r)  PROVE  PublishedIsExpected'
  BY <1>3 DEF GetAsyncResponse, CanAsk, StoredAnswerIsFinal
<1>4. ASSUME NEW r \in Request,
               \/ Publish(r)
               \/ PublishFails(r)
               \/ Timeout(r)
               \/ Abandon(r)
       PROVE  PublishedIsExpected'
  BY <1>4 DEF Publish, PublishFails, Timeout, Abandon, CanAsk, SendLockFree
<1>5. ASSUME NEW c \in CorrId,
               \/ StoreResponse(c)
               \/ RefuseResponse(c)
               \/ TakeAsInitiative(c)
               \/ ServerReply(c)
               \/ LoseMessage(c)
       PROVE  PublishedIsExpected'
  BY <1>5 DEF StoreResponse, RefuseResponse, TakeAsInitiative, ServerReply,
     LoseMessage, Consume
<1>6. CASE Tick \/ UNCHANGED vars
  BY <1>6 DEF Tick, vars
<1>. QED
  BY <1>1, <1>2, <1>3, <1>4, <1>5, <1>6 DEF Next, Poll

(* What poll stores is the answer that the other side gave to this id. *)
LEMMA StoredAnswerIsFinalStep ==
  ASSUME IInv, TypeOK', [Next]_vars  PROVE  StoredAnswerIsFinal'
<1>. USE DEF IInv, TypeOK, StoredAnswerIsFinal, netVars, clientVars
<1>. USE DEF IsPerforming, FreshId, IsExpected, IsRefused, HasResponse, ClearCorrelationId
<1>1. ASSUME NEW r \in Request, Publish(r)  PROVE  StoredAnswerIsFinal'
  BY <1>1 DEF Publish, SendLockFree, SendMatchesWire
<1>2. ASSUME NEW r \in Request, ExpectResponse(r)  PROVE  StoredAnswerIsFinal'
  BY <1>2, AmqpAssumption DEF ExpectResponse
<1>3. ASSUME NEW r \in Request, GetAsyncResponse(r)  PROVE  StoredAnswerIsFinal'
  BY <1>3, AmqpAssumption DEF GetAsyncResponse, CanAsk
<1>4. ASSUME NEW r \in Request,
               \/ SendMessageAsync(r)
               \/ PublishFails(r)
               \/ Timeout(r)
               \/ Abandon(r)
       PROVE  StoredAnswerIsFinal'
  BY <1>4 DEF SendMessageAsync, PublishFails, Timeout, Abandon, CanAsk
<1>5. ASSUME NEW c \in CorrId,
               \/ StoreResponse(c)
               \/ RefuseResponse(c)
               \/ TakeAsInitiative(c)
               \/ ServerReply(c)
               \/ LoseMessage(c)
       PROVE  StoredAnswerIsFinal'
  BY <1>5 DEF StoreResponse, RefuseResponse, TakeAsInitiative, ServerReply,
     LoseMessage, Consume
<1>6. CASE Tick \/ UNCHANGED vars
  BY <1>6 DEF Tick, vars
<1>. QED
  BY <1>1, <1>2, <1>3, <1>4, <1>5, <1>6 DEF Next, Poll

(* A fresh id has no other owner and no entry (FreshIdsAreUnused). *)
LEMMA OneOwnerStep ==
  ASSUME IInv, TypeOK', [Next]_vars  PROVE  OneOwner'
<1>. USE DEF IInv, TypeOK, OneOwner, netVars, clientVars
<1>. USE DEF IsPerforming, FreshId, IsExpected, IsRefused, HasResponse, ClearCorrelationId
<1>1. ASSUME NEW r \in Request, SendMessageAsync(r)  PROVE  OneOwner'
  BY <1>1, AmqpAssumption DEF SendMessageAsync, FreshIdsAreUnused
<1>2. ASSUME NEW r \in Request,
               \/ Publish(r)
               \/ PublishFails(r)
               \/ ExpectResponse(r)
               \/ Timeout(r)
               \/ GetAsyncResponse(r)
               \/ Abandon(r)
       PROVE  OneOwner'
  BY <1>2 DEF Publish, PublishFails, ExpectResponse, Timeout,
     GetAsyncResponse, Abandon, CanAsk, SendLockFree
<1>3. ASSUME NEW c \in CorrId,
               \/ StoreResponse(c)
               \/ RefuseResponse(c)
               \/ TakeAsInitiative(c)
               \/ ServerReply(c)
               \/ LoseMessage(c)
       PROVE  OneOwner'
  BY <1>3 DEF StoreResponse, RefuseResponse, TakeAsInitiative, ServerReply,
     LoseMessage, Consume
<1>4. CASE Tick \/ UNCHANGED vars
  BY <1>4 DEF Tick, vars
<1>. QED
  BY <1>1, <1>2, <1>3, <1>4 DEF Next, Poll

(* A timeout refuses the id of its own request only (OneOwner). *)
LEMMA WaitedNotRefusedStep ==
  ASSUME IInv, TypeOK', [Next]_vars  PROVE  WaitedNotRefused'
<1>. USE DEF IInv, TypeOK, WaitedNotRefused, netVars, clientVars
<1>. USE DEF IsPerforming, FreshId, IsExpected, IsRefused, HasResponse, ClearCorrelationId
<1>1. ASSUME NEW r \in Request, SendMessageAsync(r)  PROVE  WaitedNotRefused'
  BY <1>1 DEF SendMessageAsync, FreshIdsAreUnused
<1>2. ASSUME NEW r \in Request, Timeout(r)  PROVE  WaitedNotRefused'
  BY <1>2 DEF Timeout, CanAsk, OneOwner
<1>3. ASSUME NEW r \in Request,
               \/ Publish(r)
               \/ PublishFails(r)
               \/ ExpectResponse(r)
               \/ GetAsyncResponse(r)
               \/ Abandon(r)
       PROVE  WaitedNotRefused'
  BY <1>3 DEF Publish, PublishFails, ExpectResponse, GetAsyncResponse,
     Abandon, CanAsk, SendLockFree
<1>4. ASSUME NEW c \in CorrId,
               \/ StoreResponse(c)
               \/ RefuseResponse(c)
               \/ TakeAsInitiative(c)
               \/ ServerReply(c)
               \/ LoseMessage(c)
       PROVE  WaitedNotRefused'
  BY <1>4 DEF StoreResponse, RefuseResponse, TakeAsInitiative, ServerReply,
     LoseMessage, Consume
<1>5. CASE Tick \/ UNCHANGED vars
  BY <1>5 DEF Tick, vars
<1>. QED
  BY <1>1, <1>2, <1>3, <1>4, <1>5 DEF Next, Poll

(* A request that stops to wait takes its entry along, refuses it or
   leaves an orphan; a refused id is forgotten without a body stored
   (StoredAnswerIsFinal). *)
LEMMA LateAnswerRefusedStep ==
  ASSUME IInv, TypeOK', [Next]_vars  PROVE  LateAnswerRefused'
<1>. USE DEF IInv, TypeOK, LateAnswerRefused, netVars, clientVars
<1>. USE DEF IsPerforming, FreshId, IsExpected, IsRefused, HasResponse, ClearCorrelationId
<1>1. ASSUME NEW r \in Request, SendMessageAsync(r)  PROVE  LateAnswerRefused'
  BY <1>1, AmqpAssumption DEF SendMessageAsync
<1>2. ASSUME NEW r \in Request,
               \/ Publish(r)
               \/ PublishFails(r)
               \/ ExpectResponse(r)
               \/ Timeout(r)
               \/ GetAsyncResponse(r)
               \/ Abandon(r)
       PROVE  LateAnswerRefused'
  BY <1>2 DEF Publish, PublishFails, ExpectResponse, Timeout,
     GetAsyncResponse, Abandon, CanAsk, SendLockFree
<1>3. ASSUME NEW c \in CorrId,
               \/ StoreResponse(c)
               \/ RefuseResponse(c)
               \/ TakeAsInitiative(c)
               \/ ServerReply(c)
               \/ LoseMessage(c)
       PROVE  LateAnswerRefused'
  BY <1>3 DEF StoreResponse, RefuseResponse, TakeAsInitiative, ServerReply,
     LoseMessage, Consume, StoredAnswerIsFinal
<1>4. CASE Tick \/ UNCHANGED vars
  BY <1>4 DEF Tick, vars
<1>. QED
  BY <1>1, <1>2, <1>3, <1>4 DEF Next, Poll

LEMMA NextInv == IInv /\ [Next]_vars => IInv'
<1>. SUFFICES ASSUME IInv, [Next]_vars  PROVE IInv'
  OBVIOUS
<1>1. TypeOK'
  BY TypeStep DEF IInv
<1>. QED
  BY <1>1, FreshIdsAreUnusedStep, SendMatchesWireStep, PublishedIsExpectedStep,
     StoredAnswerIsFinalStep, OneOwnerStep, WaitedNotRefusedStep, LateAnswerRefusedStep
     DEF IInv

LEMMA Invariance == Safety => []IInv
BY InitInv, NextInv, PTL DEF Safety

-----------------------------------------------------------------------------
(* An answer in the map is the other side's answer to this very id, for ever. *)
THEOREM AnswersAreFinal == Safety => []StoredAnswerIsFinal
BY Invariance, PTL DEF IInv

(* No two requests wait for the same answer, whichever threads send. *)
THEOREM OwnersAreUnique == Safety => []OneOwner
BY Invariance, PTL DEF IInv

(* The answer to a request that still waits is never refused. *)
THEOREM WaitedIsNotRefused == Safety => []WaitedNotRefused
BY Invariance, PTL DEF IInv

(* An answer that arrives after its request timed out is refused, unless the *)
(* command was destroyed; a stored one nobody waits for has its id refused.  *)
THEOREM LateAnswersAreRefused == Safety => []LateAnswerRefused
BY Invariance, PTL DEF IInv

(* If the polling thread is the only one that sends, no answer is ever taken *)
(* for an initiative of the other side: between its publish and its insert   *)
(* the thread does not poll.                                                 *)
THEOREM OneThreadMisroutesNothing ==
  ASSUME Foreign = {}
  PROVE  Safety => []NoAnswerMisrouted
<1>1. Init => NoAnswerMisrouted
  BY DEF Init, NoAnswerMisrouted
<1>2. IInv /\ NoAnswerMisrouted /\ [Next]_vars => NoAnswerMisrouted'
  <2>. SUFFICES ASSUME IInv, NoAnswerMisrouted, [Next]_vars  PROVE NoAnswerMisrouted'
    OBVIOUS
  <2>1. ASSUME NEW c \in CorrId, TakeAsInitiative(c)  PROVE FALSE
    <3>1. \A r \in Request : sending[r] = "no"
      BY <2>1 DEF TakeAsInitiative, Consume, PollThreadFree
    <3>. QED
      BY <2>1, <3>1 DEF TakeAsInitiative, Consume, IInv, PublishedIsExpected
  <2>2. CASE UNCHANGED misrouted
    BY <2>2 DEF NoAnswerMisrouted
  <2>. QED
    BY <2>1, <2>2 DEF Next, Poll, SendMessageAsync, Publish, PublishFails, ExpectResponse,
       StoreResponse, RefuseResponse, Timeout, GetAsyncResponse, Abandon, ServerReply,
       LoseMessage, Tick, netVars, vars
<1>. QED
  BY <1>1, <1>2, Invariance, PTL DEF Safety

(* What was taken for an initiative is no longer on the wire, and its id is  *)
(* used.                                                                     *)
MisroutedIsGone == \A c \in misrouted : wire[c] = "gone"

LEMMA MisroutedIsGoneStep ==
  IInv /\ MisroutedIsGone /\ [Next]_vars => MisroutedIsGone'
<1>. SUFFICES ASSUME IInv, MisroutedIsGone, [Next]_vars  PROVE MisroutedIsGone'
  OBVIOUS
<1>. USE DEF MisroutedIsGone, IInv, TypeOK
<1>1. ASSUME NEW r \in Request, SendMessageAsync(r)  PROVE MisroutedIsGone'
  BY <1>1 DEF SendMessageAsync, FreshId
<1>2. ASSUME NEW r \in Request, Publish(r)  PROVE MisroutedIsGone'
  <2>1. wire[correlationId[r]] = "issued"
    BY <1>2 DEF Publish, SendMatchesWire
  <2>. QED
    BY <1>2, <2>1 DEF Publish
<1>3. ASSUME NEW r \in Request, PublishFails(r)  PROVE MisroutedIsGone'
  BY <1>3 DEF PublishFails
<1>4. ASSUME NEW c \in CorrId, StoreResponse(c) \/ RefuseResponse(c)  PROVE MisroutedIsGone'
  BY <1>4 DEF StoreResponse, RefuseResponse, Consume
<1>5. ASSUME NEW c \in CorrId, TakeAsInitiative(c)  PROVE MisroutedIsGone'
  BY <1>5 DEF TakeAsInitiative, Consume
<1>6. ASSUME NEW c \in CorrId, ServerReply(c) \/ LoseMessage(c)  PROVE MisroutedIsGone'
  BY <1>6 DEF ServerReply, LoseMessage
<1>7. CASE UNCHANGED <<wire, misrouted>>
  BY <1>7
<1>. QED
  BY <1>1, <1>2, <1>3, <1>4, <1>5, <1>6, <1>7 DEF Next, Poll, ExpectResponse, Timeout,
     GetAsyncResponse, Abandon, Tick, netVars, vars

(* Whatever the other threads do, the polling thread never takes the answer  *)
(* to a request of its own for an initiative of the other side.              *)
THEOREM OwnAnswersAreNotMisrouted == Safety => []OwnAnswerNotMisrouted
<1>1. Init => MisroutedIsGone /\ OwnAnswerNotMisrouted
  BY DEF Init, MisroutedIsGone, OwnAnswerNotMisrouted
<1>2. IInv /\ MisroutedIsGone /\ OwnAnswerNotMisrouted /\ [Next]_vars => OwnAnswerNotMisrouted'
  <2>. SUFFICES ASSUME IInv, MisroutedIsGone, OwnAnswerNotMisrouted, [Next]_vars,
                       NEW r \in Request \ Foreign, IsPerforming(r)'
                PROVE  correlationId'[r] \notin misrouted'
    BY DEF OwnAnswerNotMisrouted
  <2>. USE DEF IInv, TypeOK, IsPerforming
  <2>1. ASSUME NEW s \in Request, SendMessageAsync(s)  PROVE correlationId'[r] \notin misrouted'
    BY <2>1 DEF SendMessageAsync, FreshId, MisroutedIsGone, OwnAnswerNotMisrouted
  <2>2. ASSUME NEW s \in Request, Timeout(s) \/ GetAsyncResponse(s) \/ Abandon(s)
        PROVE  correlationId'[r] \notin misrouted'
    BY <2>2 DEF Timeout, GetAsyncResponse, Abandon, ClearCorrelationId, netVars,
       OwnAnswerNotMisrouted
  <2>3. ASSUME NEW c \in CorrId, TakeAsInitiative(c)  PROVE correlationId'[r] \notin misrouted'
    <3>1. sending[r] = "no" /\ wire[c] = "reply" /\ ~IsExpected(c)
      BY <2>3 DEF TakeAsInitiative, Consume, PollThreadFree
    <3>2. PICK s \in Request : sending[s] = "published" /\ correlationId[s] = c
      BY <3>1 DEF PublishedIsExpected
    <3>3. correlationId[r] # c
      BY <3>1, <3>2, <2>3 DEF OneOwner, TakeAsInitiative, Consume
    <3>. QED
      BY <2>3, <3>3 DEF TakeAsInitiative, Consume, OwnAnswerNotMisrouted
  <2>4. CASE UNCHANGED <<correlationId, misrouted>>
    BY <2>4 DEF OwnAnswerNotMisrouted
  <2>. QED
    BY <2>1, <2>2, <2>3, <2>4 DEF Next, Poll, Publish, PublishFails, ExpectResponse,
       StoreResponse, RefuseResponse, Consume, ServerReply, LoseMessage, Tick, clientVars,
       netVars, vars
<1>. QED
  BY <1>1, <1>2, MisroutedIsGoneStep, Invariance, PTL DEF Safety

-----------------------------------------------------------------------------
(* The requests implement AsyncCall. *)

(* A request whose id, message and map entry stay where they are is the same *)
(* call as before.                                                           *)
LEMMA SameCall ==
  ASSUME NEW r \in Request,
         correlationId'[r] = correlationId[r],
         IsPerforming(r) => /\ wire'[correlationId[r]] = wire[correlationId[r]]
                            /\ body'[correlationId[r]] = body[correlationId[r]]
                            /\ readyResponses'[correlationId[r]] = readyResponses[correlationId[r]]
  PROVE  CallOf(r)' = CallOf(r) /\ ReplyOf(r)' = ReplyOf(r)
BY DEF CallOf, ReplyOf, WireCall, IsPerforming, HasResponse

(* Calls that all stay the same are a stuttering step of the mapping.        *)
LEMMA SameCalls ==
  ASSUME \A r \in Request : CallOf(r)' = CallOf(r) /\ ReplyOf(r)' = ReplyOf(r)
  PROVE  AbsCall' = AbsCall /\ AbsReply' = AbsReply
BY DEF AbsCall, AbsReply

(* One call that changes is an EXCEPT of the mapping.                        *)
LEMMA OneCallChanges ==
  ASSUME NEW r \in Request, NEW x, NEW b,
         CallOf(r)' = x, ReplyOf(r)' = b,
         \A s \in Request \ {r} : CallOf(s)' = CallOf(s) /\ ReplyOf(s)' = ReplyOf(s)
  PROVE  /\ AbsCall' = [AbsCall EXCEPT ![r] = x]
         /\ AbsReply' = [AbsReply EXCEPT ![r] = b]
BY DEF AbsCall, AbsReply

(* The owner of an id, if any, is the only one its message concerns.         *)
LEMMA OthersKeepTheirCall ==
  ASSUME IInv, NEW r \in Request, IsPerforming(r),
         correlationId' = correlationId,
         \A c \in CorrId \ {correlationId[r]} :
            wire'[c] = wire[c] /\ body'[c] = body[c] /\ readyResponses'[c] = readyResponses[c]
  PROVE  \A s \in Request \ {r} : CallOf(s)' = CallOf(s) /\ ReplyOf(s)' = ReplyOf(s)
<1>. TAKE s \in Request \ {r}
<1>1. IsPerforming(s) => correlationId[s] \in CorrId \ {correlationId[r]}
  BY DEF IInv, TypeOK, OneOwner, IsPerforming
<1>. QED
  BY <1>1, SameCall

(* The same for a message nobody waits for.                                  *)
LEMMA NobodysMessage ==
  ASSUME IInv, NEW c \in CorrId,
         \A r \in Request : correlationId[r] # c,
         correlationId' = correlationId,
         \A d \in CorrId \ {c} :
            wire'[d] = wire[d] /\ body'[d] = body[d] /\ readyResponses'[d] = readyResponses[d]
  PROVE  AbsCall' = AbsCall /\ AbsReply' = AbsReply
<1>1. ASSUME NEW r \in Request  PROVE CallOf(r)' = CallOf(r) /\ ReplyOf(r)' = ReplyOf(r)
  <2>1. IsPerforming(r) => correlationId[r] \in CorrId \ {c}
    BY DEF IInv, TypeOK, IsPerforming
  <2>. QED
    BY <2>1, SameCall
<1>. QED
  BY <1>1, SameCalls

LEMMA CallInitRefined == Init => Abs!CallInit
BY DEF Init, Abs!CallInit, AbsCall, AbsReply, CallOf, ReplyOf, IsPerforming

(* What the mapping says of a request. *)
LEMMA AbsOf ==
  ASSUME NEW r \in Request
  PROVE  AbsCall[r] = CallOf(r) /\ AbsReply[r] = ReplyOf(r)
BY DEF AbsCall, AbsReply

(* The steps of the requests. *)
LEMMA SendMessageAsyncRefined ==
  ASSUME IInv, IInv', NEW r \in Request, SendMessageAsync(r)
  PROVE  Abs!Start(r)
<1>. USE DEF IInv, TypeOK
<1>1. PICK c \in CorrId : /\ FreshId(c)
                          /\ correlationId' = [correlationId EXCEPT ![r] = c]
                          /\ wire' = [wire EXCEPT ![c] = "issued"]
  BY DEF SendMessageAsync
<1>2. CallOf(r) = "idle" /\ ReplyOf(r) = Empty
  BY DEF SendMessageAsync, CallOf, ReplyOf
<1>3. CallOf(r)' = "requested" /\ ReplyOf(r)' = Empty
  <2>1. ~HasResponse(c)'
    BY <1>1, AmqpAssumption DEF SendMessageAsync, FreshIdsAreUnused, IsExpected, HasResponse
  <2>. QED
    BY <1>1, <2>1, AmqpAssumption DEF CallOf, ReplyOf, WireCall, IsPerforming
<1>4. \A s \in Request \ {r} : CallOf(s)' = CallOf(s) /\ ReplyOf(s)' = ReplyOf(s)
  <2>. TAKE s \in Request \ {r}
  <2>1. IsPerforming(s) => correlationId[s] \in CorrId \ {c}
    BY <1>1 DEF FreshIdsAreUnused, IsPerforming
  <2>. QED
    BY <1>1, <2>1, SameCall DEF SendMessageAsync
<1>5. AbsReply' = AbsReply
  BY <1>2, <1>3, <1>4, SameCalls DEF AbsReply
<1>. QED
  BY <1>2, <1>3, <1>4, <1>5, OneCallChanges, AbsOf
     DEF SendMessageAsync, Abs!Start, Abs!IsPerforming

LEMMA PublishRefined ==
  ASSUME IInv, NEW r \in Request, Publish(r)
  PROVE  UNCHANGED <<AbsCall, age, AbsReply, timeouted>>
<1>. USE DEF IInv, TypeOK, Publish, netVars, clientVars
<1>1. IsPerforming(r) /\ wire[correlationId[r]] = "issued"
  BY DEF OneOwner, SendMatchesWire
<1>2. correlationId[r] \in CorrId
  BY <1>1 DEF IsPerforming
<1>3. CallOf(r)' = CallOf(r) /\ ReplyOf(r)' = ReplyOf(r)
  BY <1>1, <1>2 DEF CallOf, ReplyOf, WireCall, IsPerforming, HasResponse
<1>4. \A s \in Request \ {r} : CallOf(s)' = CallOf(s) /\ ReplyOf(s)' = ReplyOf(s)
  BY <1>1, OthersKeepTheirCall
<1>. QED
  BY <1>3, <1>4, SameCalls

LEMMA PublishFailsRefined ==
  ASSUME IInv, NEW r \in Request, PublishFails(r)
  PROVE  Abs!Lose(r)
<1>. USE DEF IInv, TypeOK, PublishFails, netVars, clientVars
<1>1. /\ IsPerforming(r)
      /\ wire[correlationId[r]] = "issued"
      /\ ~IsExpected(correlationId[r])
  BY DEF OneOwner, SendMatchesWire
<1>2. correlationId[r] \in CorrId
  BY <1>1 DEF IsPerforming
<1>3. CallOf(r) = "requested" /\ CallOf(r)' = "lost" /\ ReplyOf(r)' = Empty
  BY <1>1, <1>2, AmqpAssumption
     DEF CallOf, ReplyOf, WireCall, IsPerforming, HasResponse, IsExpected
<1>4. \A s \in Request \ {r} : CallOf(s)' = CallOf(s) /\ ReplyOf(s)' = ReplyOf(s)
  BY <1>1, OthersKeepTheirCall
<1>. QED
  BY <1>3, <1>4, OneCallChanges, AbsOf DEF Abs!Lose

LEMMA ExpectResponseRefined ==
  ASSUME IInv, NEW r \in Request, ExpectResponse(r)
  PROVE  UNCHANGED <<AbsCall, age, AbsReply, timeouted>>
<1>. USE DEF IInv, TypeOK, ExpectResponse, netVars, clientVars
<1>1. IsPerforming(r) /\ ~IsExpected(correlationId[r])
  BY DEF OneOwner
<1>2. correlationId[r] \in CorrId
  BY <1>1 DEF IsPerforming
<1>3. CallOf(r)' = CallOf(r) /\ ReplyOf(r)' = ReplyOf(r)
  BY <1>1, <1>2, AmqpAssumption
     DEF CallOf, ReplyOf, WireCall, IsPerforming, HasResponse, IsExpected
<1>4. \A s \in Request \ {r} : CallOf(s)' = CallOf(s) /\ ReplyOf(s)' = ReplyOf(s)
  BY <1>1, OthersKeepTheirCall
<1>. QED
  BY <1>3, <1>4, SameCalls

LEMMA StoreResponseRefined ==
  ASSUME IInv, NEW c \in CorrId, StoreResponse(c)
  PROVE  \/ \E r \in Request : Abs!Arrive(r)
         \/ UNCHANGED <<AbsCall, age, AbsReply, timeouted>>
<1>. USE DEF IInv, TypeOK, StoreResponse, Consume
<1>1. CASE \A r \in Request : correlationId[r] # c
  BY <1>1, NobodysMessage
<1>2. ASSUME NEW r \in Request, correlationId[r] = c  PROVE Abs!Arrive(r)
  <2>1. IsPerforming(r) /\ ~HasResponse(c)
    BY <1>2, AmqpAssumption DEF IsPerforming, StoredAnswerIsFinal
  <2>2. CallOf(r) = "replied" /\ ReplyOf(r) = body[c]
    BY <1>2, <2>1 DEF CallOf, ReplyOf, WireCall
  <2>3. CallOf(r)' = (IF ReplyOf(r) = Empty THEN "lost" ELSE "ready") /\ ReplyOf(r)' = ReplyOf(r)
    BY <1>2, <2>1, <2>2, AmqpAssumption DEF CallOf, ReplyOf, WireCall, IsPerforming, HasResponse
  <2>4. \A s \in Request \ {r} : CallOf(s)' = CallOf(s) /\ ReplyOf(s)' = ReplyOf(s)
    BY <1>2, <2>1, OthersKeepTheirCall
  <2>5. AbsReply' = AbsReply
    BY <2>3, <2>4, SameCalls DEF AbsReply
  <2>. QED
    BY <2>2, <2>3, <2>4, <2>5, OneCallChanges, AbsOf DEF Abs!Arrive
<1>. QED
  BY <1>1, <1>2

LEMMA RefuseResponseRefined ==
  ASSUME IInv, NEW c \in CorrId, RefuseResponse(c)
  PROVE  UNCHANGED <<AbsCall, age, AbsReply, timeouted>>
<1>. USE DEF IInv, TypeOK, RefuseResponse, Consume
<1>1. \A r \in Request : correlationId[r] # c
  BY AmqpAssumption DEF WaitedNotRefused, IsPerforming
<1>. QED
  BY <1>1, NobodysMessage

LEMMA TakeAsInitiativeRefined ==
  ASSUME IInv, NEW c \in CorrId, TakeAsInitiative(c)
  PROVE  \/ \E r \in Request : Abs!Lose(r)
         \/ UNCHANGED <<AbsCall, age, AbsReply, timeouted>>
<1>. USE DEF IInv, TypeOK, TakeAsInitiative, Consume
<1>1. CASE \A r \in Request : correlationId[r] # c
  BY <1>1, NobodysMessage
<1>2. ASSUME NEW r \in Request, correlationId[r] = c  PROVE Abs!Lose(r)
  <2>1. IsPerforming(r) /\ ~HasResponse(c)
    BY <1>2, AmqpAssumption DEF IsPerforming, StoredAnswerIsFinal
  <2>2. CallOf(r) = "replied" /\ CallOf(r)' = "lost" /\ ReplyOf(r)' = Empty
    BY <1>2, <2>1 DEF CallOf, ReplyOf, WireCall, IsPerforming, HasResponse
  <2>3. \A s \in Request \ {r} : CallOf(s)' = CallOf(s) /\ ReplyOf(s)' = ReplyOf(s)
    BY <1>2, <2>1, OthersKeepTheirCall
  <2>. QED
    BY <2>2, <2>3, OneCallChanges, AbsOf DEF Abs!Lose
<1>. QED
  BY <1>1, <1>2

(* The steps that settle a call.  The others have other ids (OneOwner). *)
LEMMA SettleRefined ==
  ASSUME IInv, NEW r \in Request, IsPerforming(r), ClearCorrelationId(r),
         UNCHANGED <<wire, body>>,
         \A c \in CorrId \ {correlationId[r]} : readyResponses'[c] = readyResponses[c]
  PROVE  Abs!Settle(r)
<1>. USE DEF IInv, TypeOK, ClearCorrelationId
<1>1. CallOf(r)' = "idle" /\ ReplyOf(r)' = Empty
  BY DEF CallOf, ReplyOf, IsPerforming
<1>2. \A s \in Request \ {r} : CallOf(s)' = CallOf(s) /\ ReplyOf(s)' = ReplyOf(s)
  <2>. TAKE s \in Request \ {r}
  <2>1. IsPerforming(s) => correlationId[s] \in CorrId \ {correlationId[r]}
    BY DEF OneOwner, IsPerforming
  <2>. QED
    BY <2>1, SameCall
<1>. QED
  BY <1>1, <1>2, OneCallChanges DEF Abs!Settle

LEMMA TimeoutRefined ==
  ASSUME IInv, NEW r \in Request, Timeout(r)
  PROVE  Abs!Expire(r)
<1>1. Abs!Settle(r)
  BY SettleRefined DEF Timeout, CanAsk, netVars
<1>2. AbsCall[r] # "idle"
  BY AbsOf DEF Timeout, CanAsk, CallOf, WireCall
<1>. QED
  BY <1>1, <1>2 DEF Timeout, Expired, Abs!Expire, Abs!IsPerforming, Abs!Expired

LEMMA GetAsyncResponseRefined ==
  ASSUME IInv, NEW r \in Request, GetAsyncResponse(r)
  PROVE  Abs!Collect(r)
<1>1. Abs!Settle(r)
  BY SettleRefined DEF GetAsyncResponse, CanAsk, netVars, IInv, TypeOK
<1>2. AbsCall[r] = "ready"
  BY AbsOf DEF GetAsyncResponse, CanAsk, CallOf
<1>. QED
  BY <1>1, <1>2 DEF GetAsyncResponse, Expired, Abs!Collect, Abs!Expired

LEMMA AbandonRefined ==
  ASSUME IInv, NEW r \in Request, Abandon(r)
  PROVE  Abs!Drop(r)
<1>1. Abs!Settle(r)
  BY SettleRefined DEF Abandon
<1>2. AbsCall[r] # "idle"
  BY AbsOf DEF Abandon, CallOf, WireCall
<1>. QED
  BY <1>1, <1>2 DEF Abandon, Abs!Drop, Abs!IsPerforming

(* The steps of the other side and of time. *)
LEMMA ServerReplyRefined ==
  ASSUME IInv, NEW c \in CorrId, ServerReply(c)
  PROVE  \/ \E r \in Request, b \in Body \cup {Empty} : Abs!Serve(r, b)
         \/ UNCHANGED <<AbsCall, age, AbsReply, timeouted>>
<1>. USE DEF IInv, TypeOK, ServerReply, clientVars
<1>1. CASE \A r \in Request : correlationId[r] # c
  BY <1>1, NobodysMessage
<1>2. ASSUME NEW r \in Request, correlationId[r] = c
      PROVE  \E b \in Body \cup {Empty} : Abs!Serve(r, b)
  <2>1. IsPerforming(r) /\ ~HasResponse(c)
    BY <1>2, AmqpAssumption DEF IsPerforming, StoredAnswerIsFinal
  <2>2. PICK b \in Body \cup {Empty} : body' = [body EXCEPT ![c] = b]
    OBVIOUS
  <2>3. CallOf(r) = "requested" /\ CallOf(r)' = "replied" /\ ReplyOf(r)' = b
    BY <1>2, <2>1, <2>2 DEF CallOf, ReplyOf, WireCall, IsPerforming, HasResponse
  <2>4. \A s \in Request \ {r} : CallOf(s)' = CallOf(s) /\ ReplyOf(s)' = ReplyOf(s)
    BY <1>2, <2>1, <2>2, OthersKeepTheirCall
  <2>. QED
    BY <2>3, <2>4, OneCallChanges, AbsOf DEF Abs!Serve
<1>. QED
  BY <1>1, <1>2

LEMMA LoseMessageRefined ==
  ASSUME IInv, NEW c \in CorrId, LoseMessage(c)
  PROVE  \/ \E r \in Request : Abs!Lose(r)
         \/ UNCHANGED <<AbsCall, age, AbsReply, timeouted>>
<1>. USE DEF IInv, TypeOK, LoseMessage, clientVars
<1>1. CASE \A r \in Request : correlationId[r] # c
  BY <1>1, NobodysMessage
<1>2. ASSUME NEW r \in Request, correlationId[r] = c  PROVE Abs!Lose(r)
  <2>1. IsPerforming(r) /\ ~HasResponse(c)
    BY <1>2, AmqpAssumption DEF IsPerforming, StoredAnswerIsFinal
  <2>2. CallOf(r) \in {"requested", "replied"} /\ CallOf(r)' = "lost" /\ ReplyOf(r)' = Empty
    BY <1>2, <2>1 DEF CallOf, ReplyOf, WireCall, IsPerforming, HasResponse
  <2>3. \A s \in Request \ {r} : CallOf(s)' = CallOf(s) /\ ReplyOf(s)' = ReplyOf(s)
    BY <1>2, <2>1, OthersKeepTheirCall
  <2>. QED
    BY <2>2, <2>3, OneCallChanges, AbsOf DEF Abs!Lose
<1>. QED
  BY <1>1, <1>2

LEMMA TickRefined ==
  ASSUME IInv, Tick
  PROVE  Abs!CallTick
<1>1. \A r \in Request : CallOf(r)' = CallOf(r) /\ ReplyOf(r)' = ReplyOf(r)
  BY SameCall DEF Tick, netVars
<1>2. \A r \in Request : AbsCall[r] # "idle" <=> IsPerforming(r)
  BY AbsOf DEF CallOf, WireCall
<1>3. Abs!CallPass(1)
  <2>1. \A a \in Age : Older(a) = Abs!Older(a, 1)
    BY AmqpAssumption DEF Age, Older, Abs!Older
  <2>. QED
    BY <1>1, <1>2, <2>1, SameCalls DEF IInv, TypeOK, Tick, Abs!CallPass, Abs!IsPerforming
<1>4. 1 \in 1 .. Expiration + 2 * 0 + 1
  BY AmqpAssumption
<1>. QED
  BY <1>3, <1>4 DEF Abs!CallTick

(* Every step of the client is a step of the calls or leaves them alone. *)
LEMMA NextRefined ==
  ASSUME IInv, IInv', [Next]_vars
  PROVE  [Abs!CallNext]_(Abs!callVars)
<1>. USE DEF Abs!CallNext, Abs!callVars
<1>1. CASE UNCHANGED vars
  <2>1. \A r \in Request : CallOf(r)' = CallOf(r) /\ ReplyOf(r)' = ReplyOf(r)
    BY <1>1, SameCall DEF vars, clientVars, netVars
  <2>. QED
    BY <1>1, <2>1, SameCalls DEF vars, clientVars
<1>2. ASSUME NEW r \in Request,
             \/ SendMessageAsync(r) \/ Publish(r) \/ PublishFails(r) \/ ExpectResponse(r)
             \/ Timeout(r) \/ GetAsyncResponse(r) \/ Abandon(r)
      PROVE  [Abs!CallNext]_(Abs!callVars)
  BY <1>2, SendMessageAsyncRefined, PublishRefined, PublishFailsRefined, ExpectResponseRefined,
     TimeoutRefined, GetAsyncResponseRefined, AbandonRefined
<1>3. ASSUME NEW c \in CorrId,
             \/ StoreResponse(c) \/ RefuseResponse(c) \/ TakeAsInitiative(c)
             \/ ServerReply(c) \/ LoseMessage(c)
      PROVE  [Abs!CallNext]_(Abs!callVars)
  BY <1>3, StoreResponseRefined, RefuseResponseRefined, TakeAsInitiativeRefined,
     ServerReplyRefined, LoseMessageRefined
<1>4. CASE Tick
  BY <1>4, TickRefined
<1>. QED
  BY <1>1, <1>2, <1>3, <1>4 DEF Next, Poll

(* The correlation ids, the map, the set of refused messages and the send   *)
(* lock implement asynchronous calls: whichever threads send, an answer is  *)
(* collected by the call it was given to, before the expiration, at most    *)
(* once.                                                                    *)
THEOREM ImplementsCalls == Safety => Abs!CallSafety
<1>1. Init => Abs!CallInit
  BY CallInitRefined
<1>2. IInv /\ IInv' /\ [Next]_vars => [Abs!CallNext]_(Abs!callVars)
  BY NextRefined
<1>. QED
  BY <1>1, <1>2, Invariance, PTL DEF Safety, Abs!CallSafety

=============================================================================
