------------------------- MODULE CommandQueueProofs -------------------------
(***************************************************************************)
(* Proofs about CommandQueue, for any commands of any threads, up to the   *)
(* push that invalidates an iterator: type correctness, that a walk asks   *)
(* each command once, and who may destroy a command that performs.         *)
(***************************************************************************)
EXTENDS CommandQueue, SequenceTheorems, TLAPS

Sent(c)  == request[c] # "unsent"

(* A command is sent once, so it is in the vector once.                      *)
VectorIsSent ==
    \A i \in 1 .. Len(commandsInProgress) : Sent(commandsInProgress[i])

VectorIsUnique ==
    \A i, j \in 1 .. Len(commandsInProgress) :
        commandsInProgress[i] = commandsInProgress[j] => i = j

AskedIsSent == \A c \in asked : Sent(c)

AnotherOpened == \E o \in Open \cap Foreign : Sent(o)

(* The maintenance thread opens a context once, from the registration.       *)
OpenedByRegistration ==
    commandOpenContext # NoCommand =>
        \/ commandOpenContext \in Foreign /\ Sent(commandOpenContext)
        \/ \E r \in Register : request[r] = "over"

(* The command that is reset was ready, or is another thread's.              *)
ResetIsOver ==
    pc = "reset" => \/ commandOpenContext \in Open /\ request[commandOpenContext] = "over"
                    \/ AnotherOpened

QInv ==
    /\ TypeOK
    /\ VectorIsSent
    /\ VectorIsUnique
    /\ AskedIsSent
    /\ WalkAsksEachOnce
    /\ OpenedByRegistration
    /\ ResetIsOver
    /\ OnlyContextEventsForget

-----------------------------------------------------------------------------
(* What erasing and pushing do to the vector. *)

LEMMA RemoveAtProperties ==
  ASSUME NEW S, NEW s \in Seq(S), NEW n \in 1 .. Len(s)
  PROVE  /\ RemoveAt(s, n) \in Seq(S)
         /\ Len(RemoveAt(s, n)) = Len(s) - 1
         /\ \A i \in 1 .. Len(s) - 1 : RemoveAt(s, n)[i] = IF i < n THEN s[i] ELSE s[i + 1]
<1>. DEFINE before == SubSeq(s, 1, n - 1)
            behind == SubSeq(s, n + 1, Len(s))
<1>0. Len(s) \in Nat
  OBVIOUS
<1>1. /\ before \in Seq(S) /\ Len(before) = n - 1
      /\ \A i \in 1 .. n - 1 : before[i] = s[i]
  BY <1>0
<1>2. /\ behind \in Seq(S) /\ Len(behind) = Len(s) - n
      /\ \A i \in 1 .. Len(s) - n : behind[i] = s[n + i]
  BY <1>0
<1>3. RemoveAt(s, n) = before \o behind
  BY DEF RemoveAt
<1>. HIDE DEF before, behind
<1>4. /\ before \o behind \in Seq(S)
      /\ Len(before \o behind) = Len(s) - 1
      /\ \A i \in 1 .. Len(s) - 1 :
            (before \o behind)[i] = IF i <= n - 1 THEN before[i] ELSE behind[i - (n - 1)]
  <2>. DEFINE s1 == before
              s2 == behind
  <2>1. s1 \o s2 \in Seq(S) /\ Len(s1 \o s2) = Len(s1) + Len(s2)
        /\ \A i \in 1 .. Len(s1) + Len(s2) :
              (s1 \o s2)[i] = IF i <= Len(s1) THEN s1[i] ELSE s2[i - Len(s1)]
    BY <1>1, <1>2, ConcatProperties
  <2>2. Len(s1) + Len(s2) = Len(s) - 1
    BY <1>0, <1>1, <1>2
  <2>. QED
    BY <1>1, <2>1, <2>2
<1>5. ASSUME NEW i \in 1 .. Len(s) - 1
      PROVE  (before \o behind)[i] = IF i < n THEN s[i] ELSE s[i + 1]
  <2>1. CASE i < n
    BY <2>1, <1>0, <1>1, <1>4
  <2>2. CASE ~(i < n)
    <3>1. i - (n - 1) \in 1 .. Len(s) - n /\ n + (i - (n - 1)) = i + 1 /\ ~(i <= n - 1)
      BY <2>2, <1>0
    <3>2. behind[i - (n - 1)] = s[i + 1]
      BY <3>1, <1>2
    <3>. QED
      BY <3>1, <3>2, <1>4, <2>2, <1>0
  <2>. QED
    BY <2>1, <2>2, <1>0
<1>. QED
  BY <1>3, <1>4, <1>5

LEMMA VectorMembers ==
  ASSUME TypeOK
  PROVE  /\ Len(commandsInProgress) \in Nat
         /\ \A i \in 1 .. Len(commandsInProgress) : /\ commandsInProgress[i] \in Listed
                                                  /\ commandsInProgress[i] \in Command
         /\ ToSet(commandsInProgress)
                = {commandsInProgress[i] : i \in 1 .. Len(commandsInProgress)}
<1>1. commandsInProgress \in Seq(Listed)
  BY DEF TypeOK
<1>. HIDE DEF TypeOK
<1>2. /\ Len(commandsInProgress) \in Nat
      /\ DOMAIN commandsInProgress = 1 .. Len(commandsInProgress)
      /\ \A i \in 1 .. Len(commandsInProgress) : commandsInProgress[i] \in Listed
  BY <1>1
<1>. QED
  BY <1>2, Zenon DEF ToSet, Command

LEMMA RestStays ==
  ASSUME UNCHANGED <<commandsInProgress, iter>>
  PROVE  Rest' = Rest
  BY Zenon DEF Rest

(* What stays true whatever happens to a request that was sent.              *)
RequestsGoOn == \A c \in Command : /\ Sent(c) => request'[c] # "unsent"
                                   /\ request[c] = "over" => request'[c] = "over"

LEMMA AnotherOpenedStays ==
  ASSUME RequestsGoOn, AnotherOpened
  PROVE  AnotherOpened'
  BY DEF RequestsGoOn, AnotherOpened, Sent, Command

(* A step that leaves the vector and the walk alone.                         *)
LEMMA VectorStays ==
  ASSUME QInv, RequestsGoOn, UNCHANGED <<commandsInProgress, atStart, asked, invalidatedBy>>
  PROVE  VectorIsSent' /\ VectorIsUnique' /\ AskedIsSent'
<1>. USE DEF QInv, TypeOK
<1>1. VectorIsSent'
  <2>1. \A i \in 1 .. Len(commandsInProgress) : commandsInProgress[i] \in Command
    BY VectorMembers DEF QInv
  <2>. QED
    BY <2>1 DEF VectorIsSent, RequestsGoOn, Sent
<1>. QED
  BY <1>1 DEF VectorIsUnique, AskedIsSent, RequestsGoOn, Sent, Command

(* A step that leaves the pointer alone.                                     *)
LEMMA OpenStays ==
  ASSUME QInv, RequestsGoOn, UNCHANGED <<commandOpenContext, forgotten>>
  PROVE  /\ OpenedByRegistration'
         /\ OnlyContextEventsForget'
         /\ pc' # "reset" \/ pc = "reset" => ResetIsOver'
<1>. USE DEF QInv, TypeOK
<1>1. OpenedByRegistration'
  BY QueueAssumption DEF OpenedByRegistration, RequestsGoOn, Sent, Command
<1>2. OnlyContextEventsForget'
  BY DEF OnlyContextEventsForget, RequestsGoOn, Sent, Command
<1>3. ASSUME pc' # "reset" \/ pc = "reset" PROVE ResetIsOver'
  BY <1>3, AnotherOpenedStays DEF ResetIsOver, RequestsGoOn, Command
<1>. QED
  BY <1>1, <1>2, <1>3

(* What is forgotten where the pointer was another thread's is its doing.    *)
LEMMA ForgottenForeign ==
  ASSUME QInv, RequestsGoOn, Forget(commandOpenContext),
         commandOpenContext \in Open /\ Performing(commandOpenContext) => AnotherOpened
  PROVE  OnlyContextEventsForget'
<1>1. CASE forgotten' = forgotten
  BY <1>1 DEF QInv, OnlyContextEventsForget, RequestsGoOn, Sent, Command
<1>2. CASE forgotten' # forgotten
  <2>1. AnotherOpened
    BY <1>2 DEF Forget, QInv, TypeOK
  <2>. QED
    BY <2>1, AnotherOpenedStays DEF OnlyContextEventsForget, AnotherOpened, Sent
<1>. QED
  BY <1>1, <1>2

-----------------------------------------------------------------------------
(* One lemma per step of the maintenance thread. *)

LEMMA BeginWalkStep ==
  ASSUME QInv, BeginWalk
  PROVE  QInv'
<1>. USE DEF QInv, BeginWalk
<1>1. TypeOK'
  <2>1. ToSet(commandsInProgress) \in SUBSET Listed /\ 1 \in 1 .. Len(commandsInProgress) + 1
    BY VectorMembers
  <2>. QED
    BY <2>1 DEF TypeOK
<1>2. RequestsGoOn
  BY DEF RequestsGoOn, Sent
<1>3. VectorIsSent' /\ VectorIsUnique' /\ AskedIsSent'
  BY DEF VectorIsSent, VectorIsUnique, AskedIsSent, Sent
<1>4. WalkAsksEachOnce'
  <2>1. Rest' = ToSet(commandsInProgress)
    <3>1. iter' = 1 /\ commandsInProgress' = commandsInProgress
      OBVIOUS
    <3>2. Rest' = {commandsInProgress[i] : i \in 1 .. Len(commandsInProgress)}
      BY <3>1, Zenon DEF Rest
    <3>. QED
      BY <3>2, VectorMembers
  <2>. QED
    BY <2>1 DEF WalkAsksEachOnce
<1>5. OpenedByRegistration' /\ ResetIsOver' /\ OnlyContextEventsForget'
  BY <1>2, OpenStays
<1>. QED
  BY <1>1, <1>3, <1>4, <1>5

(* The command at the iterator.                                              *)
LEMMA AtIterator ==
  ASSUME QInv, pc = "walk", iter <= Len(commandsInProgress), NEW c, c = commandsInProgress[iter]
  PROVE  /\ iter \in 1 .. Len(commandsInProgress) /\ Len(commandsInProgress) \in Nat
         /\ c \in Listed /\ c \in Command /\ c \in Rest /\ Sent(c) /\ c \notin asked
         /\ \A i \in 1 .. Len(commandsInProgress) : commandsInProgress[i] \in Listed
<1>1. TypeOK /\ VectorIsSent /\ WalkAsksEachOnce
  BY DEF QInv
<1>2. Len(commandsInProgress) \in Nat /\ iter \in 1 .. Len(commandsInProgress)
  <2>1. iter \in 1 .. Len(commandsInProgress) + 1
    BY <1>1 DEF TypeOK
  <2>. QED
    BY <1>1, <2>1, VectorMembers
<1>3. iter \in iter .. Len(commandsInProgress)
  BY <1>2
<1>4. c \in Rest
  BY <1>3, Zenon DEF Rest
<1>5. c \in Listed /\ c \in Command /\ Sent(c)
  BY <1>1, <1>2, VectorMembers DEF VectorIsSent
<1>6. c \notin asked
  BY <1>1, <1>4, Zenon DEF WalkAsksEachOnce
<1>. QED
  BY <1>1, <1>2, <1>4, <1>5, <1>6, VectorMembers

LEMMA EraseReadyStep ==
  ASSUME QInv, EraseReady
  PROVE  QInv'
<1>. USE DEF QInv
<1>. PICK c : c = commandsInProgress[iter]
  OBVIOUS
<1>0. pc = "walk" /\ iter <= Len(commandsInProgress)
  BY DEF EraseReady
<1>1. /\ iter \in 1 .. Len(commandsInProgress) /\ Len(commandsInProgress) \in Nat
      /\ c \in Listed /\ c \in Command /\ c \in Rest /\ Sent(c) /\ c \notin asked
      /\ \A i \in 1 .. Len(commandsInProgress) : commandsInProgress[i] \in Listed
  BY <1>0, AtIterator
<1>2. /\ Ready(c) /\ (ReportNothing(c) \/ \E o \in Open : ReportContext(c, o))
      /\ asked' = asked \cup {c} /\ Erase /\ pc' = pc /\ atStart' = atStart
  BY DEF EraseReady
<1>. DEFINE after == RemoveAt(commandsInProgress, iter)
<1>3. /\ after \in Seq(Listed) /\ Len(after) = Len(commandsInProgress) - 1
      /\ \A i \in 1 .. Len(commandsInProgress) - 1 :
            after[i] = IF i < iter THEN commandsInProgress[i] ELSE commandsInProgress[i + 1]
      /\ commandsInProgress' = after /\ iter' = iter
  BY <1>1, <1>2, RemoveAtProperties DEF TypeOK, Erase
<1>. HIDE DEF after
<1>4. RequestsGoOn /\ request' \in [Command -> {"unsent", "performing", "answered", "expired", "over"}]
  BY <1>1, <1>2 DEF RequestsGoOn, Sent, ReportNothing, ReportContext, TypeOK, Command
<1>5. TypeOK'
  <2>1. commandOpenContext' \in Open \cup {NoCommand} /\ forgotten' \in SUBSET Command
    BY <1>2 DEF ReportNothing, ReportContext, Forget, TypeOK, Command
  <2>2. iter' \in 1 .. Len(commandsInProgress') + 1
    BY <1>1, <1>3
  <2>3. invalidatedBy' = invalidatedBy
    BY <1>2 DEF ReportNothing, ReportContext
  <2>. QED
    BY <1>1, <1>2, <1>3, <1>4, <2>1, <2>2, <2>3 DEF TypeOK
<1>6. VectorIsSent'
  <2>. SUFFICES ASSUME NEW i \in 1 .. Len(after) PROVE request'[after[i]] # "unsent"
    BY <1>3 DEF VectorIsSent, Sent
  <2>1. PICK j \in 1 .. Len(commandsInProgress) : after[i] = commandsInProgress[j]
    <3>1. (IF i < iter THEN i ELSE i + 1) \in 1 .. Len(commandsInProgress)
      BY <1>1, <1>3
    <3>. QED
      BY <1>3, <3>1
  <2>2. commandsInProgress[j] \in Command /\ Sent(commandsInProgress[j])
    BY <1>1 DEF VectorIsSent, Command
  <2>. QED
    BY <1>4, <2>1, <2>2 DEF RequestsGoOn
<1>7. VectorIsUnique'
  <2>. SUFFICES ASSUME NEW i \in 1 .. Len(after), NEW j \in 1 .. Len(after), after[i] = after[j]
                PROVE  i = j
    BY <1>3 DEF VectorIsUnique
  <2>. DEFINE I == IF i < iter THEN i ELSE i + 1
              J == IF j < iter THEN j ELSE j + 1
  <2>1. I \in 1 .. Len(commandsInProgress) /\ J \in 1 .. Len(commandsInProgress)
    BY <1>1, <1>3
  <2>2. commandsInProgress[I] = commandsInProgress[J]
    BY <1>1, <1>3
  <2>3. I = J
    BY <2>1, <2>2 DEF VectorIsUnique
  <2>. QED
    BY <1>1, <1>3, <2>3
<1>8. AskedIsSent'
  BY <1>1, <1>2, <1>4 DEF AskedIsSent, RequestsGoOn, Sent, TypeOK, Command
<1>9. WalkAsksEachOnce'
  <2>1. Rest \subseteq Rest' \cup {c}
    <3>. SUFFICES ASSUME NEW i \in iter .. Len(commandsInProgress), i # iter
                  PROVE  commandsInProgress[i] \in Rest'
      BY DEF Rest
    <3>1. i - 1 \in iter .. Len(after) /\ after[i - 1] = commandsInProgress[i]
      BY <1>1, <1>3
    <3>. QED
      BY <1>3, <3>1 DEF Rest
  <2>2. Rest' \subseteq Rest \ {c}
    <3>. SUFFICES ASSUME NEW i \in iter .. Len(after)
                  PROVE  after[i] \in Rest /\ after[i] # c
      BY <1>3 DEF Rest
    <3>1. /\ i + 1 \in iter .. Len(commandsInProgress) /\ i + 1 \in 1 .. Len(commandsInProgress)
          /\ i + 1 # iter /\ after[i] = commandsInProgress[i + 1]
      BY <1>1, <1>3
    <3>. QED
      BY <1>1, <3>1 DEF Rest, VectorIsUnique
  <2>3. invalidatedBy' = invalidatedBy
    BY <1>2 DEF ReportNothing, ReportContext
  <2>. QED
    BY <1>0, <1>1, <1>2, <2>1, <2>2, <2>3 DEF WalkAsksEachOnce
<1>10. CASE ReportNothing(c)
  <2>1. OpenedByRegistration' /\ ResetIsOver' /\ OnlyContextEventsForget'
    BY <1>0, <1>2, <1>4, <1>10, OpenStays DEF ReportNothing
  <2>. QED
    BY <1>5, <1>6, <1>7, <1>8, <1>9, <2>1
<1>11. ASSUME NEW o \in Open, ReportContext(c, o) PROVE QInv'
  <2>1. \A r \in Register : request[r] # "over"
    BY <1>11, QueueAssumption DEF ReportContext
  <2>2. commandOpenContext \in Open => AnotherOpened
    BY <2>1, QueueAssumption DEF OpenedByRegistration, AnotherOpened, Command
  <2>3. OnlyContextEventsForget'
    BY <1>4, <1>11, <2>2, ForgottenForeign DEF ReportContext
  <2>4. request'[c] = "over"
    BY <1>1, <1>11, QueueAssumption DEF ReportContext, TypeOK, Command
  <2>5. OpenedByRegistration'
    BY <1>11, <2>4 DEF OpenedByRegistration, ReportContext
  <2>6. ResetIsOver'
    BY <1>0, <1>2 DEF ResetIsOver
  <2>. QED
    BY <1>5, <1>6, <1>7, <1>8, <1>9, <2>3, <2>5, <2>6
<1>. QED
  BY <1>2, <1>10, <1>11

LEMMA PassByStep ==
  ASSUME QInv, PassBy
  PROVE  QInv'
<1>. USE DEF QInv
<1>. PICK c : c = commandsInProgress[iter]
  OBVIOUS
<1>0. pc = "walk" /\ iter <= Len(commandsInProgress)
  BY DEF PassBy
<1>1. /\ iter \in 1 .. Len(commandsInProgress) /\ Len(commandsInProgress) \in Nat
      /\ c \in Listed /\ c \in Command /\ c \in Rest /\ Sent(c) /\ c \notin asked
      /\ \A i \in 1 .. Len(commandsInProgress) : commandsInProgress[i] \in Listed
  BY <1>0, AtIterator
<1>2. /\ \E next \in {"performing", "over"} :
            NotReady(c, next) /\ request' = [request EXCEPT ![c] = next]
      /\ asked' = asked \cup {c} /\ iter' = iter + 1
      /\ UNCHANGED <<commandsInProgress, commandOpenContext, pc, atStart, invalidatedBy, forgotten>>
  BY DEF PassBy
<1>3. RequestsGoOn
  BY <1>1, <1>2 DEF RequestsGoOn, Sent, NotReady, TypeOK
<1>4. TypeOK'
  <2>1. iter' \in 1 .. Len(commandsInProgress') + 1
    BY <1>1, <1>2
  <2>2. request' \in [Command -> {"unsent", "performing", "answered", "expired", "over"}]
    BY <1>1, <1>2 DEF TypeOK
  <2>3. asked' \in SUBSET Listed
    BY <1>1, <1>2 DEF TypeOK
  <2>. QED
    BY <1>2, <2>1, <2>2, <2>3 DEF TypeOK
<1>5. VectorIsSent' /\ VectorIsUnique' /\ AskedIsSent'
  BY <1>1, <1>2, <1>3 DEF VectorIsSent, VectorIsUnique, AskedIsSent, RequestsGoOn, Sent, TypeOK,
                          Command
<1>6. WalkAsksEachOnce'
  <2>1. Rest' = {commandsInProgress[i] : i \in iter + 1 .. Len(commandsInProgress)}
    BY <1>2, Zenon DEF Rest
  <2>2. Rest \subseteq Rest' \cup {c}
    <3>. SUFFICES ASSUME NEW i \in iter .. Len(commandsInProgress), i # iter
                  PROVE  commandsInProgress[i] \in Rest'
      BY DEF Rest
    <3>1. i \in iter + 1 .. Len(commandsInProgress)
      BY <1>1
    <3>. QED
      BY <2>1, <3>1
  <2>3. Rest' \subseteq Rest \ {c}
    <3>. SUFFICES ASSUME NEW i \in iter + 1 .. Len(commandsInProgress)
                  PROVE  commandsInProgress[i] \in Rest /\ commandsInProgress[i] # c
      BY <2>1
    <3>1. i \in iter .. Len(commandsInProgress) /\ i \in 1 .. Len(commandsInProgress) /\ i # iter
      BY <1>1
    <3>. QED
      BY <1>1, <3>1 DEF Rest, VectorIsUnique
  <2>. QED
    BY <1>0, <1>1, <1>2, <2>2, <2>3 DEF WalkAsksEachOnce
<1>7. OpenedByRegistration' /\ ResetIsOver' /\ OnlyContextEventsForget'
  BY <1>0, <1>2, <1>3, OpenStays
<1>. QED
  BY <1>4, <1>5, <1>6, <1>7

LEMMA EndWalkStep ==
  ASSUME QInv, EndWalk
  PROVE  QInv'
<1>. USE DEF QInv, EndWalk
<1>1. RequestsGoOn
  BY DEF RequestsGoOn, Sent
<1>2. TypeOK' /\ WalkAsksEachOnce'
  BY DEF TypeOK, WalkAsksEachOnce
<1>. QED
  BY <1>1, <1>2, VectorStays, OpenStays

(* A command in commandOpenContext is one that was sent.                     *)
LEMMA OpenIsReadyStep ==
  ASSUME QInv, OpenIsReady
  PROVE  QInv'
<1>. USE DEF QInv
<1>1. commandOpenContext \in Open /\ commandOpenContext \in Command
  BY DEF OpenIsReady, TypeOK, Command
<1>2. RequestsGoOn /\ request'[commandOpenContext] = "over"
  BY <1>1 DEF RequestsGoOn, Sent, OpenIsReady, TypeOK
<1>3. TypeOK' /\ WalkAsksEachOnce'
  BY <1>1 DEF TypeOK, WalkAsksEachOnce, OpenIsReady
<1>4. VectorIsSent' /\ VectorIsUnique' /\ AskedIsSent'
  BY <1>2, VectorStays DEF OpenIsReady
<1>5. OpenedByRegistration' /\ OnlyContextEventsForget'
  BY <1>2, OpenStays DEF OpenIsReady
<1>6. ResetIsOver'
  BY <1>1, <1>2 DEF ResetIsOver, OpenIsReady
<1>. QED
  BY <1>3, <1>4, <1>5, <1>6

LEMMA OpenIsNotReadyStep ==
  ASSUME QInv, OpenIsNotReady
  PROVE  QInv'
<1>. USE DEF QInv
<1>1. request' = request \/ \E next \in {"performing", "over"} :
                                /\ commandOpenContext \in Command
                                /\ NotReady(commandOpenContext, next)
                                /\ request' = [request EXCEPT ![commandOpenContext] = next]
  BY DEF OpenIsNotReady, TypeOK, Command
<1>2. RequestsGoOn
  BY <1>1 DEF RequestsGoOn, Sent, NotReady, TypeOK
<1>3. TypeOK' /\ WalkAsksEachOnce'
  BY <1>1 DEF TypeOK, WalkAsksEachOnce, OpenIsNotReady
<1>4. VectorIsSent' /\ VectorIsUnique' /\ AskedIsSent'
  BY <1>2, VectorStays DEF OpenIsNotReady
<1>5. OpenedByRegistration' /\ ResetIsOver' /\ OnlyContextEventsForget'
  BY <1>2, OpenStays DEF OpenIsNotReady
<1>. QED
  BY <1>3, <1>4, <1>5

LEMMA ResetOpenStep ==
  ASSUME QInv, ResetOpen
  PROVE  QInv'
<1>. USE DEF QInv
<1>1. RequestsGoOn
  BY DEF RequestsGoOn, Sent, ResetOpen
<1>2. TypeOK' /\ WalkAsksEachOnce'
  BY DEF TypeOK, WalkAsksEachOnce, ResetOpen, Forget, Command
<1>3. VectorIsSent' /\ VectorIsUnique' /\ AskedIsSent'
  BY <1>1, VectorStays DEF ResetOpen
<1>4. OnlyContextEventsForget'
  BY <1>1, ForgottenForeign DEF ResetOpen, ResetIsOver, Performing
<1>5. OpenedByRegistration' /\ ResetIsOver'
  BY DEF OpenedByRegistration, ResetIsOver, ResetOpen
<1>. QED
  BY <1>2, <1>3, <1>4, <1>5

-----------------------------------------------------------------------------
(* The steps of the others. *)

LEMMA AddCommmandStep ==
  ASSUME QInv, NEW c \in Command, AddCommmand(c)
  PROVE  QInv'
<1>. USE DEF QInv
<1>1. RequestsGoOn
  BY DEF RequestsGoOn, Sent, AddCommmand, TypeOK
<1>. DEFINE n == Len(commandsInProgress)
<1>2. /\ n \in Nat /\ Len(commandsInProgress') = n + 1
      /\ \A i \in 1 .. n : commandsInProgress'[i] = commandsInProgress[i]
      /\ \A i \in 1 .. n : commandsInProgress[i] \in Listed
      /\ commandsInProgress'[n + 1] = c
      /\ commandsInProgress' \in Seq(Listed)
  <2>1. commandsInProgress \in Seq(Listed) /\ c \in Listed
        /\ commandsInProgress' = Append(commandsInProgress, c)
    BY DEF AddCommmand, TypeOK
  <2>2. n \in Nat /\ \A i \in 1 .. n : commandsInProgress[i] \in Listed
    BY VectorMembers
  <2>. QED
    BY <2>1, <2>2, AppendProperties
<1>3. iter \in 1 .. n + 1 /\ iter' = iter /\ pc' = pc /\ atStart' = atStart /\ asked' = asked
  BY DEF AddCommmand, walkVars, TypeOK
<1>. HIDE DEF n
<1>4. ~Sent(c) /\ request'[c] = "performing"
  BY DEF AddCommmand, Sent, TypeOK
<1>5. \/ invalidatedBy' = invalidatedBy
      \/ pc = "walk" /\ invalidatedBy' = "another thread"
  <2>1. CASE invalidatedBy' = invalidatedBy
    BY <2>1
  <2>2. CASE pc = "walk" /\ invalidatedBy' = Pusher(c)
    <3>1. c \in Foreign
      BY <2>2 DEF AddCommmand
    <3>. QED
      BY <2>2, <3>1 DEF Pusher
  <2>. QED
    BY <2>1, <2>2 DEF AddCommmand
<1>6. TypeOK'
  <2>1. iter' \in 1 .. Len(commandsInProgress') + 1
    BY <1>2, <1>3
  <2>. QED
    BY <1>2, <1>3, <1>5, <2>1 DEF TypeOK, AddCommmand
<1>7. \A i \in 1 .. n : commandsInProgress[i] # c
  BY <1>4 DEF VectorIsSent, n
<1>8. VectorIsSent' /\ VectorIsUnique'
  <2>1. \A i \in 1 .. n : request'[commandsInProgress[i]] # "unsent"
    BY <1>1, <1>2 DEF RequestsGoOn, VectorIsSent, Command, n
  <2>2. \A i, j \in 1 .. n : commandsInProgress[i] = commandsInProgress[j] => i = j
    BY DEF VectorIsUnique, n
  <2>3. \A i \in 1 .. n + 1 : i \in 1 .. n \/ i = n + 1
    BY <1>2
  <2>. QED
    BY <1>2, <1>4, <1>7, <2>1, <2>2, <2>3 DEF VectorIsSent, VectorIsUnique, Sent
<1>9. AskedIsSent'
  BY <1>1, <1>3 DEF AskedIsSent, RequestsGoOn, Sent, Command, TypeOK
<1>10. WalkAsksEachOnce'
  <2>1. Rest = {commandsInProgress[i] : i \in iter .. n}
    BY DEF Rest, n
  <2>2. Rest' = {commandsInProgress'[i] : i \in iter .. n + 1}
    BY <1>2, <1>3 DEF Rest
  <2>3. \A i \in iter .. n : i \in iter .. n + 1 /\ commandsInProgress'[i] = commandsInProgress[i]
    BY <1>2, <1>3
  <2>4. Rest \subseteq Rest'
    BY <2>1, <2>2, <2>3
  <2>5. Rest' \subseteq Rest \cup {c}
    <3>. SUFFICES ASSUME NEW i \in iter .. n + 1 PROVE commandsInProgress'[i] \in Rest \cup {c}
      BY <2>2
    <3>1. CASE i = n + 1
      BY <1>2, <3>1
    <3>2. CASE i \in iter .. n
      BY <2>1, <2>3, <3>2
    <3>. QED
      BY <1>2, <1>3, <3>1, <3>2
  <2>6. c \notin asked
    BY <1>4 DEF AskedIsSent
  <2>. QED
    BY <1>3, <1>5, <2>4, <2>5, <2>6 DEF WalkAsksEachOnce
<1>11. OpenedByRegistration' /\ ResetIsOver' /\ OnlyContextEventsForget'
  BY <1>1, <1>3, OpenStays DEF AddCommmand
<1>. QED
  BY <1>6, <1>8, <1>9, <1>10, <1>11

LEMMA ContextOpenedStep ==
  ASSUME QInv, NEW o \in Command, ContextOpened(o)
  PROVE  QInv'
<1>. USE DEF QInv
<1>1. RequestsGoOn /\ request'[o] = "performing"
  BY DEF RequestsGoOn, Sent, ContextOpened, TypeOK
<1>2. TypeOK' /\ WalkAsksEachOnce'
  <2>1. Rest' = Rest
    BY RestStays DEF ContextOpened, walkVars
  <2>2. TypeOK'
    BY DEF TypeOK, ContextOpened, Forget, Command, walkVars
  <2>. QED
    BY <2>1, <2>2 DEF WalkAsksEachOnce, ContextOpened, walkVars
<1>3. VectorIsSent' /\ VectorIsUnique' /\ AskedIsSent'
  BY <1>1, VectorStays DEF ContextOpened, walkVars
<1>4. AnotherOpened'
  BY <1>1 DEF AnotherOpened, ContextOpened, Sent
<1>5. OpenedByRegistration' /\ ResetIsOver' /\ OnlyContextEventsForget'
  BY <1>1, <1>4 DEF OpenedByRegistration, ResetIsOver, OnlyContextEventsForget, AnotherOpened,
                    ContextOpened, Sent
<1>. QED
  BY <1>2, <1>3, <1>5

LEMMA SettleStep ==
  ASSUME QInv, NEW c \in Command, Settle(c)
  PROVE  QInv'
<1>. USE DEF QInv
<1>1. RequestsGoOn
  BY DEF RequestsGoOn, Sent, Settle, TypeOK
<1>2. TypeOK' /\ WalkAsksEachOnce'
  <2>1. Rest' = Rest
    BY RestStays DEF Settle, walkVars
  <2>2. TypeOK'
    BY DEF TypeOK, Settle, walkVars
  <2>. QED
    BY <2>1, <2>2 DEF WalkAsksEachOnce, Settle, walkVars
<1>3. VectorIsSent' /\ VectorIsUnique' /\ AskedIsSent'
  BY <1>1, VectorStays DEF Settle, walkVars
<1>4. OpenedByRegistration' /\ ResetIsOver' /\ OnlyContextEventsForget'
  BY <1>1, OpenStays DEF Settle, walkVars
<1>. QED
  BY <1>2, <1>3, <1>4

-----------------------------------------------------------------------------
(* The theorems. *)

LEMMA InitHolds == Init => QInv
<1>. SUFFICES ASSUME Init PROVE QInv
  OBVIOUS
<1>1. TypeOK
  BY DEF Init, TypeOK
<1>2. Len(commandsInProgress) = 0
  BY DEF Init
<1>. QED
  BY <1>1, <1>2 DEF Init, QInv, VectorIsSent, VectorIsUnique, AskedIsSent, WalkAsksEachOnce,
                    OpenedByRegistration, ResetIsOver, OnlyContextEventsForget

LEMMA NextHolds == QInv /\ [Next]_vars => QInv'
<1>. SUFFICES ASSUME QInv, [Next]_vars PROVE QInv'
  OBVIOUS
<1>1. CASE UNCHANGED vars
  <2>1. Rest' = Rest
    BY <1>1, RestStays DEF vars
  <2>. QED
    BY <1>1, <2>1 DEF vars, QInv, TypeOK, VectorIsSent, VectorIsUnique, AskedIsSent, WalkAsksEachOnce,
         OpenedByRegistration, ResetIsOver, OnlyContextEventsForget, AnotherOpened, Sent
<1>2. CASE Next
  BY <1>2, BeginWalkStep, EraseReadyStep, PassByStep, EndWalkStep, OpenIsReadyStep,
     OpenIsNotReadyStep, ResetOpenStep, AddCommmandStep, ContextOpenedStep, SettleStep
     DEF Next, Maintenance
<1>. QED
  BY <1>1, <1>2

LEMMA Invariance == Safety => []QInv
  BY InitHolds, NextHolds, PTL DEF Safety

(* Type correctness: the iterator stays within the vector, or one past it.   *)
THEOREM TypeCorrect == Safety => []TypeOK
<1>1. QInv => TypeOK
  BY DEF QInv
<1>. QED
  BY <1>1, Invariance, PTL

(* No command is passed over and none asked twice.                           *)
THEOREM WalksAreComplete == Safety => []WalkAsksEachOnce
<1>1. QInv => WalkAsksEachOnce
  BY DEF QInv
<1>. QED
  BY <1>1, Invariance, PTL

(* Only another thread's contexts destroy a command that performs.           *)
THEOREM ForgettingHasCause == Safety => []OnlyContextEventsForget
<1>1. QInv => OnlyContextEventsForget
  BY DEF QInv
<1>. QED
  BY <1>1, Invariance, PTL
=============================================================================
