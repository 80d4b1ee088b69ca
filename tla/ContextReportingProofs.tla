----------------------- MODULE ContextReportingProofs -----------------------
(***************************************************************************)
(* Proofs about ContextReporting, for any contexts and any number of       *)
(* context events and lost reports: type correctness, and that the player  *)
(* ends with the context of the client.                                    *)
(***************************************************************************)
EXTENDS ContextReporting, TLAPS

Registered == clientUniqueId = OurId

(* The report at i is the last one that the player will heed.                *)
IsLastOurs(i) ==
    /\ toPlayer[i].user = OurId
    /\ \A j \in 1 .. Len(toPlayer) : j > i => toPlayer[j].user # OurId

NoneOurs == \A i \in 1 .. Len(toPlayer) : toPlayer[i].user # OurId

(* The context that the player will have when it has taken every report.     *)
WillHave(x) ==
    \/ NoneOurs /\ playerContext = x
    \/ \E i \in 1 .. Len(toPlayer) : IsLastOurs(i) /\ toPlayer[i].context = x

(* Nothing carries the id before the registration.                           *)
NothingEarly ==
    ~Registered => /\ At("maintenance", "idle")
                   /\ command["objrepr"].user # OurId
                   /\ NoneOurs
                   /\ playerContext = NoContext

(* The thread of objrepr reports what it has just done; the maintenance      *)
(* thread what it has seen, which an event may have overtaken.               *)
ReportsAreCurrent ==
    /\ At("objrepr", "open") => currentContext # NoContext
    /\ At("objrepr", "close") => currentContext = NoContext
    /\ At("objrepr", "publish") => command["objrepr"].context = currentContext
    /\ At("maintenance", "open") /\ ~overtaken => currentContext # NoContext
    /\ At("maintenance", "publish") =>
        /\ command["maintenance"].user = OurId
        /\ ~overtaken => command["maintenance"].context = currentContext

Pending ==
    \/ pc["objrepr"] \in {"open", "close"}
    \/ At("objrepr", "publish") /\ command["objrepr"].user = OurId
    \/ At("maintenance", "test") /\ currentContext # NoContext
    \/ pc["maintenance"] \in {"open", "publish"}

(* Either a report is still to be published or the last one says it all.     *)
LastReportTells ==
    Registered /\ ~overtaken /\ ~unheard => Pending \/ WillHave(currentContext)

ThreadsAreWhere ==
    /\ pc["objrepr"] \in {"idle", "open", "close", "publish"}
    /\ pc["maintenance"] \in {"idle", "test", "open", "publish"}

CInv ==
    /\ TypeOK
    /\ ThreadsAreWhere
    /\ NothingEarly
    /\ ReportsAreCurrent
    /\ LastReportTells
    /\ crashed => overtaken

-----------------------------------------------------------------------------
(* What happens to the queue. *)

(* A report that is appended settles what the player will have, if it has    *)
(* the id, and nothing otherwise.                                            *)
LEMMA Appended ==
  ASSUME toPlayer \in Seq(Report), NEW c \in Report, toPlayer' = Append(toPlayer, c),
         playerContext' = playerContext
  PROVE  /\ c.user = OurId => WillHave(c.context)'
         /\ c.user # OurId => /\ NoneOurs => NoneOurs'
                              /\ \A x : WillHave(x) => WillHave(x)'
<1>1. /\ Len(toPlayer') = Len(toPlayer) + 1
      /\ \A i \in 1 .. Len(toPlayer) : toPlayer'[i] = toPlayer[i]
      /\ toPlayer'[Len(toPlayer) + 1] = c
      /\ Len(toPlayer) \in Nat
  OBVIOUS
<1>2. ASSUME c.user = OurId PROVE WillHave(c.context)'
  <2>1. PICK n \in Nat : n = Len(toPlayer) + 1
    BY <1>1
  <2>2. n \in 1 .. Len(toPlayer') /\ toPlayer'[n] = c
    BY <1>1, <2>1
  <2>3. IsLastOurs(n)'
    BY <1>1, <1>2, <2>1, <2>2 DEF IsLastOurs
  <2>. QED
    BY <2>2, <2>3 DEF WillHave
<1>3. ASSUME c.user # OurId, NoneOurs PROVE NoneOurs'
  BY <1>1, <1>3 DEF NoneOurs
<1>4. ASSUME c.user # OurId, NEW x, WillHave(x) PROVE WillHave(x)'
  <2>1. CASE NoneOurs /\ playerContext = x
    BY <1>3, <1>4, <2>1 DEF WillHave
  <2>2. CASE \E i \in 1 .. Len(toPlayer) : IsLastOurs(i) /\ toPlayer[i].context = x
    <3>1. PICK i \in 1 .. Len(toPlayer) : IsLastOurs(i) /\ toPlayer[i].context = x
      BY <2>2
    <3>2. i \in 1 .. Len(toPlayer') /\ toPlayer'[i] = toPlayer[i]
      BY <1>1
    <3>3. IsLastOurs(i)'
      BY <1>1, <1>4, <3>1, <3>2 DEF IsLastOurs
    <3>. QED
      BY <3>1, <3>2, <3>3 DEF WillHave
  <2>. QED
    BY <1>4, <2>1, <2>2 DEF WillHave
<1>. QED
  BY <1>2, <1>3, <1>4

LEMMA TailOf ==
  ASSUME toPlayer \in Seq(Report), toPlayer # <<>>, toPlayer' = Tail(toPlayer)
  PROVE  /\ toPlayer' \in Seq(Report)
         /\ Len(toPlayer) \in Nat \ {0} /\ Len(toPlayer') = Len(toPlayer) - 1
         /\ \A i \in 1 .. Len(toPlayer') : toPlayer'[i] = toPlayer[i + 1]
         /\ Head(toPlayer) = toPlayer[1]
         /\ NoneOurs => NoneOurs'
<1>1. /\ toPlayer' \in Seq(Report)
      /\ Len(toPlayer) \in Nat \ {0} /\ Len(toPlayer') = Len(toPlayer) - 1
      /\ \A i \in 1 .. Len(toPlayer') : toPlayer'[i] = toPlayer[i + 1]
      /\ Head(toPlayer) = toPlayer[1]
  OBVIOUS
<1>. QED
  BY <1>1 DEF NoneOurs

(* Behind the head the last report with the id stays the last.               *)
LEMMA LastStays ==
  ASSUME toPlayer \in Seq(Report), toPlayer # <<>>, toPlayer' = Tail(toPlayer),
         NEW x, NEW i \in 2 .. Len(toPlayer), IsLastOurs(i), toPlayer[i].context = x
  PROVE  WillHave(x)'
<1>1. i - 1 \in 1 .. Len(toPlayer') /\ toPlayer'[i - 1] = toPlayer[i]
  BY TailOf
<1>2. IsLastOurs(i - 1)'
  <2>. SUFFICES ASSUME NEW j \in 1 .. Len(toPlayer'), j > i - 1
                PROVE  toPlayer'[j].user # OurId
    BY <1>1 DEF IsLastOurs
  <2>1. toPlayer'[j] = toPlayer[j + 1] /\ j + 1 \in 1 .. Len(toPlayer) /\ j + 1 > i
    BY TailOf
  <2>. QED
    BY <2>1 DEF IsLastOurs
<1>. QED
  BY <1>1, <1>2 DEF WillHave

LEMMA DeliverKeeps ==
  ASSUME TypeOK, Deliver, NEW x, WillHave(x)
  PROVE  WillHave(x)'
<1>. USE TailOf DEF TypeOK, Deliver
<1>1. CASE NoneOurs /\ playerContext = x
  BY <1>1 DEF NoneOurs, WillHave
<1>2. ASSUME NEW i \in 1 .. Len(toPlayer), IsLastOurs(i), toPlayer[i].context = x
      PROVE  WillHave(x)'
  <2>1. CASE i = 1
    <3>1. playerContext' = x
      BY <1>2, <2>1 DEF IsLastOurs
    <3>2. NoneOurs'
      <4>. SUFFICES ASSUME NEW j \in 1 .. Len(toPlayer') PROVE toPlayer'[j].user # OurId
        BY DEF NoneOurs
      <4>1. toPlayer'[j] = toPlayer[j + 1] /\ j + 1 \in 1 .. Len(toPlayer) /\ j + 1 > 1
        OBVIOUS
      <4>. QED
        BY <1>2, <2>1, <4>1 DEF IsLastOurs
    <3>. QED
      BY <3>1, <3>2 DEF WillHave
  <2>2. CASE i # 1
    BY <1>2, <2>2, LastStays
  <2>. QED
    BY <2>1, <2>2
<1>. QED
  BY <1>1, <1>2 DEF WillHave

LEMMA LoseKeeps ==
  ASSUME TypeOK, LoseReport, ~unheard', NEW x, WillHave(x)
  PROVE  WillHave(x)'
<1>. USE TailOf DEF TypeOK, LoseReport
<1>1. CASE NoneOurs /\ playerContext = x
  BY <1>1 DEF WillHave
<1>2. ASSUME NEW i \in 1 .. Len(toPlayer), IsLastOurs(i), toPlayer[i].context = x
      PROVE  WillHave(x)'
  <2>1. i # 1
    <3>. SUFFICES ASSUME i = 1 PROVE FALSE
      OBVIOUS
    <3>1. Head(toPlayer).user = OurId
      BY <1>2 DEF IsLastOurs
    <3>2. \A j \in 2 .. Len(toPlayer) : toPlayer[j].user # OurId
      BY <1>2 DEF IsLastOurs
    <3>. QED
      BY <3>1, <3>2
  <2>. QED
    BY <1>2, <2>1, LastStays
<1>. QED
  BY <1>1, <1>2 DEF WillHave

-----------------------------------------------------------------------------
(* One lemma per action. *)

LEMMA OvertakenTyped ==
  ASSUME overtaken' = Reporting
  PROVE  overtaken' \in BOOLEAN
  BY DEF Reporting

LEMMA EventStep ==
  ASSUME CInv, ~crashed, LoadContext \/ UnloadContext
  PROVE  CInv'
<1>. USE DEF CInv, TypeOK, LoadContext, UnloadContext, ContextEvent, At, Goto, Thread
<1>1. TypeOK'
  <2>1. events' \in 0 .. MaxEvents
    BY ContextAssumption
  <2>2. overtaken' \in BOOLEAN
    BY OvertakenTyped
  <2>3. currentContext' \in Context \cup {NoContext}
    OBVIOUS
  <2>4. pc' \in [Thread -> {"idle", "test", "open", "close", "publish"}]
    OBVIOUS
  <2>. QED
    BY <2>1, <2>2, <2>3, <2>4
<1>2. ThreadsAreWhere'
  BY DEF ThreadsAreWhere
<1>3. NothingEarly'
  BY DEF NothingEarly, NoneOurs, Registered
<1>4. ReportsAreCurrent'
  BY ContextAssumption DEF ReportsAreCurrent, Reporting, ThreadsAreWhere
<1>5. LastReportTells'
  BY DEF LastReportTells, Pending
<1>. QED
  BY <1>1, <1>2, <1>3, <1>4, <1>5

LEMMA SetIdStep ==
  ASSUME CInv, ~crashed, SetId
  PROVE  CInv'
<1>. USE DEF CInv, TypeOK, SetId, At, Goto, Thread
<1>1. TypeOK' /\ ThreadsAreWhere'
  BY DEF ThreadsAreWhere
<1>2. NothingEarly' /\ ReportsAreCurrent'
  BY DEF NothingEarly, Registered, ReportsAreCurrent
<1>3. LastReportTells'
  <2>1. NoneOurs' /\ playerContext' = NoContext
    BY ContextAssumption DEF NothingEarly, Registered, NoneOurs
  <2>2. currentContext = NoContext => WillHave(currentContext)'
    BY <2>1 DEF WillHave
  <2>. QED
    BY <2>2 DEF LastReportTells, Pending
<1>. QED
  BY <1>1, <1>2, <1>3

LEMMA TestContextStep ==
  ASSUME CInv, ~crashed, TestContext
  PROVE  CInv'
<1>. USE DEF CInv, TypeOK, TestContext, At, Goto, Thread
<1>1. TypeOK' /\ ThreadsAreWhere'
  BY DEF ThreadsAreWhere
<1>2. NothingEarly' /\ ReportsAreCurrent'
  BY DEF NothingEarly, Registered, NoneOurs, ReportsAreCurrent
<1>3. LastReportTells'
  <2>1. WillHave(currentContext) => WillHave(currentContext)'
    BY DEF WillHave, NoneOurs, IsLastOurs
  <2>. QED
    BY <2>1 DEF LastReportTells, Pending, Registered, ThreadsAreWhere
<1>. QED
  BY <1>1, <1>2, <1>3

LEMMA OpenCommandStep ==
  ASSUME CInv, ~crashed, NEW t \in Thread, OpenCommand(t)
  PROVE  CInv'
<1>. USE DEF CInv, TypeOK, OpenCommand, At, Goto, Thread
<1>1. TypeOK' /\ ThreadsAreWhere'
  BY DEF ThreadsAreWhere, Report
<1>2. NothingEarly'
  BY DEF NothingEarly, Registered, NoneOurs
<1>3. ReportsAreCurrent'
  BY DEF ReportsAreCurrent, NothingEarly, Registered
<1>4. LastReportTells'
  <2>1. WillHave(currentContext) => WillHave(currentContext)'
    BY DEF WillHave, NoneOurs, IsLastOurs
  <2>. QED
    BY <2>1 DEF LastReportTells, Pending, Registered
<1>. QED
  BY <1>1, <1>2, <1>3, <1>4

LEMMA CloseCommandStep ==
  ASSUME CInv, ~crashed, CloseCommand
  PROVE  CInv'
<1>. USE DEF CInv, TypeOK, CloseCommand, At, Goto, Thread
<1>1. TypeOK' /\ ThreadsAreWhere'
  BY DEF ThreadsAreWhere, Report
<1>2. NothingEarly'
  BY DEF NothingEarly, Registered, NoneOurs
<1>3. ReportsAreCurrent'
  BY DEF ReportsAreCurrent
<1>4. LastReportTells'
  <2>1. WillHave(currentContext) => WillHave(currentContext)'
    BY DEF WillHave, NoneOurs, IsLastOurs
  <2>. QED
    BY <2>1 DEF LastReportTells, Pending, Registered
<1>. QED
  BY <1>1, <1>2, <1>3, <1>4

(* Only a report that an event overtook is wrong.                            *)
LEMMA PublishStep ==
  ASSUME CInv, ~crashed, NEW t \in Thread, PublishReport(t)
  PROVE  CInv'
<1>. USE DEF CInv, TypeOK, PublishReport, At, Goto, Thread
<1>1. TypeOK' /\ ThreadsAreWhere'
  BY DEF ThreadsAreWhere, NoReport, Report
<1>2. PICK c \in Report : c = command[t]
  OBVIOUS
<1>3. /\ c.user = OurId => WillHave(c.context)'
      /\ c.user # OurId => /\ NoneOurs => NoneOurs'
                           /\ \A x : WillHave(x) => WillHave(x)'
  BY <1>2, Appended
<1>4. NothingEarly'
  BY <1>2, <1>3, ContextAssumption DEF NothingEarly, Registered, NoReport
<1>5. ReportsAreCurrent'
  BY ContextAssumption DEF ReportsAreCurrent, NoReport
<1>6. LastReportTells'
  <2>. SUFFICES ASSUME Registered, ~overtaken, ~unheard', ~Pending'
                PROVE  WillHave(currentContext)'
    BY DEF LastReportTells, Registered
  <2>. PICK x : x = currentContext /\ x = currentContext'
    OBVIOUS
  <2>1. CASE c.user = OurId
    <3>1. c.context = x
      BY <1>2 DEF ReportsAreCurrent
    <3>. QED
      BY <1>3, <2>1, <3>1
  <2>2. CASE c.user # OurId
    <3>1. t = "objrepr" /\ ~unheard
      BY <1>2, <2>2 DEF ReportsAreCurrent
    <3>2. ~Pending
      BY <1>2, <2>2, <3>1 DEF Pending
    <3>3. WillHave(x)
      BY <3>1, <3>2 DEF LastReportTells
    <3>. QED
      BY <1>3, <2>2, <3>3
  <2>. QED
    BY <2>1, <2>2
<1>. QED
  BY <1>1, <1>4, <1>5, <1>6

LEMMA DeliverStep ==
  ASSUME CInv, ~crashed, Deliver
  PROVE  CInv'
<1>. USE DEF CInv
<1>1. TypeOK'
  <2>1. toPlayer' \in Seq(Report) /\ Head(toPlayer) \in Report
    BY DEF TypeOK, Deliver
  <2>. QED
    BY <2>1 DEF TypeOK, Deliver, Report
<1>2. ThreadsAreWhere' /\ ReportsAreCurrent'
  BY DEF ThreadsAreWhere, ReportsAreCurrent, Deliver, At
<1>3. NothingEarly'
  BY TailOf DEF NothingEarly, NoneOurs, Deliver, TypeOK, Registered, At
<1>4. LastReportTells'
  <2>1. WillHave(currentContext) => WillHave(currentContext)'
    BY DeliverKeeps DEF Deliver
  <2>. QED
    BY <2>1 DEF LastReportTells, Deliver, Pending, Registered, At
<1>. QED
  BY <1>1, <1>2, <1>3, <1>4 DEF Deliver

LEMMA LoseStep ==
  ASSUME CInv, ~crashed, LoseReport
  PROVE  CInv'
<1>. USE DEF CInv
<1>1. TypeOK'
  BY ContextAssumption DEF TypeOK, LoseReport
<1>2. ThreadsAreWhere' /\ ReportsAreCurrent'
  BY DEF ThreadsAreWhere, ReportsAreCurrent, LoseReport, At
<1>3. NothingEarly'
  BY TailOf DEF NothingEarly, NoneOurs, LoseReport, TypeOK, Registered, At
<1>4. LastReportTells'
  <2>1. ~unheard' /\ WillHave(currentContext) => WillHave(currentContext)'
    BY LoseKeeps DEF LoseReport
  <2>2. ~unheard' => ~unheard
    BY DEF LoseReport
  <2>. QED
    BY <2>1, <2>2 DEF LastReportTells, LoseReport, Pending, Registered, At
<1>. QED
  BY <1>1, <1>2, <1>3, <1>4 DEF LoseReport

(* A null context is dereferenced only where an event has overtaken.         *)
LEMMA DereferenceStep ==
  ASSUME CInv, ~crashed, NEW t \in Thread, DereferenceNull(t)
  PROVE  CInv'
<1>. USE DEF CInv
<1>1. TypeOK' /\ ThreadsAreWhere' /\ NothingEarly' /\ ReportsAreCurrent'
  BY DEF TypeOK, ThreadsAreWhere, NothingEarly, NoneOurs, Registered, ReportsAreCurrent,
         DereferenceNull, At
<1>2. LastReportTells'
  BY DEF LastReportTells, Pending, Registered, WillHave, NoneOurs, IsLastOurs, DereferenceNull, At
<1>3. overtaken'
  BY DEF DereferenceNull, ReportsAreCurrent, Thread
<1>. QED
  BY <1>1, <1>2, <1>3

-----------------------------------------------------------------------------
(* The theorems. *)

LEMMA InitHolds == Init => CInv
<1>. SUFFICES ASSUME Init PROVE CInv
  OBVIOUS
<1>1. TypeOK
  <2>1. NoReport \in Report
    BY DEF NoReport, Report
  <2>2. command \in [Thread -> Report]
    BY <2>1 DEF Init
  <2>3. pc \in [Thread -> {"idle", "test", "open", "close", "publish"}]
    BY DEF Init
  <2>4. toPlayer \in Seq(Report)
    BY DEF Init
  <2>5. events \in 0 .. MaxEvents /\ faults \in 0 .. MaxFault
    BY ContextAssumption DEF Init
  <2>. QED
    BY <2>2, <2>3, <2>4, <2>5 DEF Init, TypeOK
<1>2. NoneOurs
  BY DEF Init, NoneOurs
<1>. QED
  BY <1>1, <1>2, ContextAssumption DEF Init, CInv, ThreadsAreWhere, NothingEarly, Registered,
     ReportsAreCurrent, LastReportTells, At, Thread, NoReport

LEMMA NextHolds == CInv /\ [Next]_vars => CInv'
<1>. SUFFICES ASSUME CInv, [Next]_vars PROVE CInv'
  OBVIOUS
<1>1. CASE UNCHANGED vars
  BY <1>1 DEF vars, CInv, TypeOK, ThreadsAreWhere, NothingEarly, Registered, NoneOurs,
              ReportsAreCurrent, LastReportTells, Pending, WillHave, IsLastOurs, At
<1>2. CASE Next
  BY <1>2, EventStep, SetIdStep, TestContextStep, OpenCommandStep, DereferenceStep, PublishStep,
     CloseCommandStep, DeliverStep, LoseStep DEF Next
<1>. QED
  BY <1>1, <1>2

LEMMA Invariance == Spec => []CInv
  BY InitHolds, NextHolds, PTL DEF Spec

(* Type correctness of the reports and of what they are made from.           *)
THEOREM TypeCorrect == Spec => []TypeOK
<1>1. CInv => TypeOK
  BY DEF CInv
<1>. QED
  BY <1>1, Invariance, PTL

(* The player ends with the context of the client, whatever was lost or      *)
(* overtaken before the last report.                                         *)
THEOREM ReportsConverge == Spec => []OnlyOvertakenReportsMislead
<1>1. CInv => OnlyOvertakenReportsMislead
  <2>. SUFFICES ASSUME CInv, Quiet, ~overtaken, ~unheard
                PROVE  playerContext = currentContext
    BY DEF OnlyOvertakenReportsMislead, CInv
  <2>1. WillHave(currentContext)
    BY DEF CInv, LastReportTells, Quiet, Pending, Registered, At, Thread
  <2>2. 1 .. Len(toPlayer) = {}
    BY DEF Quiet
  <2>. QED
    BY <2>1, <2>2 DEF WillHave
<1>. QED
  BY <1>1, Invariance, PTL
=============================================================================
