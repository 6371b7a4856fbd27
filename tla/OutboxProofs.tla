---------------------------- MODULE OutboxProofs ----------------------------
(* Theorems about Outbox for any events, publishers, limits and bounds. *)
EXTENDS Outbox, FiniteSetTheorems, TLAPS

USE MaxAttemptsAssumption, NoEventAssumption

\* The types of services.py's rows and of a publisher's locals.
THEOREM TypeCorrect == Spec => []TypeOK
<1>1. Init => TypeOK
  BY DEF Init, TypeOK, Statuses, Stages
<1>2. TypeOK /\ [Next]_vars => TypeOK'
  <2> SUFFICES ASSUME TypeOK, [Next]_vars PROVE TypeOK'
    OBVIOUS
  <2> USE DEF TypeOK, Statuses, Stages, rowVars, pubVars, histVars
  <2>1. ASSUME NEW e \in Events, EnqueueTask(e) PROVE TypeOK'
    BY <2>1 DEF EnqueueTask
  <2>2. ASSUME NEW e \in Events, BackoffElapses(e) PROVE TypeOK'
    BY <2>2 DEF BackoffElapses
  <2>3. ASSUME NEW e \in Events, LeaseElapses(e) PROVE TypeOK'
    BY <2>3 DEF LeaseElapses
  <2>4. ASSUME NEW e \in Events, RequeueDeadLetter(e) PROVE TypeOK'
    BY <2>4 DEF RequeueDeadLetter
  <2>5. CASE PurgePublished
    BY <2>5 DEF PurgePublished
  <2>6. ASSUME NEW p \in Publishers, NEW e \in Events, ClaimEvent(p, e) PROVE TypeOK'
    BY <2>6 DEF ClaimEvent, Visits
  <2>7. ASSUME NEW p \in Publishers, NEW e \in Events, SkipEvent(p, e) PROVE TypeOK'
    BY <2>7 DEF SkipEvent
  <2>8. ASSUME NEW p \in Publishers, SelectBatch(p) PROVE TypeOK'
    BY <2>8 DEF SelectBatch
  <2>9. ASSUME NEW p \in Publishers, BrokerAccepts(p) PROVE TypeOK'
    BY <2>9 DEF BrokerAccepts
  <2>10. ASSUME NEW p \in Publishers, BrokerAcceptsThenRaises(p) PROVE TypeOK'
    BY <2>10 DEF BrokerAcceptsThenRaises
  <2>11. ASSUME NEW p \in Publishers, BrokerRejects(p) PROVE TypeOK'
    BY <2>11 DEF BrokerRejects
  <2>12. ASSUME NEW p \in Publishers, MarkPublished(p) PROVE TypeOK'
    BY <2>12 DEF MarkPublished, Return
  <2>13. ASSUME NEW p \in Publishers, ReleaseForRetry(p) PROVE TypeOK'
    BY <2>13 DEF ReleaseForRetry, Return
  <2>14. ASSUME NEW p \in Publishers, Crash(p) PROVE TypeOK'
    BY <2>14 DEF Crash
  <2>15. CASE UNCHANGED vars
    BY <2>15 DEF vars
  <2> QED
    BY <2>1, <2>2, <2>3, <2>4, <2>5, <2>6, <2>7, <2>8, <2>9, <2>10, <2>11,
       <2>12, <2>13, <2>14, <2>15 DEF Next, SendTask
<1> QED
  BY <1>1, <1>2, PTL DEF Spec

-----------------------------------------------------------------------------
(* A publisher whose send_task returned has had a copy accepted, and only  *)
(* a committed row is ever claimed; with these facts PublishedWasAccepted  *)
(* becomes inductive, because acceptance is never undone.                  *)
SentWasAccepted ==
    \A p \in Publishers : stage[p] = "accepted" => accepted[claim[p]] > 0

ClaimsAreCommitted ==
    \A p \in Publishers : stage[p] # "ready" => status[claim[p]] # "absent"

DeliveryInv ==
    TypeOK /\ SentWasAccepted /\ ClaimsAreCommitted /\ PublishedWasAccepted

\* The inductive invariant behind publish_event's two transactions.
LEMMA DeliveryInvariant == Spec => []DeliveryInv
<1> DEFINE Delivery == SentWasAccepted /\ ClaimsAreCommitted /\ PublishedWasAccepted
<1>1. Init => DeliveryInv
  <2>1. Init => TypeOK
    BY DEF Init, TypeOK, Statuses, Stages
  <2> QED
    BY <2>1 DEF Init, DeliveryInv, SentWasAccepted, ClaimsAreCommitted, PublishedWasAccepted
<1>2. DeliveryInv /\ TypeOK' /\ [Next]_vars => DeliveryInv'
  <2> SUFFICES ASSUME DeliveryInv, TypeOK', [Next]_vars PROVE Delivery'
    BY DEF DeliveryInv
  <2>0. TypeOK /\ SentWasAccepted /\ ClaimsAreCommitted /\ PublishedWasAccepted
    BY DEF DeliveryInv
  <2> USE <2>0 DEF TypeOK, Statuses, Stages, rowVars, pubVars, histVars,
                   SentWasAccepted, ClaimsAreCommitted, PublishedWasAccepted
  <2>1. ASSUME NEW e \in Events,
               EnqueueTask(e) \/ BackoffElapses(e) \/ LeaseElapses(e) \/ RequeueDeadLetter(e)
        PROVE  Delivery'
    BY <2>1 DEF EnqueueTask, BackoffElapses, LeaseElapses, RequeueDeadLetter
  <2>2. CASE PurgePublished
    BY <2>2 DEF PurgePublished
  <2>3. ASSUME NEW p \in Publishers, NEW e \in Events, ClaimEvent(p, e) \/ SkipEvent(p, e)
        PROVE  Delivery'
    BY <2>3 DEF ClaimEvent, SkipEvent, Visits, Dispatchable
  <2>4. ASSUME NEW p \in Publishers, SelectBatch(p) \/ Crash(p)
        PROVE  Delivery'
    BY <2>4 DEF SelectBatch, Crash
  <2>5. ASSUME NEW p \in Publishers, SendTask(p)
        PROVE  Delivery'
    BY <2>5 DEF SendTask, BrokerAccepts, BrokerAcceptsThenRaises, BrokerRejects
  <2>6. ASSUME NEW p \in Publishers, MarkPublished(p)
        PROVE  Delivery'
    BY <2>6 DEF MarkPublished, Return
  <2>7. ASSUME NEW p \in Publishers, ReleaseForRetry(p)
        PROVE  Delivery'
    BY <2>7 DEF ReleaseForRetry, Return
  <2>8. CASE UNCHANGED vars
    BY <2>8 DEF vars
  <2> QED
    BY <2>1, <2>2, <2>3, <2>4, <2>5, <2>6, <2>7, <2>8 DEF Next
<1> QED
  BY <1>1, <1>2, TypeCorrect, PTL DEF Spec

\* No row reads as delivered, and none is purged as delivered, unless the
\* broker has taken a copy of it (publish_event, _mark_published, purge).
THEOREM DeliveredRowsWereAccepted == Spec => []PublishedWasAccepted
<1>1. DeliveryInv => PublishedWasAccepted
  BY DEF DeliveryInv
<1> QED
  BY <1>1, DeliveryInvariant, PTL

-----------------------------------------------------------------------------
\* A publisher that works on after its lease has run out can neither bring a
\* delivered row back nor revive a dead letter (the status guards of
\* _mark_published and _release_for_retry).
THEOREM SettledRowsStaySettled == Spec => SettledStaysSettled
<1> DEFINE Kept == \A e \in Events :
        /\ status[e] = "published" => status'[e] \in {"published", "purged"}
        /\ status[e] = "dead_letter" =>
             \/ status'[e] = "dead_letter"
             \/ status'[e] = "pending" /\ replays'[e] = replays[e] + 1
<1>1. TypeOK /\ [Next]_vars => [Kept]_vars
  <2> SUFFICES ASSUME TypeOK, Next PROVE Kept
    OBVIOUS
  <2> USE DEF TypeOK, Statuses, rowVars, pubVars, histVars
  <2>1. ASSUME NEW e \in Events,
               EnqueueTask(e) \/ BackoffElapses(e) \/ LeaseElapses(e) \/ RequeueDeadLetter(e)
        PROVE  Kept
    BY <2>1 DEF EnqueueTask, BackoffElapses, LeaseElapses, RequeueDeadLetter
  <2>2. CASE PurgePublished
    BY <2>2 DEF PurgePublished
  <2>3. ASSUME NEW p \in Publishers, NEW e \in Events, ClaimEvent(p, e) \/ SkipEvent(p, e)
        PROVE  Kept
    BY <2>3 DEF ClaimEvent, SkipEvent, Visits, Dispatchable
  <2>4. ASSUME NEW p \in Publishers, SelectBatch(p) \/ Crash(p) \/ SendTask(p)
        PROVE  Kept
    BY <2>4 DEF SelectBatch, Crash, SendTask, BrokerAccepts,
                BrokerAcceptsThenRaises, BrokerRejects
  <2>5. ASSUME NEW p \in Publishers, MarkPublished(p) \/ ReleaseForRetry(p)
        PROVE  Kept
    BY <2>5 DEF MarkPublished, ReleaseForRetry
  <2> QED
    BY <2>1, <2>2, <2>3, <2>4, <2>5 DEF Next
<1> QED
  BY <1>1, TypeCorrect, PTL DEF Spec, SettledStaysSettled

-----------------------------------------------------------------------------
(* Retries.  A pending row is below the limit, replays and crashes aside.  *)
(* While it is publishing, each further attempt is one of a publisher that *)
(* is still out or has crashed: the first to record an outcome ends this.  *)
(* A dead letter may be ahead by what one more replay allows.              *)
Extra(n) == n * Cardinality(Publishers) + crashes

ReadyHasNoClaim == \A p \in Publishers : stage[p] = "ready" => claim[p] = NoEvent

AttemptsOf(e) ==
    /\ status[e] = "absent" => attempts[e] = 0
    /\ status[e] = "pending" => attempts[e] < MaxAttempts + Extra(replays[e])
    /\ status[e] = "publishing" => attempts[e] < MaxAttempts + Cardinality(InFlight(e)) + Extra(replays[e])
    /\ status[e] = "dead_letter" => attempts[e] < MaxAttempts + Extra(replays[e] + 1)

RetryInv == TypeOK /\ ReadyHasNoClaim /\ \A e \in Events : AttemptsOf(e)

LEMMA ExtraIsNumber ==
    ASSUME TypeOK, NEW n \in Nat
    PROVE  /\ Extra(n) \in Nat /\ Cardinality(Publishers) \in Nat
           /\ Extra(n + 1) = Extra(n) + Cardinality(Publishers)
<1>1. Cardinality(Publishers) \in Nat /\ crashes \in Nat
  BY FS_CardinalityType, PublishersAssumption DEF TypeOK
<1>2. \A m, c \in Nat : m * c \in Nat /\ (m + 1) * c = m * c + c
  OBVIOUS
<1> QED
  BY <1>1, <1>2 DEF Extra

LEMMA InFlightIsCounted ==
    ASSUME NEW e
    PROVE  /\ IsFiniteSet(InFlight(e)) /\ Cardinality(InFlight(e)) \in Nat
           /\ Cardinality(InFlight(e)) <= Cardinality(Publishers)
<1>1. InFlight(e) \in SUBSET Publishers
  BY DEF InFlight
<1> QED
  BY <1>1, FS_Subset, FS_CardinalityType, PublishersAssumption

\* A step that gives publisher p the claim of e.
LEMMA OneMoreInFlight ==
    ASSUME TypeOK, NEW p \in Publishers, claim[p] = NoEvent, NEW e \in Events, claim' = [claim EXCEPT ![p] = e]
    PROVE  /\ Cardinality(InFlight(e))' = Cardinality(InFlight(e)) + 1
           /\ \A f \in Events : f # e => InFlight(f)' = InFlight(f)
<1>1. claim'[p] = e /\ \A q \in Publishers : q # p => claim'[q] = claim[q]
  BY DEF TypeOK
<1>2. InFlight(e)' = InFlight(e) \cup {p} /\ p \notin InFlight(e)
  BY <1>1, NoEventAssumption DEF InFlight
<1>3. \A f \in Events : f # e => InFlight(f)' = InFlight(f)
  BY <1>1, NoEventAssumption DEF InFlight
<1>4. Cardinality(InFlight(e) \cup {p}) = Cardinality(InFlight(e)) + 1
  BY <1>2, InFlightIsCounted, FS_AddElement
<1> QED
  BY <1>2, <1>3, <1>4

\* A step in which publisher p lets its claim go.
LEMMA OneLessInFlight ==
    ASSUME TypeOK, NEW p \in Publishers, claim' = [claim EXCEPT ![p] = NoEvent], NEW f \in Events
    PROVE  /\ f # claim[p] => InFlight(f)' = InFlight(f)
           /\ Cardinality(InFlight(f))' \in Nat /\ Cardinality(InFlight(f)) <= Cardinality(InFlight(f))' + 1
<1>1. claim'[p] = NoEvent /\ \A q \in Publishers : q # p => claim'[q] = claim[q]
  BY DEF TypeOK
<1>2. InFlight(f)' = InFlight(f) \ {p} /\ (f # claim[p] => InFlight(f)' = InFlight(f))
  BY <1>1, NoEventAssumption DEF InFlight
<1>3. Cardinality(InFlight(f) \ {p}) = IF p \in InFlight(f) THEN Cardinality(InFlight(f)) - 1 ELSE Cardinality(InFlight(f))
  BY InFlightIsCounted, FS_RemoveElement
<1>4. Cardinality(InFlight(f)) \in Nat /\ Cardinality(InFlight(f) \ {p}) \in Nat
  BY InFlightIsCounted, FS_RemoveElement, FS_CardinalityType
<1> QED
  BY <1>2, <1>3, <1>4

LEMMA RetryStep == RetryInv /\ TypeOK' /\ [Next]_vars => RetryInv'
<1> SUFFICES ASSUME RetryInv, TypeOK', [Next]_vars
             PROVE  ReadyHasNoClaim' /\ \A e \in Events : AttemptsOf(e)'
  BY DEF RetryInv
<1>0. TypeOK /\ ReadyHasNoClaim /\ \A e \in Events : AttemptsOf(e)
  BY DEF RetryInv
<1>1. /\ \A e \in Events : /\ attempts[e] \in Nat /\ replays[e] \in Nat
                           /\ Extra(replays[e]) \in Nat /\ Cardinality(InFlight(e)) \in Nat
                           /\ Extra(replays[e] + 1) = Extra(replays[e]) + Cardinality(Publishers)
                           /\ Cardinality(InFlight(e)) <= Cardinality(Publishers)
      /\ Cardinality(Publishers) \in Nat /\ crashes \in Nat /\ MaxAttempts \in Nat /\ MaxAttempts > 0
  <2>1. Cardinality(Publishers) \in Nat /\ crashes \in Nat /\ MaxAttempts \in Nat /\ MaxAttempts > 0
    BY <1>0, MaxAttemptsAssumption, FS_CardinalityType, PublishersAssumption DEF TypeOK
  <2>2. ASSUME NEW e \in Events
        PROVE  /\ attempts[e] \in Nat /\ replays[e] \in Nat
               /\ Extra(replays[e]) \in Nat /\ Extra(replays[e] + 1) = Extra(replays[e]) + Cardinality(Publishers)
    <3>1. attempts[e] \in Nat /\ replays[e] \in Nat
      BY <1>0 DEF TypeOK
    <3> QED
      BY <1>0, <3>1, ExtraIsNumber
  <2> QED
    BY <2>1, <2>2, InFlightIsCounted
\* Steps that move no claim and count no crash.
<1>2. ASSUME UNCHANGED <<claim, crashes>>,
             \A e \in Events : \/ status'[e] = status[e] /\ attempts'[e] = attempts[e] /\ replays'[e] = replays[e]
                               \/ status[e] = "absent" /\ status'[e] = "pending" /\ attempts'[e] = attempts[e]
                                  /\ replays'[e] = replays[e]
                               \/ status[e] = "dead_letter" /\ status'[e] = "pending" /\ attempts'[e] = attempts[e]
                                  /\ replays'[e] = replays[e] + 1
                               \/ status'[e] = "purged"
      PROVE  \A e \in Events : AttemptsOf(e)'
  <2>1. \A e \in Events : InFlight(e)' = InFlight(e)
    BY <1>2 DEF InFlight
  <2>2. \A n : Extra(n)' = Extra(n)
    BY <1>2 DEF Extra
  <2> SUFFICES ASSUME NEW e \in Events PROVE AttemptsOf(e)'
    OBVIOUS
  <2> QED
    BY <1>0, <1>1, <1>2, <2>1, <2>2 DEF AttemptsOf
<1>3. ASSUME NEW e \in Events, EnqueueTask(e) \/ BackoffElapses(e) \/ LeaseElapses(e) \/ RequeueDeadLetter(e)
      PROVE  ReadyHasNoClaim' /\ \A f \in Events : AttemptsOf(f)'
  <2>1. UNCHANGED <<stage, claim, crashes>>
    BY <1>3 DEF EnqueueTask, BackoffElapses, LeaseElapses, RequeueDeadLetter, pubVars, histVars
  <2> QED
    BY <1>0, <1>2, <1>3, <2>1 DEF EnqueueTask, BackoffElapses, LeaseElapses, RequeueDeadLetter, ReadyHasNoClaim, TypeOK
<1>4. CASE PurgePublished
  <2>1. UNCHANGED <<stage, claim, crashes, attempts, replays>> /\ \A e \in Events : status'[e] \in {status[e], "purged"}
    BY <1>4 DEF PurgePublished, pubVars, histVars
  <2> QED
    BY <1>0, <1>2, <2>1 DEF ReadyHasNoClaim
<1>5. ASSUME NEW p \in Publishers, NEW e \in Events, ClaimEvent(p, e)
      PROVE  ReadyHasNoClaim' /\ \A f \in Events : AttemptsOf(f)'
  <2>1. /\ stage[p] = "ready" /\ status[e] \in {"pending", "publishing"} /\ status' = [status EXCEPT ![e] = "publishing"]
        /\ attempts' = [attempts EXCEPT ![e] = @ + 1] /\ stage' = [stage EXCEPT ![p] = "claimed"]
        /\ claim' = [claim EXCEPT ![p] = e] /\ UNCHANGED <<replays, crashes>>
    BY <1>5 DEF ClaimEvent, Visits, Dispatchable, histVars
  <2>2. claim[p] = NoEvent
    BY <1>0, <2>1 DEF ReadyHasNoClaim
  <2>3. /\ Cardinality(InFlight(e))' = Cardinality(InFlight(e)) + 1
        /\ \A f \in Events : f # e => InFlight(f)' = InFlight(f)
    BY <1>0, <2>1, <2>2, OneMoreInFlight
  <2>4. \A n : Extra(n)' = Extra(n)
    BY <2>1 DEF Extra
  <2>5. AttemptsOf(e)'
    <3>1. status'[e] = "publishing" /\ attempts'[e] = attempts[e] + 1 /\ replays'[e] = replays[e]
      BY <1>0, <2>1 DEF TypeOK
    <3> QED
      BY <1>0, <1>1, <2>1, <2>3, <2>4, <3>1 DEF AttemptsOf
  <2>6. ASSUME NEW f \in Events, f # e PROVE AttemptsOf(f)'
    <3>1. status'[f] = status[f] /\ attempts'[f] = attempts[f] /\ replays'[f] = replays[f]
      BY <1>0, <2>1, <2>6 DEF TypeOK
    <3> QED
      BY <1>0, <2>3, <2>4, <2>6, <3>1 DEF AttemptsOf
  <2>7. ReadyHasNoClaim'
    BY <1>0, <2>1 DEF ReadyHasNoClaim, TypeOK
  <2> QED
    BY <2>5, <2>6, <2>7
<1>6. ASSUME NEW p \in Publishers, SelectBatch(p) \/ SendTask(p) \/ \E e \in Events : SkipEvent(p, e)
      PROVE  ReadyHasNoClaim' /\ \A f \in Events : AttemptsOf(f)'
  <2>1. /\ UNCHANGED <<status, attempts, replays, claim, crashes>>
        /\ \A q \in Publishers : stage'[q] = "ready" => stage[q] = "ready"
    BY <1>0, <1>6 DEF SelectBatch, SendTask, BrokerAccepts, BrokerAcceptsThenRaises, BrokerRejects, SkipEvent, rowVars,
       histVars, TypeOK
  <2> QED
    BY <1>0, <1>2, <2>1 DEF ReadyHasNoClaim
<1>7. ASSUME NEW p \in Publishers, MarkPublished(p) \/ ReleaseForRetry(p)
      PROVE  ReadyHasNoClaim' /\ \A f \in Events : AttemptsOf(f)'
  <2>1. /\ UNCHANGED <<attempts, replays, crashes>> /\ stage' = [stage EXCEPT ![p] = "ready"]
        /\ claim' = [claim EXCEPT ![p] = NoEvent] /\ claim[p] \in Events
    BY <1>0, <1>7 DEF MarkPublished, ReleaseForRetry, Return, histVars, TypeOK
  <2>2. \A n : Extra(n)' = Extra(n)
    BY <2>1 DEF Extra
  <2>3. \A f \in Events : f # claim[p] => InFlight(f)' = InFlight(f) /\ status'[f] = status[f]
    <3>1. \A f \in Events : f # claim[p] => InFlight(f)' = InFlight(f)
      BY <1>0, <2>1, OneLessInFlight
    <3> QED
      BY <1>0, <1>7, <3>1 DEF MarkPublished, ReleaseForRetry, TypeOK
  <2>4. PICK e \in Events : e = claim[p]
    BY <2>1
  <2>5. AttemptsOf(e)'
    <3>1. \/ status[e] # "publishing" /\ status'[e] = status[e]
          \/ status'[e] = "published"
          \/ status[e] = "publishing" /\ status'[e] = "dead_letter"
          \/ status'[e] = "pending" /\ attempts[e] < MaxAttempts
      BY <1>0, <1>7, <2>4 DEF MarkPublished, ReleaseForRetry, TypeOK
    <3> QED
      BY <1>0, <1>1, <2>1, <2>2, <3>1 DEF AttemptsOf
  <2>6. ASSUME NEW f \in Events, f # e PROVE AttemptsOf(f)'
    BY <1>0, <2>1, <2>2, <2>3, <2>4, <2>6 DEF AttemptsOf
  <2>7. ReadyHasNoClaim'
    BY <1>0, <2>1 DEF ReadyHasNoClaim, TypeOK
  <2> QED
    BY <2>5, <2>6, <2>7
<1>8. ASSUME NEW p \in Publishers, Crash(p)
      PROVE  ReadyHasNoClaim' /\ \A f \in Events : AttemptsOf(f)'
  <2>1. /\ UNCHANGED <<status, attempts, replays>> /\ crashes' = crashes + 1
        /\ stage' = [stage EXCEPT ![p] = "ready"] /\ claim' = [claim EXCEPT ![p] = NoEvent]
    BY <1>8 DEF Crash, rowVars
  <2>2. \A n \in Nat : Extra(n)' = Extra(n) + 1
    <3>1. \A m, c \in Nat : m * c \in Nat
      OBVIOUS
    <3> QED
      BY <1>1, <2>1, <3>1 DEF Extra
  <2>3. ASSUME NEW f \in Events PROVE AttemptsOf(f)'
    <3>1. Cardinality(InFlight(f)) <= Cardinality(InFlight(f))' + 1 /\ Cardinality(InFlight(f))' \in Nat
      BY <1>0, <2>1, OneLessInFlight
    <3>2. PICK n \in Nat : n = replays[f]
      BY <1>1
    <3>3. Extra(n)' = Extra(n) + 1 /\ Extra(n + 1)' = Extra(n + 1) + 1
      BY <2>2
    <3> QED
      BY <1>0, <1>1, <2>1, <3>1, <3>2, <3>3 DEF AttemptsOf
  <2>4. ReadyHasNoClaim'
    BY <1>0, <2>1 DEF ReadyHasNoClaim, TypeOK
  <2> QED
    BY <2>3, <2>4
<1>9. CASE UNCHANGED vars
  <2>1. UNCHANGED <<status, attempts, replays, claim, crashes, stage>>
    BY <1>9 DEF vars
  <2> QED
    BY <1>0, <1>2, <2>1 DEF ReadyHasNoClaim
<1> QED
  BY <1>3, <1>4, <1>5, <1>6, <1>7, <1>8, <1>9 DEF Next

\* OUTBOX_MAX_ATTEMPTS bounds the attempts at a row, but for publishers that are
\* still out, crashes and operators' replays (_claim_event, _release_for_retry).
THEOREM AttemptsAreBounded == Spec => []RetriesAreBounded
<1>1. Init => RetryInv
  <2>1. Init => TypeOK
    BY DEF Init, TypeOK, Statuses, Stages
  <2> QED
    BY <2>1 DEF Init, RetryInv, ReadyHasNoClaim, AttemptsOf
<1>2. RetryInv => RetriesAreBounded
  <2> SUFFICES ASSUME RetryInv, NEW e \in Events, status[e] \in {"pending", "publishing"}
               PROVE  attempts[e] < MaxAttempts + Cardinality(InFlight(e)) + crashes
                                    + replays[e] * Cardinality(Publishers)
    BY DEF RetriesAreBounded
  <2>1. /\ attempts[e] \in Nat /\ replays[e] \in Nat /\ Cardinality(Publishers) \in Nat /\ crashes \in Nat
        /\ Cardinality(InFlight(e)) \in Nat /\ MaxAttempts \in Nat
    BY InFlightIsCounted, FS_CardinalityType, PublishersAssumption DEF RetryInv, TypeOK
  <2>2. replays[e] * Cardinality(Publishers) \in Nat
    <3>1. \A m, c \in Nat : m * c \in Nat
      OBVIOUS
    <3> QED
      BY <2>1, <3>1
  <2>3. attempts[e] < MaxAttempts + Cardinality(InFlight(e)) + (replays[e] * Cardinality(Publishers) + crashes)
    BY <2>1, <2>2 DEF RetryInv, AttemptsOf, Extra
  <2> QED
    BY <2>1, <2>2, <2>3
<1> QED
  BY <1>1, <1>2, RetryStep, TypeCorrect, PTL DEF Spec

-----------------------------------------------------------------------------
(* Refinement: every step of the outbox is a step of AtLeastOnce or        *)
(* changes neither a row's phase nor the accepted copies.                  *)

\* A step that moves event e alone, from one status to another.
LEMMA PhaseOfOneEvent ==
    ASSUME NEW e \in Events, status \in [Events -> Statuses], NEW s \in Statuses,
           status' = [status EXCEPT ![e] = s]
    PROVE  [f \in Events |-> Phase(f)]' =
             [[f \in Events |-> Phase(f)] EXCEPT ![e] = Phase(e)']
  BY DEF Phase, Statuses

\* services.py implements at-least-once delivery.
THEOREM OutboxDeliversAtLeastOnce == Spec => DeliversAtLeastOnce
<1>1. Init => Promise!AInit
  BY DEF Init, Promise!AInit, Phase
<1>2. DeliveryInv /\ [Next]_vars => [Promise!ANext]_Promise!avars
  <2> SUFFICES ASSUME DeliveryInv, [Next]_vars
               PROVE  Promise!ANext \/ UNCHANGED Promise!avars
    OBVIOUS
  <2>0. TypeOK /\ SentWasAccepted /\ ClaimsAreCommitted /\ PublishedWasAccepted
    BY DEF DeliveryInv
  <2> USE <2>0 DEF TypeOK, Statuses, Stages, rowVars, pubVars, histVars
  <2> DEFINE phases == [f \in Events |-> Phase(f)]
  <2>1. ASSUME NEW e \in Events, EnqueueTask(e) PROVE Promise!Request(e)
    <3>1. status[e] = "absent" /\ status' = [status EXCEPT ![e] = "pending"]
      BY <2>1 DEF EnqueueTask
    <3>2. phases' = [phases EXCEPT ![e] = "outstanding"] /\ phases[e] = "absent"
      BY <3>1, PhaseOfOneEvent DEF Phase
    <3> QED
      BY <2>1, <3>2 DEF EnqueueTask, Promise!Request
  <2>2. ASSUME NEW e \in Events, BackoffElapses(e) \/ LeaseElapses(e)
        PROVE  UNCHANGED Promise!avars
    BY <2>2 DEF BackoffElapses, LeaseElapses, Promise!avars, Phase
  <2>3. ASSUME NEW e \in Events, RequeueDeadLetter(e) PROVE Promise!Revive(e)
    <3>1. status[e] = "dead_letter" /\ status' = [status EXCEPT ![e] = "pending"]
      BY <2>3 DEF RequeueDeadLetter
    <3>2. phases' = [phases EXCEPT ![e] = "outstanding"] /\ phases[e] = "abandoned"
      BY <3>1, PhaseOfOneEvent DEF Phase
    <3> QED
      BY <2>3, <3>2 DEF RequeueDeadLetter, Promise!Revive
  <2>4. CASE PurgePublished
    <3>1. PICK old \in SUBSET {e \in Events : status[e] = "published"} :
             /\ status' = [e \in Events |-> IF e \in old THEN "purged" ELSE status[e]]
             /\ UNCHANGED accepted
      BY <2>4 DEF PurgePublished
    <3>2. \A e \in old : phases[e] = "settled"
      BY DEF Phase
    <3>3. phases' = [e \in Events |-> IF e \in old THEN "forgotten" ELSE phases[e]]
      BY <3>1 DEF Phase
    <3>4. Promise!Forget(old)
      BY <3>1, <3>2, <3>3 DEF Promise!Forget
    <3> QED
      BY <3>4 DEF Promise!ANext
  <2>5. ASSUME NEW p \in Publishers, NEW e \in Events, ClaimEvent(p, e)
        PROVE  UNCHANGED Promise!avars
    <3>1. /\ status[e] \in {"pending", "publishing"}
          /\ status' = [status EXCEPT ![e] = "publishing"]
      BY <2>5 DEF ClaimEvent, Dispatchable
    <3>2. phases' = phases
      BY <3>1 DEF Phase
    <3> QED
      BY <2>5, <3>2 DEF ClaimEvent, Promise!avars
  <2>6. ASSUME NEW p \in Publishers,
               \/ SelectBatch(p) \/ Crash(p) \/ BrokerRejects(p)
               \/ \E e \in Events : SkipEvent(p, e)
        PROVE  UNCHANGED Promise!avars
    BY <2>6 DEF SelectBatch, Crash, BrokerRejects, SkipEvent, Promise!avars, Phase
  <2>7. ASSUME NEW p \in Publishers, BrokerAccepts(p) \/ BrokerAcceptsThenRaises(p)
        PROVE  Promise!ANext \/ UNCHANGED Promise!avars
    <3>1. /\ claim[p] \in Events
          /\ accepted' = [accepted EXCEPT ![claim[p]] = @ + 1]
          /\ phases' = phases
      BY <2>7 DEF BrokerAccepts, BrokerAcceptsThenRaises, Phase
    <3>2. status[claim[p]] # "absent"
      BY <2>7 DEF BrokerAccepts, BrokerAcceptsThenRaises, ClaimsAreCommitted
    <3>3. phases[claim[p]] # "absent"
      BY <3>1, <3>2 DEF Phase
    <3>4. Promise!Deliver(claim[p])
      BY <3>1, <3>3 DEF Promise!Deliver
    <3> QED
      BY <3>1, <3>4 DEF Promise!ANext
  <2>8. ASSUME NEW p \in Publishers, MarkPublished(p)
        PROVE  Promise!ANext \/ UNCHANGED Promise!avars
    <3>1. PICK e \in Events : e = claim[p]
      BY <2>8 DEF MarkPublished
    <3>2. accepted[e] > 0 /\ UNCHANGED accepted
      BY <2>8, <3>1 DEF MarkPublished, SentWasAccepted
    <3>3. CASE status[e] = "publishing"
      <4>1. status' = [status EXCEPT ![e] = "published"]
        BY <2>8, <3>1, <3>3 DEF MarkPublished
      <4>2. phases[e] = "outstanding" /\ Phase(e)' = "settled"
        BY <3>3, <4>1 DEF Phase
      <4>3. phases' = [phases EXCEPT ![e] = "settled"]
        BY <4>1, <4>2, PhaseOfOneEvent
      <4>4. Promise!Settle(e)
        BY <3>2, <4>2, <4>3 DEF Promise!Settle
      <4> QED
        BY <4>4 DEF Promise!ANext
    <3>4. CASE status[e] # "publishing"
      BY <2>8, <3>1, <3>2, <3>4 DEF MarkPublished, Promise!avars, Phase
    <3> QED
      BY <3>3, <3>4
  <2>9. ASSUME NEW p \in Publishers, ReleaseForRetry(p)
        PROVE  Promise!ANext \/ UNCHANGED Promise!avars
    <3>1. PICK e \in Events : e = claim[p]
      BY <2>9 DEF ReleaseForRetry
    <3>2. CASE status[e] = "publishing" /\ status' = [status EXCEPT ![e] = "dead_letter"]
      <4>1. phases[e] = "outstanding" /\ Phase(e)' = "abandoned"
        BY <3>2 DEF Phase
      <4>2. phases' = [phases EXCEPT ![e] = "abandoned"]
        BY <3>2, <4>1, PhaseOfOneEvent
      <4>3. Promise!Abandon(e)
        BY <2>9, <4>1, <4>2 DEF ReleaseForRetry, Promise!Abandon
      <4> QED
        BY <4>3 DEF Promise!ANext
    <3>3. CASE status[e] = "publishing" /\ status' = [status EXCEPT ![e] = "pending"]
      BY <2>9, <3>3 DEF ReleaseForRetry, Promise!avars, Phase
    <3>4. CASE UNCHANGED status
      BY <2>9, <3>4 DEF ReleaseForRetry, Promise!avars, Phase
    <3> QED
      BY <2>9, <3>1, <3>2, <3>3, <3>4 DEF ReleaseForRetry
  <2>10. CASE UNCHANGED vars
    BY <2>10 DEF vars, Promise!avars, Phase
  <2> QED
    BY <2>1, <2>2, <2>3, <2>4, <2>5, <2>6, <2>7, <2>8, <2>9, <2>10
    DEF Next, SendTask, Promise!ANext
<1> QED
  BY <1>1, <1>2, DeliveryInvariant, PTL DEF Spec, DeliversAtLeastOnce, Promise!ASpec

=============================================================================
