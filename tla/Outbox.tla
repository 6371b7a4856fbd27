------------------------------- MODULE Outbox -------------------------------
(***************************************************************************)
(* The transactional outbox of backend/apps/outbox/services.py.            *)
(*                                                                         *)
(* A row of OutboxEvent is committed with the business row it belongs to.  *)
(* Publishers (the `publish_outbox --loop` process, and every web or       *)
(* worker process that publishes right after its commit) claim a row in    *)
(* one transaction, call the broker outside any transaction, and record    *)
(* the outcome in a second transaction.  Every @transaction.atomic         *)
(* function is one action; between two of them a publisher may be          *)
(* overtaken or may crash.                                                 *)
(*                                                                         *)
(* Time is abstract: `due` holds the events whose available_at has passed, *)
(* `leaseOver` those whose locked_until has.  A transaction that meets a   *)
(* locked row skips it (skip_locked); every writer of the row leaves it    *)
(* undispatchable or finds it so, hence the skip is the same as coming     *)
(* right after (or before) that writer and needs no action of its own.     *)
(***************************************************************************)
EXTENDS Integers, FiniteSets

CONSTANTS
    Events,       \* deduplication keys; each is requested at most once
    Publishers,   \* processes that publish
    NoEvent,      \* the claim of a publisher that has none
    MaxAttempts,  \* settings.OUTBOX_MAX_ATTEMPTS
    Limit,        \* publish_pending_events(limit=...)
    MaxCrashes,   \* bound: publisher crashes in a behaviour
    MaxReplays    \* bound: operator replays per event

ASSUME MaxAttemptsAssumption == MaxAttempts \in Nat \ {0}
ASSUME LimitAssumption == Limit \in Nat \ {0}
ASSUME NoEventAssumption == NoEvent \notin Events
ASSUME PublishersAssumption == IsFiniteSet(Publishers)

VARIABLES
    status,     \* status[e]: OutboxEvent.status, "absent" before and "purged" after the row
    attempts,   \* attempts[e]: attempt_count
    replays,    \* replays[e]: replay_count
    due,        \* events with available_at <= now
    leaseOver,  \* events with locked_until <= now
    stage,      \* stage[p]: where publisher p is inside publish_event
    claim,      \* claim[p]: the event p has claimed
    batch,      \* batch[p]: ids still to visit in publish_pending_events
    accepted,   \* accepted[e]: copies the broker has taken (history)
    crashes     \* number of crashes so far (bound)

rowVars == <<status, attempts, replays, due, leaseOver>>
pubVars == <<stage, claim, batch>>
histVars == <<accepted, crashes>>
vars == <<status, attempts, replays, due, leaseOver, stage, claim, batch,
          accepted, crashes>>

Statuses == {"absent", "pending", "publishing", "published", "dead_letter", "purged"}
Stages == {"ready", "claimed", "accepted", "raised"}

Init ==
    /\ status = [e \in Events |-> "absent"]
    /\ attempts = [e \in Events |-> 0]
    /\ replays = [e \in Events |-> 0]
    /\ due = {}
    /\ leaseOver = {}
    /\ stage = [p \in Publishers |-> "ready"]
    /\ claim = [p \in Publishers |-> NoEvent]
    /\ batch = [p \in Publishers |-> {}]
    /\ accepted = [e \in Events |-> 0]
    /\ crashes = 0

-----------------------------------------------------------------------------
(* Rows and time *)

\* Mutant: an expired lease is not dispatchable again.
DispatchablePendingOnly(e) == status[e] = "pending" /\ e \in due

\* _dispatchable(now)
Dispatchable(e) ==
    \/ status[e] = "pending" /\ e \in due
    \/ status[e] = "publishing" /\ e \in leaseOver

\* enqueue_task: the row is committed with available_at = now.
EnqueueTask(e) ==
    /\ status[e] = "absent"
    /\ status' = [status EXCEPT ![e] = "pending"]
    /\ due' = due \cup {e}
    /\ UNCHANGED <<attempts, replays, leaseOver, pubVars, histVars>>

\* The clock reaches available_at or locked_until.
BackoffElapses(e) ==
    /\ status[e] = "pending"
    /\ e \notin due
    /\ due' = due \cup {e}
    /\ UNCHANGED <<status, attempts, replays, leaseOver, pubVars, histVars>>

LeaseElapses(e) ==
    /\ status[e] = "publishing"
    /\ e \notin leaseOver
    /\ leaseOver' = leaseOver \cup {e}
    /\ UNCHANGED <<status, attempts, replays, due, pubVars, histVars>>

\* purge_published_events: one DELETE of the PUBLISHED rows past retention.
PurgePublished ==
    \E old \in SUBSET {e \in Events : status[e] = "published"} :
        /\ old # {}
        /\ status' = [e \in Events |-> IF e \in old THEN "purged" ELSE status[e]]
        /\ UNCHANGED <<attempts, replays, due, leaseOver, pubVars, histVars>>

\* _requeue_dead_letter: attempt_count keeps its value.
RequeueDeadLetter(e) ==
    /\ status[e] = "dead_letter"
    /\ replays[e] < MaxReplays
    /\ status' = [status EXCEPT ![e] = "pending"]
    /\ replays' = [replays EXCEPT ![e] = @ + 1]
    /\ due' = due \cup {e}
    /\ leaseOver' = leaseOver \ {e}
    /\ UNCHANGED <<attempts, pubVars, histVars>>

-----------------------------------------------------------------------------
(* publish_pending_events and publish_event *)

\* The loop reads the ids of a batch without a lock.
SelectBatch(p) ==
    LET found == {e \in Events : Dispatchable(e)} IN
    /\ stage[p] = "ready"
    /\ batch[p] = {}
    /\ \E ids \in SUBSET found :
        /\ ids # {}
        /\ IF Cardinality(found) <= Limit THEN ids = found
                                          ELSE Cardinality(ids) = Limit
        /\ batch' = [batch EXCEPT ![p] = ids]
    /\ UNCHANGED <<rowVars, stage, claim, histVars>>

\* publish_event is called for the next id of a batch, or directly by
\* publish_event_after_commit, which knows the id of a committed row.
Visits(p, e) ==
    /\ stage[p] = "ready"
    /\ e \in batch[p] \/ batch[p] = {}

\* _claim_event, row found
ClaimEvent(p, e) ==
    /\ Visits(p, e)
    /\ Dispatchable(e)
    /\ status' = [status EXCEPT ![e] = "publishing"]
    /\ attempts' = [attempts EXCEPT ![e] = @ + 1]
    /\ leaseOver' = leaseOver \ {e}
    /\ stage' = [stage EXCEPT ![p] = "claimed"]
    /\ claim' = [claim EXCEPT ![p] = e]
    /\ batch' = [batch EXCEPT ![p] = @ \ {e}]
    /\ UNCHANGED <<replays, due, histVars>>

\* _claim_event returns None: the listed row is no longer dispatchable.
SkipEvent(p, e) ==
    /\ stage[p] = "ready"
    /\ e \in batch[p]
    /\ ~Dispatchable(e)
    /\ batch' = [batch EXCEPT ![p] = @ \ {e}]
    /\ UNCHANGED <<rowVars, stage, claim, histVars>>

\* current_app.send_task: the broker takes the message and the call returns,
\* the broker takes it but the call raises, or it is not taken at all.
BrokerAccepts(p) ==
    /\ stage[p] = "claimed"
    /\ accepted' = [accepted EXCEPT ![claim[p]] = @ + 1]
    /\ stage' = [stage EXCEPT ![p] = "accepted"]
    /\ UNCHANGED <<rowVars, claim, batch, crashes>>

BrokerAcceptsThenRaises(p) ==
    /\ stage[p] = "claimed"
    /\ accepted' = [accepted EXCEPT ![claim[p]] = @ + 1]
    /\ stage' = [stage EXCEPT ![p] = "raised"]
    /\ UNCHANGED <<rowVars, claim, batch, crashes>>

\* Mutant: the exception handler falls through to _mark_published.
RejectionSwallowed(p) ==
    /\ stage[p] = "claimed"
    /\ stage' = [stage EXCEPT ![p] = "accepted"]
    /\ UNCHANGED <<rowVars, claim, batch, accepted, crashes>>

BrokerRejects(p) ==
    /\ stage[p] = "claimed"
    /\ stage' = [stage EXCEPT ![p] = "raised"]
    /\ UNCHANGED <<rowVars, claim, batch, accepted, crashes>>

\* Mutant: the claim is dropped, the control state is not reset.
ReturnKeepsStage(p) ==
    /\ claim' = [claim EXCEPT ![p] = NoEvent]
    /\ UNCHANGED <<stage, batch>>

\* publish_event returns.  `.get(pk=...)` on a purged row raises DoesNotExist,
\* which ends the loop's iteration: the rest of the batch is dropped.
Return(p) ==
    /\ stage' = [stage EXCEPT ![p] = "ready"]
    /\ claim' = [claim EXCEPT ![p] = NoEvent]
    /\ batch' = [batch EXCEPT ![p] = IF status[claim[p]] = "purged" THEN {} ELSE @]

\* Mutant: no status check under the row lock.
MarkPublishedUnguarded(p) ==
    /\ stage[p] = "accepted"
    /\ status' = [status EXCEPT ![claim[p]] = "published"]
    /\ leaseOver' = leaseOver \ {claim[p]}
    /\ Return(p)
    /\ UNCHANGED <<attempts, replays, due, histVars>>

\* Mutant: save() without update_fields inserts a row that was purged meanwhile.
MarkPublishedInserts(p) ==
    LET e == claim[p] IN
    /\ stage[p] = "accepted"
    /\ IF status[e] \in {"publishing", "purged"}
         THEN /\ status' = [status EXCEPT ![e] = "published"]
              /\ leaseOver' = leaseOver \ {e}
         ELSE UNCHANGED <<status, leaseOver>>
    /\ Return(p)
    /\ UNCHANGED <<attempts, replays, due, histVars>>

\* _mark_published: only a PUBLISHING row is changed, whoever claimed it last.
MarkPublished(p) ==
    LET e == claim[p] IN
    /\ stage[p] = "accepted"
    /\ IF status[e] = "publishing"
         THEN /\ status' = [status EXCEPT ![e] = "published"]
              /\ leaseOver' = leaseOver \ {e}
         ELSE UNCHANGED <<status, leaseOver>>
    /\ Return(p)
    /\ UNCHANGED <<attempts, replays, due, histVars>>

\* Mutant: `>` for `>=`, one attempt too many.
ReleaseOffByOne(p) ==
    LET e == claim[p] IN
    /\ stage[p] = "raised"
    /\ status' = [status EXCEPT ![e] = IF @ # "publishing" THEN @
                                       ELSE IF attempts[e] > MaxAttempts THEN "dead_letter"
                                       ELSE "pending"]
    /\ due' = due \ {e}
    /\ leaseOver' = leaseOver \ {e}
    /\ Return(p)
    /\ UNCHANGED <<attempts, replays, histVars>>

\* _release_for_retry
ReleaseForRetry(p) ==
    LET e == claim[p] IN
    /\ stage[p] = "raised"
    /\ \/ /\ status[e] # "publishing"
          /\ UNCHANGED <<status, due, leaseOver>>
       \/ /\ status[e] = "publishing"
          /\ attempts[e] >= MaxAttempts
          /\ status' = [status EXCEPT ![e] = "dead_letter"]
          /\ leaseOver' = leaseOver \ {e}
          /\ UNCHANGED due
       \/ /\ status[e] = "publishing"
          /\ attempts[e] < MaxAttempts
          /\ status' = [status EXCEPT ![e] = "pending"]
          /\ due' = due \ {e}
          /\ leaseOver' = leaseOver \ {e}
    /\ Return(p)
    /\ UNCHANGED <<attempts, replays, histVars>>

\* The process dies, or loses its database connection, between two
\* transactions; its batch and its claim die with it, the rows stay.
Crash(p) ==
    /\ crashes < MaxCrashes
    /\ stage[p] # "ready" \/ batch[p] # {}
    /\ crashes' = crashes + 1
    /\ stage' = [stage EXCEPT ![p] = "ready"]
    /\ claim' = [claim EXCEPT ![p] = NoEvent]
    /\ batch' = [batch EXCEPT ![p] = {}]
    /\ UNCHANGED <<rowVars, accepted>>

SendTask(p) == BrokerAccepts(p) \/ BrokerAcceptsThenRaises(p) \/ BrokerRejects(p)

Next ==
    \/ \E e \in Events :
        EnqueueTask(e) \/ BackoffElapses(e) \/ LeaseElapses(e) \/ RequeueDeadLetter(e)
    \/ PurgePublished
    \/ \E p \in Publishers, e \in Events : ClaimEvent(p, e) \/ SkipEvent(p, e)
    \/ \E p \in Publishers :
        \/ SelectBatch(p)
        \/ SendTask(p)
        \/ MarkPublished(p)
        \/ ReleaseForRetry(p)
        \/ Crash(p)

Spec == Init /\ [][Next]_vars

(* Leases and backoffs run out, and one process keeps running the loop:    *)
(* `publish_outbox --loop` sleeps `interval` seconds and starts again      *)
(* (publish_outbox.py:33-74), whatever happened before.                    *)
Fairness ==
    /\ \A e \in Events : WF_vars(BackoffElapses(e)) /\ WF_vars(LeaseElapses(e))
    /\ \A p \in Publishers :
        /\ WF_vars(SelectBatch(p))
        /\ WF_vars(\E e \in Events : ClaimEvent(p, e) \/ SkipEvent(p, e))
        /\ WF_vars(SendTask(p))
        /\ WF_vars(MarkPublished(p) \/ ReleaseForRetry(p))

FairSpec == Spec /\ Fairness

-----------------------------------------------------------------------------
(* Properties *)

TypeOK ==
    /\ status \in [Events -> Statuses]
    /\ attempts \in [Events -> Nat]
    /\ replays \in [Events -> Nat]
    /\ due \subseteq Events
    /\ leaseOver \subseteq Events
    /\ stage \in [Publishers -> Stages]
    /\ claim \in [Publishers -> Events \cup {NoEvent}]
    /\ \A p \in Publishers : stage[p] # "ready" => claim[p] \in Events
    /\ batch \in [Publishers -> SUBSET Events]
    /\ accepted \in [Events -> Nat]
    /\ crashes \in Nat

\* No row is recorded as delivered, or deleted as delivered, unless the broker
\* has taken a copy: with crashes, lost replies and publishers that work on
\* after their lease (services.py publish_event, _mark_published, purge).
PublishedWasAccepted ==
    \A e \in Events : status[e] \in {"published", "purged"} => accepted[e] > 0

\* A row that left PUBLISHING for good is never brought back by a publisher
\* that still works on an expired lease: delivered rows never return to the
\* queue, and dead letters return only through an operator's replay.
SettledStaysSettled ==
    [][\A e \in Events :
        /\ status[e] = "published" => status'[e] \in {"published", "purged"}
        /\ status[e] = "dead_letter" =>
             \/ status'[e] = "dead_letter"
             \/ status'[e] = "pending" /\ replays'[e] = replays[e] + 1]_vars

InFlight(e) == {p \in Publishers : claim[p] = e}

\* OUTBOX_MAX_ATTEMPTS bounds the retries: beyond it a row is attempted again
\* only because a claimant is still out, crashed, or an operator replayed it.
RetriesAreBounded ==
    \A e \in Events :
        status[e] \in {"pending", "publishing"} =>
            attempts[e] < MaxAttempts + Cardinality(InFlight(e)) + crashes
                          + replays[e] * Cardinality(Publishers)

\* Every committed event is delivered or ends as a dead letter an operator
\* sees: no crash between two transactions strands a row.
NoEventStranded ==
    \A e \in Events :
        status[e] = "pending" ~> status[e] \in {"published", "purged", "dead_letter"}

\* The outbox implements at-least-once delivery.
Phase(e) ==
    CASE status[e] = "absent" -> "absent"
      [] status[e] \in {"pending", "publishing"} -> "outstanding"
      [] status[e] = "published" -> "settled"
      [] status[e] = "dead_letter" -> "abandoned"
      [] status[e] = "purged" -> "forgotten"

Promise == INSTANCE AtLeastOnce WITH
    Messages <- Events,
    phase <- [e \in Events |-> Phase(e)],
    copies <- accepted

DeliversAtLeastOnce == Promise!ASpec

=============================================================================
