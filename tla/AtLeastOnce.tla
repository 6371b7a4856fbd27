---------------------------- MODULE AtLeastOnce ----------------------------
(***************************************************************************)
(* What the transactional outbox promises its callers                      *)
(* (docs/OPERATIONS.md, "Reliable task delivery"): a requested message     *)
(* stays outstanding until the broker has accepted at least one copy of    *)
(* it, or until the outbox gives up on it; a message that was given up     *)
(* comes back only when an operator replays it.  Extra copies may reach    *)
(* the broker at any time after the request.  Outbox implements this.      *)
(***************************************************************************)
EXTENDS Naturals

CONSTANT Messages

VARIABLES
    phase,   \* phase[m]: how far message m has come
    copies   \* copies[m]: copies of m the broker has accepted

avars == <<phase, copies>>

AInit ==
    /\ phase = [m \in Messages |-> "absent"]
    /\ copies = [m \in Messages |-> 0]

\* A business transaction commits together with its message.
Request(m) ==
    /\ phase[m] = "absent"
    /\ phase' = [phase EXCEPT ![m] = "outstanding"]
    /\ UNCHANGED copies

\* The broker accepts one more copy, late ones included.
Deliver(m) ==
    /\ phase[m] # "absent"
    /\ copies' = [copies EXCEPT ![m] = @ + 1]
    /\ UNCHANGED phase

\* Only a delivered message may leave the outbox as done.
Settle(m) ==
    /\ phase[m] = "outstanding"
    /\ copies[m] > 0
    /\ phase' = [phase EXCEPT ![m] = "settled"]
    /\ UNCHANGED copies

Abandon(m) ==
    /\ phase[m] = "outstanding"
    /\ phase' = [phase EXCEPT ![m] = "abandoned"]
    /\ UNCHANGED copies

Revive(m) ==
    /\ phase[m] = "abandoned"
    /\ phase' = [phase EXCEPT ![m] = "outstanding"]
    /\ UNCHANGED copies

\* Delivery history is dropped in bulk.
Forget(S) ==
    /\ \A m \in S : phase[m] = "settled"
    /\ phase' = [m \in Messages |-> IF m \in S THEN "forgotten" ELSE phase[m]]
    /\ UNCHANGED copies

ANext ==
    \/ \E m \in Messages :
        Request(m) \/ Deliver(m) \/ Settle(m) \/ Abandon(m) \/ Revive(m)
    \/ \E S \in SUBSET Messages : Forget(S)

ASpec == AInit /\ [][ANext]_avars

=============================================================================
