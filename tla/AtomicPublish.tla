--------------------------- MODULE AtomicPublish ---------------------------
(***************************************************************************)
(* What the publication of a corpus's artifacts promises ("atomic          *)
(* replacement", docs/FORMAL_CORPUS_IMPORT.md:32 and the repair notice of  *)
(* apps/processing/index_health.py:300): a corpus has one committed        *)
(* version, which only a newer one replaces, and serves that version or,   *)
(* for a while, nothing.  The promise ends when a roll-back is itself      *)
(* broken off.  ArtifactPublish implements this.                           *)
(***************************************************************************)
EXTENDS Naturals

CONSTANT MaxVersion

VARIABLES
    committed, \* the version the corpus has, 0 before the first
    served,    \* the version a search finds, 0 when it finds none
    sound      \* no roll-back has been broken off

avars == <<committed, served, sound>>

AInit ==
    /\ committed \in 0..MaxVersion
    /\ served = committed
    /\ sound = TRUE

Replace ==
    /\ sound
    /\ committed' \in committed + 1 .. MaxVersion
    /\ served' = committed'
    /\ UNCHANGED sound

Hide ==
    /\ sound
    /\ served' = 0
    /\ UNCHANGED <<committed, sound>>

Show ==
    /\ sound
    /\ served' = committed
    /\ UNCHANGED <<committed, sound>>

\* Afterwards nothing is promised.
Break == sound' = FALSE

ANext == Replace \/ Hide \/ Show \/ Break

ASpec == AInit /\ [][ANext]_avars
=============================================================================
