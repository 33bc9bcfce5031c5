------------------------------ MODULE FeedGate ------------------------------
(* The sequence check of one instrument's feed (signals/safety/            *)
(* sequence_validator.py) and the feed circuit it trips (feed_circuit.py), *)
(* as institutional/pipeline.py ingests messages: every number the source  *)
(* sends may be lost, repeated or delivered late, the process may restart, *)
(* and the file that holds the last number may lag behind.                 *)
(*                                                                         *)
(* Left out: the window of remembered numbers is never full (5000), so the *)
(* OUT_OF_ORDER branch, whose numbers are always remembered as duplicates  *)
(* first, is not reached; messages without a number get an internal one    *)
(* and are never an anomaly.                                               *)
EXTENDS Naturals

CONSTANTS MaxSeq   \* bound: the highest number the source sends

ASSUME GateAssumption == MaxSeq \in Nat \ {0}

None == MaxSeq + 1

VARIABLES
    last,     \* _last_source_seq
    known,    \* _seen: the numbers remembered since the last start or reset
    file,     \* the last number as sequence_state.json has it
    health,   \* FeedState.health
    base,     \* history: where the unbroken part of the feed begins
    got       \* history: the numbers delivered since

gvars == <<last, known, file, health, base, got>>

Numbers == 1..MaxSeq

Anomaly(n) == n \in known \/ (last # None /\ n # last + 1 /\ n # last)

\* _persist_last: a failed write is logged and passed over.
Persisted(n) == file' \in {n, file}

\* check() with the circuit it trips.  The number after a start without a
\* file, the next one, and the last one itself where it is not remembered
\* (after a restart or a reset) pass; a gap moves the mark and trips, a
\* repeat or a step back trips.
IngestNumber(n) ==
    /\ got' = got \cup {n}
    /\ base' = IF base = None THEN n ELSE base
    /\ health' = IF Anomaly(n) THEN "FEED_DEGRADED" ELSE health
    /\ IF n \in known \/ (last # None /\ n < last)
       THEN UNCHANGED <<last, known, file>>
       ELSE /\ last' = n
            /\ known' = known \cup {n}
            /\ Persisted(n)

\* POST /feed/{id}/trip, /resync-request and /authoritative-snapshot.
Trip == /\ health' = "FEED_DEGRADED"
        /\ UNCHANGED <<last, known, file, base, got>>

RequestResync ==
    /\ health = "FEED_DEGRADED"
    /\ health' = "RECOVERING"
    /\ UNCHANGED <<last, known, file, base, got>>

\* A valid snapshot heals the feed and restarts the count at its number.
Snapshot(n) ==
    /\ health # "HEALTHY"
    /\ health' = "HEALTHY"
    /\ last' = n /\ known' = {} /\ Persisted(n)
    /\ base' = n /\ got' = {n}

SnapshotRejected ==
    /\ health # "HEALTHY"
    /\ health' = "FEED_DEGRADED"
    /\ UNCHANGED <<last, known, file, base, got>>

\* The file gives the last number back; the circuit comes up HEALTHY.  What
\* was lost while it was degraded is forgotten with it, and without a file
\* there is nothing to continue: the history starts over at that number.  So it
\* does where the file is ahead, after a reset to a lower number that was not
\* written.
History ==
    IF health = "HEALTHY" /\ file # None /\ file <= last THEN UNCHANGED <<base, got>>
    ELSE base' = file /\ got' = {file} \cap Numbers

\* Fault: the last number is not restored.
RestartBlank ==
    /\ last' = None /\ known' = {} /\ health' = "HEALTHY"
    /\ History
    /\ UNCHANGED file

Restart ==
    /\ last' = file /\ known' = {} /\ health' = "HEALTHY"
    /\ History
    /\ UNCHANGED file

GInit ==
    /\ last = None /\ known = {} /\ file = None /\ health = "HEALTHY"
    /\ base = None /\ got = {}

GNext ==
    \/ \E n \in Numbers : IngestNumber(n) \/ Snapshot(n)
    \/ Trip \/ RequestResync \/ SnapshotRejected
    \/ Restart

GSpec == GInit /\ [][GNext]_gvars

-----------------------------------------------------------------------------
(* Properties *)

GTypeOK ==
    /\ last \in Numbers \cup {None} /\ file \in Numbers \cup {None}
    /\ known \subseteq Numbers
    /\ health \in {"HEALTHY", "FEED_DEGRADED", "RECOVERING"}
    /\ base \in Numbers \cup {None} /\ got \subseteq Numbers

\* Nothing is lost in silence: while the feed counts as healthy, every number
\* from where its history begins to the last one was delivered, across
\* restarts, failed writes of the file, resyncs and late messages.
NoSilentLoss ==
    health = "HEALTHY" /\ last # None => \A n \in base..last : n \in got
=============================================================================
