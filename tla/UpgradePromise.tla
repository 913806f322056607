--------------------------- MODULE UpgradePromise ---------------------------
(***************************************************************************)
(* What the operator promises the user of one DBUpgrade, which may be      *)
(* deleted and created again, without Jobs, pods, caches, conflicts or     *)
(* crashes: each migration is of something the user asked for and is       *)
(* started once, and "done" is said of what was migrated and, as long as   *)
(* no migration was started beside another one, of a database that holds   *)
(* what is wanted now and that nothing migrates any more.                  *)
(***************************************************************************)
EXTENDS Naturals

CONSTANTS
    Specs,
    None,      \* not one of them
    InTurn     \* TRUE where no migration is ever started beside another one

VARIABLES
    wanted,    \* <<incarnation, generation, spec>> the user wants last
    requests,  \* every one that the user ever wanted
    running,   \* the migrations that may be running: <<incarnation, spec>>
    records,   \* the migrations the operator has a record of
    started,   \* <<incarnation, generation>> for which a migration was started
    completed, \* the migrations known to have been completed
    database,  \* the last migration that was completed
    overlapped,\* some migration was started beside another one
    done       \* the user was told that the database is as wanted

promise == <<wanted, requests, running, records, started, completed, database, overlapped,
             done>>

\* Nothing is wanted in generation 0 of an incarnation.
Unwanted == wanted[2] = 0

Init ==
    /\ wanted = <<0, 0, None>> /\ requests = {}
    /\ running = {} /\ records = {} /\ started = {} /\ completed = {}
    /\ database = <<0, None>> /\ overlapped = FALSE /\ done = FALSE

\* The user wants another spec, in a generation of its own, or in the first one of a
\* new incarnation; or nothing any more.
Ask(s) ==
    /\ wanted' = IF Unwanted THEN <<wanted[1] + 1, 1, s>> ELSE <<wanted[1], wanted[2] + 1, s>>
    /\ requests' = requests \cup {wanted'}
    /\ done' = FALSE
    /\ UNCHANGED <<running, records, started, completed, database, overlapped>>

Withdraw ==
    /\ wanted' = <<wanted[1], 0, None>> /\ done' = FALSE
    /\ UNCHANGED <<requests, running, records, started, completed, database, overlapped>>

\* As long as anything is wanted in the incarnation, never of a generation that had its
\* migration; after the user was told that all is done, at most of the same again.
MayStart(r) ==
    r[1] = wanted[1] /\ ~Unwanted =>
        <<r[1], r[2]>> \notin started /\ (done => ~InTurn /\ r = wanted)

\* Beside another one: while one may be running, or is on record for this incarnation.
Start(r) ==
    /\ MayStart(r)
    /\ overlapped' = (overlapped \/ running # {} \/ \E m \in records : m[1] = r[1])
    /\ InTurn => ~overlapped'
    /\ running' = running \cup {<<r[1], r[3]>>} /\ records' = records \cup {<<r[1], r[3]>>}
    /\ started' = started \cup {<<r[1], r[2]>>}
    /\ UNCHANGED <<wanted, requests, completed, database, done>>

\* It may go unnoticed, and a copy of it may run on.
Finish(m) ==
    /\ database' = m /\ running' \in {running, running \ {m}}
    /\ completed' \in {completed, completed \cup {m}}
    /\ UNCHANGED <<wanted, requests, records, started, overlapped, done>>

\* Migrations fail, run out of time, or are deleted; records are.
Abort ==
    /\ running' \in SUBSET running /\ records' \in SUBSET records
    /\ UNCHANGED <<wanted, requests, started, completed, database, overlapped, done>>

Tell ==
    /\ ~Unwanted /\ <<wanted[1], wanted[3]>> \in completed
    /\ ~overlapped => running = {} /\ database = <<wanted[1], wanted[3]>>
    /\ done' = TRUE
    /\ UNCHANGED <<wanted, requests, running, records, started, completed, database,
                   overlapped>>

Retract ==
    /\ done' = FALSE
    /\ UNCHANGED <<wanted, requests, running, records, started, completed, database,
                   overlapped>>

Next ==
    \/ \E s \in Specs : Ask(s)
    \/ \E r \in requests : Start(r)
    \/ \E m \in running : Finish(m)
    \/ Withdraw \/ Abort \/ Tell \/ Retract

Spec == Init /\ [][Next]_promise

=============================================================================
