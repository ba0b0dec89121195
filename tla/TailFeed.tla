-------------------------------- MODULE TailFeed --------------------------------
(***************************************************************************)
(* What WsHub promises of the logTail messages among the "live updates" it *)
(* pushes: a reader of a growing log is fed its lines in order, each       *)
(* stretch from where the last one ended up to the newest line, with no    *)
(* line left out between.  The log may be truncated at any time, and what  *)
(* was not read by then is lost.                                           *)
(***************************************************************************)
EXTENDS Naturals, Sequences

VARIABLES log,  \* the last line logged
          gone, \* the last line truncated away
          at,   \* the last line the reader is past
          fed   \* the lines fed, oldest first

TInit == log \in Nat /\ gone = 0 /\ at = log /\ fed = <<>>

\* A truncated log that the reader has read nothing of may grow to where the
\* reader was: it cannot tell, and has skipped the head of the new log.
Skips == gone > 0 /\ at = gone

Log == /\ log' = log + 1
       /\ at' = at \/ (Skips /\ at' = log')
       /\ UNCHANGED <<gone, fed>>

Truncate == gone' = log /\ at' = log /\ UNCHANGED <<log, fed>>

\* The reader is fed everything it is not past.
Feed == /\ fed' = fed \o [i \in 1 .. log - at |-> at + i]
        /\ at' = log
        /\ UNCHANGED <<log, gone>>

TNext == Log \/ Truncate \/ Feed

TSpec == TInit /\ [][TNext]_<<log, gone, at, fed>>

=============================================================================
