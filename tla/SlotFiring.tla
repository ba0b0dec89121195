------------------------------ MODULE SlotFiring ------------------------------
(***************************************************************************)
(* What the scheduler promises, in the words of the comment in             *)
(* DiskMain::onTaskCheck: each slot runs at most once, and a slot that was *)
(* missed is skipped rather than resurrected.  A job is what its name      *)
(* says it is: the sidecar file keys the last run by name.                 *)
(***************************************************************************)
EXTENDS Integers, Sequences

CONSTANTS Names,   \* job names
          Ids,     \* the jobs that carry them
          Instants, \* the instants considered
          Grace    \* how long after its instant a slot may still be served

VARIABLES clock,   \* seconds since the epoch
          log      \* the scheduled launches, oldest first

SInit == clock \in Instants /\ log = << >>

\* A launch belongs to a slot whose grace window was open when the scheduler
\* looked, and it is the first one of that slot.
Fire(n, id, s, t) ==
  /\ t <= clock
  /\ \A i \in DOMAIN log : ~(log[i].name = n /\ log[i].slot = s)
  /\ log' = Append(log, [name |-> n, id |-> id, slot |-> s, at |-> t])
  /\ UNCHANGED clock

Pass == clock' = clock + 1 /\ UNCHANGED log

SNext == Pass \/ \E n \in Names, id \in Ids, s \in Instants :
                     \E t \in s..(s + Grace) : Fire(n, id, s, t)

SSpec == SInit /\ [][SNext]_<<clock, log>>
=============================================================================
