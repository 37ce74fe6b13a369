---------------------------- MODULE ChildHandler ----------------------------
(***************************************************************************)
(* Labs/L4/starter code/chldhandler.c: main forks NUMBER children and      *)
(* counts them, the SIGCHLD handler reaps them and counts them down.       *)
(* The handler interrupts main between any two of its steps; main loads    *)
(* and stores the volatile count, so that a decrement in between is lost.  *)
(* SIGUSR2, which the handler sends its own process and whose handler is   *)
(* empty, is not kept.                                                     *)
(***************************************************************************)
EXTENDS Integers

CONSTANTS NUMBER   \* children (5 in the code)

VARIABLES
  chmain,       \* where main is
  handling,     \* the SIGCHLD handler runs on top of main
  forked, tmp,  \* the loop index i; the count main has loaded
  nprocesses,
  running, zombies,   \* children that run, and that ended and were not reaped
  pending       \* a SIGCHLD waits to be delivered

chvars == <<chmain, handling, forked, tmp, nprocesses, running, zombies, pending>>

CHInit ==
  /\ chmain = "fork" /\ handling = FALSE /\ forked = 0 /\ tmp = 0 /\ nprocesses = 0
  /\ running = 0 /\ zombies = 0 /\ pending = FALSE

MainAt(l) == chmain = l /\ ~handling

Fork ==
  /\ MainAt("fork")
  /\ \/ forked < NUMBER /\ chmain' = "load" /\ running' = running + 1
     \/ chmain' = "test" /\ UNCHANGED running
  /\ UNCHANGED <<handling, forked, tmp, nprocesses, zombies, pending>>
Load ==
  /\ MainAt("load") /\ chmain' = "store" /\ tmp' = nprocesses
  /\ UNCHANGED <<handling, forked, nprocesses, running, zombies, pending>>
Store ==
  /\ MainAt("store") /\ chmain' = "fork" /\ nprocesses' = tmp + 1 /\ forked' = forked + 1
  /\ UNCHANGED <<handling, tmp, running, zombies, pending>>
(* Mutant: main does not wait for the last child. *)
TestShort ==
  /\ MainAt("test") /\ chmain' = IF nprocesses > 1 THEN "pause" ELSE "ended"
  /\ UNCHANGED <<handling, forked, tmp, nprocesses, running, zombies, pending>>
Test ==
  /\ MainAt("test") /\ chmain' = IF nprocesses > 0 THEN "pause" ELSE "ended"
  /\ UNCHANGED <<handling, forked, tmp, nprocesses, running, zombies, pending>>
\* pause sleeps until a handler has run; one that ran before it does not count.
Pause ==
  /\ MainAt("pause") /\ chmain' = "asleep"
  /\ UNCHANGED <<handling, forked, tmp, nprocesses, running, zombies, pending>>

\* A child ends, or its exec fails.
Exit ==
  /\ running > 0 /\ running' = running - 1 /\ zombies' = zombies + 1 /\ pending' = TRUE
  /\ UNCHANGED <<chmain, handling, forked, tmp, nprocesses>>

Deliver ==
  /\ pending /\ ~handling /\ chmain # "ended"
  /\ pending' = FALSE /\ handling' = TRUE
  /\ UNCHANGED <<chmain, forked, tmp, nprocesses, running, zombies>>
\* One turn of the handler's loop, or its end; its return ends a pause.
onchld ==
  /\ handling
  /\ IF zombies > 0
     THEN zombies' = zombies - 1 /\ nprocesses' = nprocesses - 1 /\ UNCHANGED <<chmain, handling>>
     ELSE /\ handling' = FALSE
          /\ chmain' = IF chmain = "asleep" THEN "test" ELSE chmain
          /\ UNCHANGED <<zombies, nprocesses>>
  /\ UNCHANGED <<forked, tmp, running, pending>>

\* main may sleep for ever: a decrement was lost, or the last SIGCHLD came between
\* its test and its pause.
CHOver ==
  /\ chmain = "ended" \/ (chmain = "asleep" /\ running = 0 /\ ~handling /\ ~pending)
  /\ UNCHANGED chvars

CHNext == Fork \/ Load \/ Store \/ Test \/ Pause \/ Exit \/ Deliver \/ onchld \/ CHOver

CHSpec == CHInit /\ [][CHNext]_chvars

-----------------------------------------------------------------------------
(* What the program must get right. *)

\* The count may be too high, never too low: when main ends no child is left.
EndsReaped == chmain = "ended" => running + zombies = 0
=============================================================================
