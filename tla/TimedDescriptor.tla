-------------------------- MODULE TimedDescriptor --------------------------
(***************************************************************************)
(* What a timed connect() and the timed calls of a TLS connection share:   *)
(* the timeout they were given, the mode of the descriptor, which both     *)
(* change and have to put back, and the time left to wait.                 *)
(***************************************************************************)
EXTENDS Integers

CONSTANTS
  TimeoutArgs,   \* the arguments setTimeout() is called with
  Ticks          \* how often the clock ticks before a timer expires

ASSUME TimerConstants ==
  /\ TimeoutArgs \subseteq [secs : Nat, usecs : Nat]
  /\ Ticks \in Nat \ {0}

VARIABLES
  tmo,        \* the timeout last set
  nonblock,   \* O_NONBLOCK of the descriptor
  left        \* what is left of the running timer, in ticks

HasTimeout == tmo.secs > 0 \/ tmo.usecs > 0
Clock      == left > 0 /\ left' = left - 1
=============================================================================
