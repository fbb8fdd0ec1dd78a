-------------------------------- MODULE Timer --------------------------------
(***************************************************************************)
(* A timer of the thread (Timer.cpp) as a record, its methods as operators *)
(* that take the timer before a call to the timer after it.                *)
(*                                                                         *)
(* started says whether it has a callback; due is the time until the       *)
(* message it posted reaches it, negative if the thread is late.  A timer  *)
(* has a message exactly while it has a callback: no callback of this      *)
(* program starts or stops the timer that runs it.                         *)
(***************************************************************************)
EXTENDS Integers

Timer == [started : BOOLEAN, singleShot : BOOLEAN, interval : Nat, due : Int]

\* The constructor.
Stopped == [started |-> FALSE, singleShot |-> FALSE, interval |-> 0, due |-> 0]

Start(interval) ==
  [started |-> TRUE, singleShot |-> FALSE, interval |-> interval, due |-> interval]

SingleShot(delay) ==
  [started |-> TRUE, singleShot |-> TRUE, interval |-> 0, due |-> delay]

Fires(t) == t.started /\ t.due <= 0

\* Mutant: every timer loses its callback.
OnMessageOnce(t) == [t EXCEPT !.started = FALSE]

\* OnMessage, after the callback: a single shot loses its callback, others
\* post the next message, an interval after this one was handled.
OnMessage(t) ==
  IF t.singleShot THEN [t EXCEPT !.started = FALSE]
                  ELSE [t EXCEPT !.due = t.interval]

\* One unit of time passes.
Elapse(t) == IF t.started THEN [t EXCEPT !.due = @ - 1] ELSE t

\* The thread handles a message at most late units after it was due.
InTime(t, late) == t.started => t.due > -late
=============================================================================
