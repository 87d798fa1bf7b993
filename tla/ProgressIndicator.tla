------------------------- MODULE ProgressIndicator -------------------------
(***************************************************************************)
(* The animated progress bar of the policy test suite (progress.go).  The  *)
(* test loop starts it before a test case and stops it afterwards; the     *)
(* rate limiter pauses and resumes it around its own output, from a        *)
(* goroutine the test loop waits for.  So the calls come one at a time,    *)
(* and only the animation goroutines run beside them.                      *)
(*                                                                         *)
(* Start and Resume make a pair of channels, stop and done, numbered here  *)
(* by the animation they are made for; 0 is nil.  What is drawn, and the   *)
(* time, are left out.                                                     *)
(***************************************************************************)
EXTENDS Naturals

CONSTANTS Tests,   \* test cases of the model's section (bound)
          Pauses   \* rate limit waits in one test case (bound)

VARIABLES
    isTTY,
    channels,  \* p.stop and p.done: the pair in place, 0 if nil
    running,
    made,      \* number of pairs made so far
    stopped,   \* pairs whose stop channel is closed
    done,      \* pairs whose done channel is closed
    animation, \* state of each animation goroutine
    captured,  \* the pair each of them works with
    control,   \* what the test loop or the rate limiter is doing
    halting,   \* the pair haltAnimation waits for
    test, pauses

fields == <<channels, running, made>>
goroutines == <<animation, captured>>
counters == <<test, pauses>>
vars == <<isTTY, fields, stopped, done, goroutines, control, halting, counters>>

Animations == 1 .. Tests * (Pauses + 1)

Init ==
    /\ isTTY \in BOOLEAN
    /\ channels = 0 /\ running = FALSE /\ made = 0
    /\ stopped = {} /\ done = {}
    /\ animation = [a \in Animations |-> "none"]
    /\ captured = [a \in Animations |-> 0]
    /\ control = "between" /\ halting = 0
    /\ test = 0 /\ pauses = 0
-----------------------------------------------------------------------------
(* Calls.  Each names the place control comes from and the one it goes to. *)

\* A new pair of channels and `go p.animate()`.
Launch ==
    /\ made' = made + 1
    /\ channels' = made'
    /\ animation' = [animation EXCEPT ![made'] = "launched"]

Start ==
    /\ control = "between" /\ test < Tests
    /\ test' = test + 1 /\ pauses' = 0
    /\ control' = "testing"
    /\ IF isTTY THEN Launch /\ running' = TRUE ELSE UNCHANGED <<fields, animation>>
    /\ UNCHANGED <<isTTY, stopped, done, captured, halting>>

\* haltAnimation: the pair is taken out under the lock and its stop channel
\* closed; control then waits for the done channel.
haltAnimation(then) ==
    IF channels = 0
    THEN control' = then /\ UNCHANGED <<channels, stopped, halting>>
    ELSE /\ halting' = channels
         /\ channels' = 0
         /\ stopped' = stopped \cup {channels}
         /\ control' = IF then = "paused" THEN "pausing" ELSE "stopping"

Pause ==
    /\ control = "testing" /\ pauses < Pauses
    /\ pauses' = pauses + 1
    /\ haltAnimation("paused")
    /\ UNCHANGED <<isTTY, running, made, done, goroutines, test>>

Stop ==
    /\ control = "testing"
    /\ haltAnimation("halted")
    /\ UNCHANGED <<isTTY, running, made, done, goroutines, counters>>

\* <-done
HaltReturns ==
    /\ control \in {"pausing", "stopping"} /\ halting \in done
    /\ control' = IF control = "pausing" THEN "paused" ELSE "halted"
    /\ halting' = 0
    /\ UNCHANGED <<isTTY, fields, stopped, done, goroutines, counters>>

\* The rest of Stop, and the output of the result.
Stopped ==
    /\ control = "halted"
    /\ running' = FALSE
    /\ control' = "between"
    /\ UNCHANGED <<isTTY, channels, made, stopped, done, goroutines, halting, counters>>

Resume ==
    /\ control = "paused"
    /\ control' = "testing"
    /\ IF running /\ isTTY /\ channels = 0 THEN Launch ELSE UNCHANGED <<channels, made, animation>>
    /\ UNCHANGED <<isTTY, running, stopped, done, captured, halting, counters>>
-----------------------------------------------------------------------------
(* animate. *)

\* The goroutine is scheduled for the first time and reads the channels.
Capture(a) ==
    /\ animation[a] = "launched"
    /\ animation' = [animation EXCEPT ![a] = "drawing"]
    /\ captured' = [captured EXCEPT ![a] = channels]
    /\ UNCHANGED <<isTTY, fields, stopped, done, control, halting, counters>>

\* The stop channel it captured is closed: it clears the line and returns.  A
\* nil channel is never ready.
Finish(a) ==
    /\ animation[a] = "drawing" /\ captured[a] \in stopped
    /\ animation' = [animation EXCEPT ![a] = "ended"]
    /\ done' = done \cup {captured[a]}
    /\ UNCHANGED <<isTTY, fields, stopped, captured, control, halting, counters>>
-----------------------------------------------------------------------------
Control == Start \/ Pause \/ Stop \/ HaltReturns \/ Stopped \/ Resume
Animate(a) == Capture(a) \/ Finish(a)

Next == Control \/ \E a \in Animations : Animate(a)

\* The scheduler runs every goroutine that is ready.
Spec == Init /\ [][Next]_vars /\ WF_vars(Control) /\ \A a \in Animations : WF_vars(Animate(a))
-----------------------------------------------------------------------------
\* Stop and Pause return once the animation they halt has ended: the goroutine
\* captures its channels under the lock "so the goroutine never races on struct
\* fields that Pause/Resume/Stop may modify".  They do not: a goroutine that is
\* scheduled only after haltAnimation took the channels out captures nil, is
\* never told to stop, and never closes the channel haltAnimation waits for.
StopReturns == control \in {"pausing", "stopping"} ~> control \in {"paused", "halted"}
=============================================================================
