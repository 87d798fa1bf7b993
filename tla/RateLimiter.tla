---------------------------- MODULE RateLimiter ----------------------------
(***************************************************************************)
(* The rate limiter of the policy test suite (ratelimiter.go) under the    *)
(* goroutines that use it: one per enabled policy of the test case being   *)
(* run, all calling the same provider (ai_executor.go).  Test cases run    *)
(* one after the other, and a case is evaluated again as a whole when its  *)
(* first error is transient, so the goroutines of one attempt have all     *)
(* ended before the next attempt starts.                                   *)
(*                                                                         *)
(* The maps of the limiter are keyed by provider; one provider is          *)
(* modelled.  One action is one critical section of the limiter's mutex or *)
(* one operation on its semaphore channel.  The clock appears as three     *)
(* events: the oldest recorded request leaves the one-minute window, a     *)
(* wait ends, and the deadline of the test case passes.  A window is its   *)
(* length: which request is the oldest does not matter.  A call is the     *)
(* provider client's Generate (ai_provider_openai.go and its siblings),    *)
(* with the repeated requests of ai_provider_retry.go.                     *)
(***************************************************************************)
EXTENDS Naturals, FiniteSets

CONSTANTS Policies,    \* enabled policies of a test case: one goroutine each
          Limit,       \* configured requests per minute
          MaxScaling,  \* MaxScalingAttempts: calls one evaluation may make
          RetryMax,    \* retryMaxAttempts: requests a call may repeat
          Retries,     \* execution.retries
          Tests        \* number of test cases (bound)

ASSUME LimiterAssumption ==
    /\ IsFiniteSet(Policies) /\ Policies # {}
    /\ Limit \in Nat \ {0}
    /\ MaxScaling \in Nat \ {0}
    /\ RetryMax \in Nat
    /\ Retries \in Nat
    /\ Tests \in Nat \ {0}

VARIABLES
    waitOnLimit,  \* --wait
    autoScale,    \* the provider's max_tokens are scaled up on truncation
    stopped,      \* providerStopped
    waiting,      \* providerWaiting: somebody waits the limit out
    sequential,   \* providerSequential
    sem,          \* the semaphore channel holds its token
    learned,      \* learnedLimits.RequestsLimit, 0 if none
    recent,       \* length of providerRequests within the window
    waitOver,     \* the request the window wait is for has left the window
    pc, err, calls,  \* per goroutine: place, error, calls to the provider
    tries,        \* per goroutine: requests its call has repeated
    asleep,       \* goroutines in cond.Wait
    expired,      \* the deadline of the test case has passed
    test,         \* test case being run
    attempt,      \* retry of that test case
    firstErr,     \* first error among the results received
    began         \* the limiter's modes when the attempt began

limiter == <<stopped, waiting, sequential, sem, learned, recent, waitOver, asleep>>
options == <<waitOnLimit, autoScale>>
counters == <<calls, tries>>
loop == <<test, attempt, began>>
vars == <<options, limiter, pc, err, counters, expired, firstErr, loop>>

\* Places of a goroutine.
Waits == {"wait", "wait429"}
Sleeps == {"asleep", "asleep429"}
Broadcasts == {"wokeAll", "broadcast"}
Places == {"enter", "acquire", "admit", "delay", "flight", "handle429", "release", "sent",
           "idle"} \cup Waits \cup Sleeps \cup Broadcasts

\* What callAIProvider returns.  limited: rate_limited, not retryable; again:
\* rate_limited, retryable; plain: an error that is no AIProviderError.
Errors == {"ok", "limited", "again", "transient", "permanent", "plain"}
Retryable == {"again", "transient"}

Goto(p, place) == pc' = [pc EXCEPT ![p] = place]
Fail(p, e) == err' = [err EXCEPT ![p] = e]

\* The goroutine ends: its result is received on resultChan, the first error
\* is kept.
Send(p, e) ==
    /\ Goto(p, "sent")
    /\ Fail(p, "ok")
    /\ calls' = [calls EXCEPT ![p] = 0] /\ UNCHANGED tries
    /\ firstErr' = IF firstErr = "ok" THEN e ELSE firstErr

Init ==
    /\ waitOnLimit \in BOOLEAN /\ autoScale \in BOOLEAN
    /\ stopped = FALSE /\ waiting = FALSE /\ sequential = FALSE /\ sem = FALSE
    /\ learned = 0 /\ recent = 0 /\ waitOver = FALSE
    /\ pc = [p \in Policies |-> "enter"]
    /\ err = [p \in Policies |-> "ok"]
    /\ calls = [p \in Policies |-> 0]
    /\ tries = [p \in Policies |-> 0]
    /\ asleep = {}
    /\ expired = FALSE
    /\ test = 1 /\ attempt = 0 /\ firstErr = "ok"
    /\ began = [stopped |-> FALSE, sequential |-> FALSE]
-----------------------------------------------------------------------------
(* WaitBeforeRequest. *)

\* Mutant: the mode is not looked at, nobody takes the slot.
EnterWithoutSlot(p) ==
    /\ pc[p] = "enter"
    /\ Goto(p, "admit")
    /\ UNCHANGED <<options, limiter, err, counters, expired, firstErr, loop>>

\* isSequentialMode decides whether the slot is taken at all.
Enter(p) ==
    /\ pc[p] = "enter"
    /\ Goto(p, IF sequential THEN "acquire" ELSE "admit")
    /\ UNCHANGED <<options, limiter, err, counters, expired, firstErr, loop>>

Acquire(p) ==
    /\ pc[p] = "acquire"
    /\ ~sem
    /\ sem' = TRUE
    /\ Goto(p, "admit")
    /\ UNCHANGED <<options, stopped, waiting, sequential, learned, recent, waitOver,
                   asleep, err, counters, expired, firstErr, loop>>

\* The deadline passes while the slot is taken: the call ends without it.
AcquireExpires(p) ==
    /\ pc[p] = "acquire"
    /\ expired
    /\ Send(p, "limited")
    /\ UNCHANGED <<options, limiter, expired, loop>>

\* The provider's own limit, where it is lower than the configured one.
EffectiveLimit == IF learned > 0 /\ learned < Limit THEN learned ELSE Limit

GiveUp(p, e) ==
    /\ Fail(p, e)
    /\ Goto(p, "release")
    /\ UNCHANGED limiter

\* cond.Wait: from here until the next Broadcast.
FallAsleep(p, place) ==
    /\ Goto(p, place)
    /\ asleep' = asleep \cup {p}
    /\ UNCHANGED <<stopped, waiting, sequential, sem, learned, recent, waitOver, err>>

BecomeWaiter(p, place) ==
    /\ waiting' = TRUE
    /\ waitOver' = FALSE
    /\ Goto(p, place)
    /\ UNCHANGED <<stopped, sequential, sem, learned, recent, asleep, err>>

StopProvider(p, e) ==
    /\ stopped' = TRUE
    /\ Fail(p, e)
    /\ Goto(p, "broadcast")
    /\ UNCHANGED <<waiting, sequential, sem, learned, recent, waitOver, asleep>>

\* Mutant: the limit is compared with > instead of >=.
CheckWindowOffByOne(p) ==
    \/ recent > EffectiveLimit /\ ~waitOnLimit /\ StopProvider(p, "limited")
    \/ recent > EffectiveLimit /\ waitOnLimit /\ BecomeWaiter(p, "wait")
    \/ recent <= EffectiveLimit /\ Goto(p, "delay") /\ UNCHANGED <<limiter, err>>

\* Nobody else is waiting: the window decides.
CheckWindow(p) ==
    \/ recent >= EffectiveLimit /\ ~waitOnLimit /\ StopProvider(p, "limited")
    \/ recent >= EffectiveLimit /\ waitOnLimit /\ BecomeWaiter(p, "wait")
    \/ recent < EffectiveLimit /\ Goto(p, "delay") /\ UNCHANGED <<limiter, err>>

\* Mutant: only the wait looks at the stopped flag, the entry does not.
AdmitStopped(p) ==
    /\ pc[p] = "admit"
    /\ \/ waiting /\ FallAsleep(p, "asleep")
       \/ ~waiting /\ CheckWindow(p)
    /\ UNCHANGED <<options, counters, expired, firstErr, loop>>

\* The critical section of WaitBeforeRequest, entered for the first time ...
Admit(p) ==
    /\ pc[p] = "admit"
    /\ \/ stopped /\ GiveUp(p, "limited")
       \/ ~stopped /\ waiting /\ FallAsleep(p, "asleep")
       \/ ~stopped /\ ~waiting /\ CheckWindow(p)
    /\ UNCHANGED <<options, counters, expired, firstErr, loop>>

\* ... and again after every Broadcast.
Wake(p) ==
    /\ pc[p] = "asleep" /\ p \notin asleep
    /\ \/ (expired \/ stopped) /\ GiveUp(p, "limited")
       \/ ~expired /\ ~stopped /\ waiting /\ FallAsleep(p, "asleep")
       \/ ~expired /\ ~stopped /\ ~waiting /\ CheckWindow(p)
    /\ UNCHANGED <<options, counters, expired, firstErr, loop>>

\* The minimum delay between requests, if there is one, and then the call.
Delay(p) ==
    /\ pc[p] = "delay"
    /\ \/ Goto(p, "flight") /\ UNCHANGED err
       \/ expired /\ Fail(p, "limited") /\ Goto(p, "release")
    /\ UNCHANGED <<options, limiter, counters, expired, firstErr, loop>>

\* Mutant: a wait that was cut short leaves the flag set.
WaiterForgetsFlag(p, ok) ==
    /\ waiting' = (waiting /\ ~ok)
    /\ sequential' = (sequential \/ ok)
    /\ UNCHANGED <<stopped, sem, learned, recent, waitOver, asleep>>

\* After a wait, in time or cut short.
WaitEnded(p, ok) ==
    /\ waiting' = FALSE
    /\ sequential' = (sequential \/ ok)
    /\ UNCHANGED <<stopped, sem, learned, recent, waitOver, asleep>>

\* waitWithProgress until the oldest request has left the window, or the
\* deadline.  The waiter does not look at the window again.
WaitForWindow(p) ==
    /\ pc[p] = "wait"
    /\ \/ waitOver /\ WaitEnded(p, TRUE) /\ Goto(p, "wokeAll") /\ UNCHANGED err
       \/ expired /\ WaitEnded(p, FALSE) /\ Fail(p, "limited") /\ Goto(p, "broadcast")
    /\ UNCHANGED <<options, counters, expired, firstErr, loop>>

\* cond.Broadcast, after the mutex was released.
WakeAll(p) ==
    /\ pc[p] \in Broadcasts
    /\ asleep' = {}
    /\ Goto(p, IF pc[p] = "wokeAll" THEN "flight" ELSE "release")
    /\ UNCHANGED <<options, stopped, waiting, sequential, sem, learned, recent, waitOver,
                   err, counters, expired, firstErr, loop>>
-----------------------------------------------------------------------------
(* The call, and Handle429WithInfo. *)

\* A call is recorded when it has ended, and a reply may carry the provider's
\* limit.
Record(limit) ==
    /\ recent' = recent + 1
    /\ learned' = IF limit > 0 THEN limit ELSE learned
    /\ UNCHANGED <<stopped, waiting, sequential, sem, waitOver, asleep>>

\* What one HTTP request comes to: an answer, one cut short by max_tokens, or
\* an error.  unusable: an answer that does not parse or is empty, reported
\* without a status code; otherServer: a 5xx that is not on the list of codes.
doGenerate == {"answer", "truncated", "tooMany", "server", "otherServer", "network",
               "unusable", "refused"}

\* The error of retryOperation goes by status code, or by there being none ...
isRetryable(o) == o \in {"tooMany", "server", "network", "unusable"}

\* ... and the category of the error by its own rules.
normalizeError(o) == IF o \in {"server", "otherServer", "network"} THEN "transient" ELSE "permanent"

\* retryOperation repeats the request after a delay.  The limiter is not told,
\* and the slot, if there is one, is kept.
retryOperation(p) ==
    /\ pc[p] = "flight"
    /\ tries[p] < RetryMax /\ ~expired
    /\ \E o \in doGenerate : isRetryable(o)
    /\ tries' = [tries EXCEPT ![p] = @ + 1]
    /\ UNCHANGED <<options, limiter, pc, err, calls, expired, firstErr, loop>>

\* The provider's limit in the headers of a reply: 0 if there is none.
parseRateLimitHeaders == 0 .. Limit

\* The call returns: an answer, with the headers (asked for again with more
\* tokens when it was cut short, at most MaxScaling times), or the error of the
\* last request, without them, or the timeout of the call.
Reply(p) ==
    /\ pc[p] = "flight"
    /\ calls' = [calls EXCEPT ![p] = @ + 1]
    /\ tries' = [tries EXCEPT ![p] = 0]
    /\ \/ \E o \in doGenerate :
             /\ isRetryable(o) => tries[p] = RetryMax
             /\ CASE o \in {"answer", "truncated"} ->
                       /\ \E limit \in parseRateLimitHeaders : Record(limit)
                       /\ IF o = "truncated" /\ autoScale /\ calls[p] + 1 < MaxScaling
                          THEN UNCHANGED pc ELSE Goto(p, "release")
                       /\ UNCHANGED err
                  [] o = "tooMany" -> Record(0) /\ Goto(p, "handle429") /\ UNCHANGED err
                  [] OTHER -> Record(0) /\ Fail(p, normalizeError(o)) /\ Goto(p, "release")
       \/ Record(0) /\ Fail(p, "plain") /\ Goto(p, "release")
    /\ UNCHANGED <<options, expired, firstErr, loop>>

Handle429(p) ==
    /\ pc[p] = "handle429"
    /\ \/ ~waitOnLimit /\ StopProvider(p, "plain")
       \/ waitOnLimit /\ waiting /\ FallAsleep(p, "asleep429")
       \/ waitOnLimit /\ ~waiting /\ BecomeWaiter(p, "wait429")
    /\ UNCHANGED <<options, counters, expired, firstErr, loop>>

\* When the other waiter succeeded the request is to be retried.
Wake429(p) ==
    /\ pc[p] = "asleep429" /\ p \notin asleep
    /\ \/ (expired \/ stopped) /\ GiveUp(p, "plain")
       \/ ~expired /\ ~stopped /\ sequential /\ GiveUp(p, "again")
       \/ ~expired /\ ~stopped /\ ~sequential /\ waiting /\ FallAsleep(p, "asleep429")
       \/ ~expired /\ ~stopped /\ ~sequential /\ ~waiting /\ BecomeWaiter(p, "wait429")
    /\ UNCHANGED <<options, counters, expired, firstErr, loop>>

\* A minute has passed, or the deadline.  (The time the provider asked for, where
\* retryOperation would hand it on, is an end of the wait like any other.)
Wait429(p) ==
    /\ pc[p] = "wait429"
    /\ \/ WaitEnded(p, TRUE) /\ Fail(p, "again")
       \/ expired /\ WaitEnded(p, FALSE) /\ Fail(p, "plain")
    /\ Goto(p, "broadcast")
    /\ UNCHANGED <<options, counters, expired, firstErr, loop>>

\* releaseSequentialSlotIfNeeded: in sequential mode the token is drained,
\* whoever put it there.
ReleaseSequentialSlot(p) == IF sequential THEN sem' = FALSE ELSE UNCHANGED sem

\* Release the slot and send the result to evaluateRequestPolicies.
Return(p) ==
    /\ pc[p] = "release"
    /\ ReleaseSequentialSlot(p)
    /\ Send(p, err[p])
    /\ UNCHANGED <<options, stopped, waiting, sequential, learned, recent, waitOver,
                   asleep, expired, loop>>
-----------------------------------------------------------------------------
(* executeTest and ExecuteTests. *)

Collected == \A p \in Policies : pc[p] = "sent"

Launch ==
    /\ pc' = [p \in Policies |-> "enter"]
    /\ err' = [p \in Policies |-> "ok"]
    /\ calls' = [p \in Policies |-> 0] /\ UNCHANGED tries
    /\ firstErr' = "ok"
    /\ began' = [stopped |-> stopped, sequential |-> sequential]

\* Mutant: every error is retried, and the retries are not counted.
RetryAlways == firstErr # "ok"

MayRetry == firstErr \in Retryable /\ attempt < Retries

Retry ==
    /\ Collected /\ MayRetry
    /\ attempt' = attempt + 1
    /\ Launch
    /\ UNCHANGED <<options, limiter, expired, test>>

\* The type of the test's error: the deadline of the test comes first.
classifyError ==
    CASE firstErr = "ok" -> "decided"
      [] firstErr # "ok" /\ expired -> "test_timeout"
      [] ~expired /\ firstErr \in {"limited", "again"} -> "rate_limited"
      [] OTHER -> "errored"

\* After a rate_limited test the remaining cases are skipped.
EndTest ==
    /\ Collected /\ ~MayRetry
    /\ expired' = FALSE
    /\ IF classifyError = "rate_limited" \/ test = Tests
       THEN /\ pc' = [p \in Policies |-> "idle"]
            /\ UNCHANGED <<err, counters, firstErr, test, attempt, began>>
       ELSE Launch /\ test' = test + 1 /\ attempt' = 0
    /\ UNCHANGED <<options, limiter>>

Deadline ==
    /\ ~expired
    /\ \E p \in Policies : pc[p] # "idle"
    /\ expired' = TRUE
    /\ UNCHANGED <<options, limiter, pc, err, counters, firstErr, loop>>

\* The oldest recorded request is more than a minute old.
LeaveWindow ==
    /\ recent > 0
    /\ recent' = recent - 1
    /\ waitOver' = TRUE
    /\ UNCHANGED <<options, stopped, waiting, sequential, sem, learned, asleep, pc, err,
                   counters, expired, firstErr, loop>>
-----------------------------------------------------------------------------
Call(p) ==
    \/ Enter(p) \/ Acquire(p) \/ AcquireExpires(p) \/ Admit(p) \/ Wake(p) \/ Delay(p)
    \/ WaitForWindow(p) \/ WakeAll(p) \/ retryOperation(p) \/ Reply(p)
    \/ Handle429(p) \/ Wake429(p) \/ Wait429(p) \/ Return(p)

Next == (\E p \in Policies : Call(p)) \/ Retry \/ EndTest \/ Deadline \/ LeaveWindow

SafetySpec == Init /\ [][Next]_vars

\* Goroutines are scheduled, a call ends at the latest with its own timeout,
\* a wait ends when its timer fires, time passes.
Fairness ==
    /\ \A p \in Policies : WF_vars(Call(p))
    /\ WF_vars(Retry \/ EndTest) /\ WF_vars(Deadline) /\ WF_vars(LeaveWindow)

Spec == SafetySpec /\ Fairness
-----------------------------------------------------------------------------
(* Properties. *)

\* Every variable keeps its type.
TypeOK ==
    /\ waitOnLimit \in BOOLEAN /\ autoScale \in BOOLEAN
    /\ stopped \in BOOLEAN /\ waiting \in BOOLEAN /\ sequential \in BOOLEAN
    /\ sem \in BOOLEAN /\ waitOver \in BOOLEAN /\ expired \in BOOLEAN
    /\ learned \in 0 .. Limit
    /\ recent \in Nat
    /\ pc \in [Policies -> Places]
    /\ err \in [Policies -> Errors]
    /\ calls \in [Policies -> 0 .. MaxScaling]
    /\ tries \in [Policies -> 0 .. RetryMax]
    /\ asleep \in SUBSET Policies
    /\ test \in 1 .. Tests /\ attempt \in 0 .. Retries
    /\ firstErr \in Errors
    /\ began \in [stopped : BOOLEAN, sequential : BOOLEAN]

In(places) == {p \in Policies : pc[p] \in places}
InFlight == In({"flight"})

\* In an attempt that began in sequential mode one request at a time is in
\* flight.  (In the attempt in which the mode is switched on, goroutines
\* that came before the switch hold no slot.)  And every attempt returns the
\* slot: between two attempts it is free.
SequentialFromNextAttempt ==
    /\ began.sequential => Cardinality(InFlight) <= 1
    /\ Collected => ~sem

\* The check of the window and the recording of a request are two steps: the
\* goroutines of a test case can pass the check together, and one that waited
\* does not check again.  Still the window never holds more than one request
\* beyond the limit per other goroutine.  (Scaled calls are not limited at all:
\* only the first call of an evaluation goes through WaitBeforeRequest.  And a
\* call counts once, whatever the number of its requests.)
OvershootIsBounded ==
    ~autoScale => recent + Cardinality(InFlight) < Limit + Cardinality(Policies)

\* A provider that was stopped gets no further request from an attempt that
\* begins afterwards.  Such an attempt ends rate limited (the remaining cases
\* are skipped) or out of time: it is never taken for a verdict of the
\* policies or for an error of the provider, and never retried.
StoppedProviderIsLeftAlone ==
    began.stopped =>
        /\ InFlight = {}
        /\ Collected => /\ classifyError \in {"rate_limited", "test_timeout"}
                        /\ ~MayRetry

\* However the provider answers, the run ends: no goroutine waits for a slot
\* or a broadcast that never comes, and retries are bounded.
RunEnds == <>(\A p \in Policies : pc[p] = "idle")
=============================================================================
