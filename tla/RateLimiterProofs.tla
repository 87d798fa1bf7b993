-------------------------- MODULE RateLimiterProofs --------------------------
(***************************************************************************)
(* Theorems about RateLimiter for any number of policies, any limit and    *)
(* any number of retries and tests.                                        *)
(*                                                                         *)
(* The limiter checks its window in one critical section and records a     *)
(* request in another, and the slot of the sequential mode is drained by   *)
(* whoever returns first.  The invariant says why neither does harm: the   *)
(* requests admitted and not yet recorded are counted together with the    *)
(* window (WindowBounded), and a token in the channel always has a         *)
(* goroutine that will drain it (SlotOwned).                               *)
(***************************************************************************)
EXTENDS RateLimiter, FiniteSetTheorems, TLAPS

USE DEF limiter, options, counters, loop

\* Between taking the slot, where it is taken, and returning it.
Inside == Places \ {"enter", "acquire", "sent", "idle"}

\* Before its first call has returned a goroutine has none to its account, and
\* a truncated answer is asked for again only below the maximum.
CallsCounted ==
    \A p \in Policies :
        /\ pc[p] \in {"enter", "acquire", "admit", "delay", "wait", "asleep", "wokeAll"}
              => calls[p] = 0
        /\ pc[p] = "flight" => calls[p] < MaxScaling

\* The token is in the channel only in sequential mode and while somebody is
\* inside who will drain it.
SlotOwned ==
    /\ \A p \in Policies : pc[p] = "acquire" => sequential
    /\ sem => sequential /\ In(Inside) # {}

\* In an attempt that began in sequential mode one goroutine is inside.
OneInside ==
    began.sequential =>
        /\ sequential
        /\ In(Inside) # {} => sem
        /\ \A p, q \in In(Inside) : p = q

\* One goroutine at a time waits a limit out, and the flag says so.
OneWaiter ==
    /\ In(Waits) # {} => waiting
    /\ \A p, q \in In(Waits) : p = q

\* Admitted requests that are not recorded yet.  The one that waits for the
\* window counts as soon as a request has left the window for it.
Pending == In({"delay", "flight", "wokeAll"} \cup (IF waitOver THEN {"wait"} ELSE {}))
WindowBounded ==
    ~autoScale => recent + Cardinality(Pending) < Limit + Cardinality(Policies)

\* After a stop an attempt goes nowhere near the provider, and every result it
\* has is that of the limit.
StopObeyed ==
    began.stopped =>
        /\ stopped
        /\ \A p \in Policies :
              /\ pc[p] \in {"enter", "acquire", "admit", "release", "sent", "idle"}
              /\ pc[p] = "release" => err[p] = "limited"
              /\ pc[p] = "sent" => firstErr = "limited"
        /\ firstErr \in {"ok", "limited"}

\* The inductive invariant.
IInv ==
    /\ TypeOK
    /\ CallsCounted /\ SlotOwned /\ OneInside /\ OneWaiter /\ WindowBounded /\ StopObeyed
-----------------------------------------------------------------------------
\* Sets of policies can be counted.
LEMMA Counted ==
    ASSUME NEW S \in SUBSET Policies
    PROVE  /\ IsFiniteSet(S) /\ Cardinality(S) \in Nat
           /\ \A T \in SUBSET S : Cardinality(T) \in Nat /\ Cardinality(T) <= Cardinality(S)
           /\ \A p \in S : Cardinality(S \ {p}) = Cardinality(S) - 1
           /\ \A p \in Policies \ S : /\ Cardinality(S \cup {p}) = Cardinality(S) + 1
                                      /\ Cardinality(S) + 1 <= Cardinality(Policies)
           /\ Cardinality(Policies) \in Nat \ {0} /\ Cardinality({}) = 0
  <1>1. /\ IsFiniteSet(S) /\ Cardinality(S) \in Nat
        /\ Cardinality(Policies) \in Nat /\ Cardinality(Policies) # 0
        /\ Cardinality({}) = 0
    BY LimiterAssumption, FS_Subset, FS_CardinalityType, FS_EmptySet
  <1>2. \A T \in SUBSET S : Cardinality(T) \in Nat /\ Cardinality(T) <= Cardinality(S)
    BY <1>1, FS_Subset, FS_CardinalityType
  <1>3. \A p \in S : Cardinality(S \ {p}) = Cardinality(S) - 1
    BY <1>1, FS_RemoveElement
  <1>4. \A p \in Policies \ S : Cardinality(S \cup {p}) = Cardinality(S) + 1
    BY <1>1, FS_AddElement
  <1>5. \A p \in Policies \ S : Cardinality(S) + 1 <= Cardinality(Policies)
    <2> SUFFICES ASSUME NEW p \in Policies \ S PROVE Cardinality(S) + 1 <= Cardinality(Policies)
      OBVIOUS
    <2>1. S \cup {p} \in SUBSET Policies
      OBVIOUS
    <2>2. Cardinality(S \cup {p}) <= Cardinality(Policies)
      BY <2>1, LimiterAssumption, FS_Subset
    <2> QED
      BY <1>4, <2>2
  <1> QED
    BY <1>1, <1>2, <1>3, <1>4, <1>5

\* Who is where after one goroutine has moved.
LEMMA Moved ==
    ASSUME IInv, NEW p \in Policies, NEW place \in Places, Goto(p, place)
    PROVE  /\ pc' \in [Policies -> Places] /\ pc'[p] = place
           /\ \A q \in Policies \ {p} : pc'[q] = pc[q]
           /\ In(Inside)' = IF place \in Inside THEN In(Inside) \cup {p} ELSE In(Inside) \ {p}
           /\ In(Waits)' = IF place \in Waits THEN In(Waits) \cup {p} ELSE In(Waits) \ {p}
           /\ waitOver' = waitOver =>
                 Pending' = IF place \in {"delay", "flight", "wokeAll"} \/ (waitOver /\ place = "wait")
                            THEN Pending \cup {p} ELSE Pending \ {p}
  <1>1. /\ pc' \in [Policies -> Places] /\ pc'[p] = place
        /\ \A q \in Policies \ {p} : pc'[q] = pc[q]
    BY DEF IInv, TypeOK, Goto
  <1>2. In(Inside)' = IF place \in Inside THEN In(Inside) \cup {p} ELSE In(Inside) \ {p}
    BY <1>1 DEF In
  <1>3. In(Waits)' = IF place \in Waits THEN In(Waits) \cup {p} ELSE In(Waits) \ {p}
    BY <1>1 DEF In
  <1>4. waitOver' = waitOver =>
           Pending' = IF place \in {"delay", "flight", "wokeAll"} \/ (waitOver /\ place = "wait")
                      THEN Pending \cup {p} ELSE Pending \ {p}
    BY <1>1 DEF Pending, In
  <1> QED
    BY <1>1, <1>2, <1>3, <1>4

\* The pending goroutines are policies, and one of them is where it is.
LEMMA PendingIs ==
    ASSUME IInv
    PROVE  /\ Pending \in SUBSET Policies /\ In(Inside) \in SUBSET Policies
           /\ In(Waits) \in SUBSET Policies
           /\ \A p \in Policies :
                 /\ p \in Pending <=> pc[p] \in {"delay", "flight", "wokeAll"}
                                      \/ (waitOver /\ pc[p] = "wait")
                 /\ p \in In(Inside) <=> pc[p] \in Inside
                 /\ p \in In(Waits) <=> pc[p] \in Waits
           /\ Cardinality(Pending) \in Nat /\ Cardinality(Policies) \in Nat \ {0}
  <1>1. /\ Pending \in SUBSET Policies /\ In(Inside) \in SUBSET Policies
        /\ In(Waits) \in SUBSET Policies
    BY DEF Pending, In
  <1>2. \A p \in Policies :
            /\ p \in Pending <=> pc[p] \in {"delay", "flight", "wokeAll"}
                                 \/ (waitOver /\ pc[p] = "wait")
            /\ p \in In(Inside) <=> pc[p] \in Inside
            /\ p \in In(Waits) <=> pc[p] \in Waits
    BY DEF Pending, In
  <1> QED
    BY <1>1, <1>2, Counted

\* The initial states satisfy the invariant.
LEMMA InitIInv == Init => IInv
  <1> SUFFICES ASSUME Init PROVE IInv
    OBVIOUS
  <1>1. TypeOK
    <2>1. "enter" \in Places /\ "ok" \in Errors
      BY DEF Places, Errors
    <2>2. began \in [stopped : BOOLEAN, sequential : BOOLEAN]
      BY DEF Init
    <2>3. /\ learned \in 0 .. Limit /\ recent \in Nat
          /\ test \in 1 .. Tests /\ attempt \in 0 .. Retries
      BY LimiterAssumption DEF Init
    <2>4. calls \in [Policies -> 0 .. MaxScaling] /\ tries \in [Policies -> 0 .. RetryMax]
      BY LimiterAssumption DEF Init
    <2>5. /\ pc \in [Policies -> Places] /\ err \in [Policies -> Errors]
          /\ asleep \in SUBSET Policies /\ firstErr \in Errors
      BY <2>1 DEF Init
    <2> QED
      BY <2>2, <2>3, <2>4, <2>5 DEF Init, TypeOK
  <1>2. CallsCounted /\ SlotOwned /\ OneInside /\ StopObeyed
    BY DEF Init, CallsCounted, SlotOwned, OneInside, StopObeyed
  <1>3. OneWaiter
    BY DEF Init, OneWaiter, In, Waits
  <1>4. WindowBounded
    <2>1. Pending = {}
      BY DEF Init, Pending, In
    <2> QED
      BY <2>1, Counted, LimiterAssumption DEF Init, WindowBounded
  <1> QED
    BY <1>1, <1>2, <1>3, <1>4 DEF IInv
-----------------------------------------------------------------------------
(* Steps by what they do to the limiter, whichever action takes them. *)

\* A goroutine moves on inside, neither as a waiter nor closer to a request.
LEMMA InsideStep ==
    ASSUME IInv, NEW p \in Policies, pc[p] \in Inside \ Waits,
           NEW place \in Inside \ Waits, Goto(p, place),
           place \in {"delay", "flight", "wokeAll"} => p \in Pending,
           UNCHANGED <<waiting, sequential, sem, recent, waitOver, options, expired, loop>>,
           TypeOK', CallsCounted', StopObeyed'
    PROVE  IInv'
  <1>1. place \in Places /\ place \notin {"wait", "acquire"}
    BY DEF Inside, Places, Waits
  <1>2. SlotOwned'
    BY <1>1, Moved DEF IInv, SlotOwned
  <1>3. In(Inside)' = In(Inside) /\ In(Waits)' = In(Waits)
    BY <1>1, Moved, PendingIs
  <1>4. OneInside' /\ OneWaiter'
    BY <1>3 DEF IInv, OneInside, OneWaiter
  <1>5. Pending' \in SUBSET Pending
    BY <1>1, Moved
  <1>6. WindowBounded'
    <2>1. Cardinality(Pending') \in Nat /\ Cardinality(Pending') <= Cardinality(Pending)
      BY <1>5, PendingIs, Counted
    <2>2. recent \in Nat /\ Limit \in Nat
      BY LimiterAssumption DEF IInv, TypeOK
    <2> QED
      BY <2>1, <2>2, PendingIs DEF IInv, WindowBounded
  <1> QED
    BY <1>2, <1>4, <1>6 DEF IInv

\* A goroutine starts to wait a limit out: nobody else does.
LEMMA BecomeWaiterStep ==
    ASSUME IInv, NEW p \in Policies, pc[p] \in Inside, ~waiting, NEW place \in Waits,
           BecomeWaiter(p, place), UNCHANGED <<options, counters, expired, firstErr, loop>>,
           place = "wait" => calls[p] = 0, ~began.stopped
    PROVE  IInv'
  <1>1. place \in Places /\ place \in Inside /\ In(Waits) = {} /\ p \in In(Inside)
    BY PendingIs DEF Places, Inside, Waits, IInv, OneWaiter
  <1>2. /\ Goto(p, place) /\ waiting' = TRUE /\ waitOver' = FALSE
        /\ UNCHANGED <<stopped, sequential, sem, learned, recent, asleep, err>>
    BY DEF BecomeWaiter
  <1>3. /\ pc' \in [Policies -> Places] /\ pc'[p] = place
        /\ \A q \in Policies \ {p} : pc'[q] = pc[q]
        /\ In(Inside)' = In(Inside) /\ In(Waits)' = {p}
    <2>1. /\ pc' \in [Policies -> Places] /\ pc'[p] = place
          /\ \A q \in Policies \ {p} : pc'[q] = pc[q]
          /\ In(Inside)' = In(Inside) \cup {p} /\ In(Waits)' = In(Waits) \cup {p}
      BY <1>1, <1>2, Moved
    <2> QED
      BY <1>1, <2>1
  <1>4. TypeOK'
    BY <1>2, <1>3 DEF IInv, TypeOK
  <1>5. CallsCounted'
    BY <1>3 DEF IInv, CallsCounted, Waits
  <1>6. SlotOwned'
    BY <1>2, <1>3 DEF IInv, SlotOwned, Waits
  <1>7. OneInside' /\ OneWaiter' /\ StopObeyed'
    BY <1>2, <1>3 DEF IInv, OneInside, OneWaiter, StopObeyed
  <1>8. WindowBounded'
    <2>1. Pending' \in SUBSET Pending
      BY <1>2, <1>3 DEF Pending, In, Waits
    <2>2. Cardinality(Pending') \in Nat /\ Cardinality(Pending') <= Cardinality(Pending)
      BY <2>1, PendingIs, Counted
    <2>3. recent \in Nat /\ Limit \in Nat
      BY LimiterAssumption DEF IInv, TypeOK
    <2> QED
      BY <1>2, <2>2, <2>3, PendingIs DEF IInv, WindowBounded
  <1> QED
    BY <1>4, <1>5, <1>6, <1>7, <1>8 DEF IInv

\* A wait ends, in time or cut short.
LEMMA WaitEndedStep ==
    ASSUME IInv, NEW p \in Policies, pc[p] \in Waits, NEW ok \in BOOLEAN, WaitEnded(p, ok),
           NEW place \in Broadcasts, Goto(p, place),
           place = "wokeAll" => pc[p] = "wait" /\ waitOver,
           err' \in [Policies -> Errors],
           UNCHANGED <<options, counters, expired, firstErr, loop>>
    PROVE  IInv'
  <1>1. /\ place \in Places /\ place \in Inside /\ place \notin Waits /\ place # "acquire"
        /\ p \in In(Inside) /\ p \in In(Waits) /\ In(Waits) = {p}
    BY PendingIs DEF Places, Inside, Waits, Broadcasts, IInv, OneWaiter
  <1>2. /\ waiting' = FALSE /\ sequential' = (sequential \/ ok)
        /\ UNCHANGED <<stopped, sem, learned, recent, waitOver, asleep>>
    BY DEF WaitEnded
  <1>3. /\ pc' \in [Policies -> Places] /\ pc'[p] = place
        /\ \A q \in Policies \ {p} : pc'[q] = pc[q]
        /\ In(Inside)' = In(Inside) /\ In(Waits)' = {}
    <2>1. /\ pc' \in [Policies -> Places] /\ pc'[p] = place
          /\ \A q \in Policies \ {p} : pc'[q] = pc[q]
          /\ In(Inside)' = In(Inside) \cup {p} /\ In(Waits)' = In(Waits) \ {p}
      BY <1>1, Moved
    <2> QED
      BY <1>1, <2>1
  <1>4. TypeOK'
    BY <1>2, <1>3 DEF IInv, TypeOK
  <1>5. CallsCounted'
    BY <1>3 DEF IInv, CallsCounted, Broadcasts
  <1>6. SlotOwned'
    BY <1>1, <1>2, <1>3 DEF IInv, SlotOwned
  <1>7. OneInside' /\ OneWaiter'
    BY <1>2, <1>3 DEF IInv, OneInside, OneWaiter
  <1>8. StopObeyed'
    BY DEF IInv, StopObeyed, Waits
  <1>9. WindowBounded'
    <2>1. Pending' \in SUBSET Pending
      BY <1>1, <1>2, Moved, PendingIs DEF Broadcasts
    <2>2. Cardinality(Pending') \in Nat /\ Cardinality(Pending') <= Cardinality(Pending)
      BY <2>1, PendingIs, Counted
    <2>3. recent \in Nat /\ Limit \in Nat
      BY LimiterAssumption DEF IInv, TypeOK
    <2> QED
      BY <1>2, <2>2, <2>3, PendingIs DEF IInv, WindowBounded
  <1> QED
    BY <1>4, <1>5, <1>6, <1>7, <1>8, <1>9 DEF IInv

\* The check of the window, by a goroutine that is not stopped: it stops the
\* provider, waits, or is admitted, and then it is pending.
LEMMA CheckWindowStep ==
    ASSUME IInv, NEW p \in Policies, pc[p] \in {"admit", "asleep"}, ~stopped, ~waiting,
           CheckWindow(p), UNCHANGED <<options, counters, expired, firstErr, loop>>
    PROVE  IInv'
  <1>1. pc[p] \in Inside \ Waits /\ calls[p] = 0 /\ ~began.stopped
    BY DEF Inside, Places, Waits, Sleeps, Broadcasts, IInv, CallsCounted, StopObeyed
  <1>2. CASE StopProvider(p, "limited")
    <2>1. "broadcast" \in Inside \ Waits /\ "broadcast" \in Places
      BY DEF Inside, Places, Waits, Broadcasts
    <2>2. /\ Goto(p, "broadcast") /\ stopped' = TRUE /\ err' = [err EXCEPT ![p] = "limited"]
          /\ UNCHANGED <<waiting, sequential, sem, learned, recent, waitOver, asleep>>
      BY <1>2 DEF StopProvider, Fail
    <2>3. TypeOK'
      BY <2>1, <2>2, Moved DEF IInv, TypeOK, Errors
    <2>4. CallsCounted' /\ StopObeyed'
      BY <1>1, <2>1, <2>2, Moved DEF IInv, CallsCounted, StopObeyed
    <2> QED
      BY <1>1, <2>1, <2>2, <2>3, <2>4, InsideStep
  <1>3. CASE BecomeWaiter(p, "wait")
    <2>1. "wait" \in Waits
      BY DEF Waits
    <2> QED
      BY <1>1, <1>3, <2>1, BecomeWaiterStep
  <1>4. CASE recent < EffectiveLimit /\ Goto(p, "delay") /\ UNCHANGED <<limiter, err>>
    <2>1. "delay" \in Inside /\ "delay" \in Places /\ "delay" \notin Waits
      BY DEF Inside, Places, Waits
    <2>2. p \in In(Inside) /\ p \notin In(Waits) /\ p \notin Pending
      BY <1>1, PendingIs
    <2>3. /\ pc' \in [Policies -> Places] /\ pc'[p] = "delay"
          /\ \A q \in Policies \ {p} : pc'[q] = pc[q]
          /\ In(Inside)' = In(Inside) /\ In(Waits)' = In(Waits) /\ Pending' = Pending \cup {p}
      BY <1>4, <2>1, <2>2, Moved
    <2>4. TypeOK'
      BY <1>4, <2>3 DEF IInv, TypeOK
    <2>5. CallsCounted' /\ StopObeyed'
      BY <1>1, <1>4, <2>3 DEF IInv, CallsCounted, StopObeyed
    <2>6. SlotOwned' /\ OneInside' /\ OneWaiter'
      BY <1>4, <2>3 DEF IInv, SlotOwned, OneInside, OneWaiter
    <2>7. WindowBounded'
      <3>1. /\ Cardinality(Pending') = Cardinality(Pending) + 1
            /\ Cardinality(Pending) + 1 <= Cardinality(Policies)
        BY <2>2, <2>3, PendingIs, Counted
      <3>2. recent \in Nat /\ Limit \in Nat /\ recent < Limit
        BY <1>4, LimiterAssumption DEF IInv, TypeOK, EffectiveLimit
      <3> QED
        BY <1>4, <3>1, <3>2, PendingIs DEF WindowBounded
    <2> QED
      BY <2>4, <2>5, <2>6, <2>7 DEF IInv
  <1> QED
    BY <1>2, <1>3, <1>4 DEF CheckWindow
-----------------------------------------------------------------------------
(* The actions of a goroutine. *)

\* Entering takes the slot in sequential mode, and only then.
LEMMA EnterStep ==
    ASSUME IInv, NEW p \in Policies, Enter(p)
    PROVE  IInv'
  <1>1. /\ pc[p] = "enter" /\ Goto(p, IF sequential THEN "acquire" ELSE "admit")
        /\ UNCHANGED <<options, limiter, err, counters, expired, firstErr, loop>>
    BY DEF Enter
  <1>2. CASE sequential
    <2>1. "acquire" \in Places /\ "acquire" \notin Inside /\ "acquire" \notin Waits
      BY DEF Places, Inside, Waits
    <2>2. p \notin In(Inside) /\ p \notin In(Waits) /\ p \notin Pending
      BY <1>1, PendingIs DEF Inside, Waits
    <2>3. /\ pc' \in [Policies -> Places] /\ pc'[p] = "acquire"
          /\ \A q \in Policies \ {p} : pc'[q] = pc[q]
          /\ In(Inside)' = In(Inside) \ {p} /\ In(Waits)' = In(Waits) \ {p}
          /\ Pending' = Pending \ {p}
      BY <1>1, <1>2, <2>1, Moved
    <2>4. TypeOK' /\ CallsCounted' /\ StopObeyed'
      BY <1>1, <2>3 DEF IInv, TypeOK, CallsCounted, StopObeyed
    <2>5. In(Inside)' = In(Inside) /\ In(Waits)' = In(Waits) /\ Pending' = Pending
      BY <2>2, <2>3
    <2>6. SlotOwned' /\ OneInside' /\ OneWaiter' /\ WindowBounded'
      BY <1>1, <1>2, <2>3, <2>5 DEF IInv, SlotOwned, OneInside, OneWaiter, WindowBounded
    <2> QED
      BY <2>4, <2>6 DEF IInv
  <1>3. CASE ~sequential
    <2>1. "admit" \in Places /\ "admit" \in Inside /\ "admit" \notin Waits
      BY DEF Places, Inside, Waits
    <2>2. p \notin In(Inside) /\ p \notin In(Waits) /\ p \notin Pending
      BY <1>1, PendingIs DEF Inside, Waits
    <2>3. /\ pc' \in [Policies -> Places] /\ pc'[p] = "admit"
          /\ \A q \in Policies \ {p} : pc'[q] = pc[q]
          /\ In(Inside)' = In(Inside) \cup {p} /\ In(Waits)' = In(Waits) \ {p}
          /\ Pending' = Pending \ {p}
      BY <1>1, <1>3, <2>1, Moved
    <2>4. TypeOK' /\ CallsCounted' /\ StopObeyed'
      BY <1>1, <2>3 DEF IInv, TypeOK, CallsCounted, StopObeyed
    <2>5. In(Waits)' = In(Waits) /\ Pending' = Pending
      BY <2>2, <2>3
    <2>6. SlotOwned' /\ OneWaiter' /\ WindowBounded'
      BY <1>1, <1>3, <2>3, <2>5 DEF IInv, SlotOwned, OneWaiter, WindowBounded
    <2>7. OneInside'
      BY <1>1, <1>3 DEF IInv, OneInside
    <2> QED
      BY <2>4, <2>6, <2>7 DEF IInv
  <1> QED
    BY <1>2, <1>3

\* The slot is taken when the channel is empty, so nobody is inside an attempt
\* that began in sequential mode.
LEMMA AcquireStep ==
    ASSUME IInv, NEW p \in Policies, Acquire(p)
    PROVE  IInv'
  <1>1. /\ pc[p] = "acquire" /\ ~sem /\ sem' = TRUE /\ Goto(p, "admit") /\ sequential
        /\ UNCHANGED <<options, stopped, waiting, sequential, learned, recent, waitOver,
                       asleep, err, counters, expired, firstErr, loop>>
    BY DEF Acquire, IInv, SlotOwned
  <1>2. "admit" \in Places /\ "admit" \in Inside /\ "admit" \notin Waits
    BY DEF Places, Inside, Waits
  <1>3. p \notin In(Waits) /\ p \notin Pending
    BY <1>1, PendingIs DEF Waits
  <1>4. /\ pc' \in [Policies -> Places] /\ pc'[p] = "admit"
        /\ \A q \in Policies \ {p} : pc'[q] = pc[q]
        /\ In(Inside)' = In(Inside) \cup {p} /\ In(Waits)' = In(Waits) \ {p}
        /\ Pending' = Pending \ {p}
    BY <1>1, <1>2, Moved
  <1>5. TypeOK' /\ CallsCounted' /\ StopObeyed'
    BY <1>1, <1>4 DEF IInv, TypeOK, CallsCounted, StopObeyed
  <1>6. In(Waits)' = In(Waits) /\ Pending' = Pending
    BY <1>3, <1>4
  <1>7. SlotOwned' /\ OneInside' /\ OneWaiter' /\ WindowBounded'
    BY <1>1, <1>4, <1>6 DEF IInv, SlotOwned, OneInside, OneWaiter, WindowBounded
  <1> QED
    BY <1>5, <1>7 DEF IInv

\* The call ends without the slot, or returns it.
LEMMA SendStep ==
    ASSUME IInv, NEW p \in Policies, AcquireExpires(p) \/ Return(p)
    PROVE  IInv'
  <1>1. /\ pc[p] \in {"acquire", "release"}
        /\ sem' = IF pc[p] = "release" /\ sequential THEN FALSE ELSE sem
        /\ UNCHANGED <<options, stopped, waiting, sequential, learned, recent, waitOver,
                       asleep, tries, expired, loop>>
    BY DEF AcquireExpires, Return, ReleaseSequentialSlot, Send
  <1>2. PICK e \in Errors : Send(p, e)
    BY DEF AcquireExpires, Return, IInv, TypeOK, Errors
  <1>3. /\ Goto(p, "sent") /\ err' = [err EXCEPT ![p] = "ok"] /\ calls' = [calls EXCEPT ![p] = 0]
        /\ firstErr' = IF firstErr = "ok" THEN e ELSE firstErr
    BY <1>2 DEF Send, Fail
  <1>4. "sent" \in Places /\ "sent" \notin Inside /\ "sent" \notin Waits /\ "ok" \in Errors
    BY DEF Places, Inside, Waits, Errors
  <1>5. p \notin In(Waits) /\ p \notin Pending
    BY <1>1, PendingIs DEF Waits
  <1>6. /\ pc' \in [Policies -> Places] /\ pc'[p] = "sent"
        /\ \A q \in Policies \ {p} : pc'[q] = pc[q]
        /\ In(Inside)' = In(Inside) \ {p} /\ In(Waits)' = In(Waits) \ {p}
        /\ Pending' = Pending \ {p}
    BY <1>1, <1>3, <1>4, Moved
  <1>7. TypeOK'
    <2>1. calls' \in [Policies -> 0 .. MaxScaling]
      BY <1>3, LimiterAssumption DEF IInv, TypeOK
    <2> QED
      BY <1>1, <1>3, <1>4, <1>6, <2>1 DEF IInv, TypeOK
  <1>8. CallsCounted' /\ StopObeyed'
    <2>1. CallsCounted'
      BY <1>1, <1>3, <1>6 DEF IInv, TypeOK, CallsCounted
    <2>2. began.stopped => firstErr' = "limited"
      BY DEF AcquireExpires, Return, Send, IInv, StopObeyed
    <2>3. StopObeyed'
      BY <1>1, <1>3, <1>6, <2>2 DEF IInv, TypeOK, StopObeyed
    <2> QED
      BY <2>1, <2>3
  <1>9. In(Waits)' = In(Waits) /\ Pending' = Pending
    BY <1>5, <1>6
  <1>10. OneWaiter' /\ WindowBounded'
    BY <1>1, <1>9 DEF IInv, OneWaiter, WindowBounded
  <1>11. SlotOwned' /\ OneInside'
    <2>1. CASE pc[p] = "acquire"
      <3>1. p \notin In(Inside)
        BY <2>1, PendingIs DEF Inside
      <3>2. In(Inside)' = In(Inside)
        BY <1>6, <3>1
      <3> QED
        BY <1>1, <1>6, <2>1, <3>2 DEF IInv, SlotOwned, OneInside
    <2>2. CASE pc[p] = "release"
      <3>1. p \in In(Inside)
        BY <2>2, PendingIs DEF Inside, Places, Waits
      <3>2. sem' = FALSE
        BY <1>1, <2>2 DEF IInv, TypeOK, SlotOwned
      <3>3. SlotOwned'
        BY <1>1, <1>6, <3>2 DEF IInv, SlotOwned
      <3>4. began.sequential => In(Inside)' = {}
        BY <1>6, <3>1 DEF IInv, OneInside
      <3> QED
        BY <1>1, <3>3, <3>4 DEF IInv, OneInside
    <2> QED
      BY <1>1, <2>1, <2>2
  <1> QED
    BY <1>7, <1>8, <1>10, <1>11 DEF IInv

\* A goroutine gives up: on to the release of the slot.
LEMMA GiveUpStep ==
    ASSUME IInv, NEW p \in Policies, pc[p] \in Inside \ Waits, NEW e \in Errors, GiveUp(p, e),
           began.stopped => e = "limited",
           UNCHANGED <<options, counters, expired, firstErr, loop>>
    PROVE  IInv'
  <1>1. "release" \in Inside \ Waits /\ "release" \in Places
    BY DEF Inside, Places, Waits
  <1>2. Goto(p, "release") /\ err' = [err EXCEPT ![p] = e] /\ UNCHANGED limiter
    BY DEF GiveUp, Fail
  <1>3. TypeOK'
    BY <1>1, <1>2, Moved DEF IInv, TypeOK
  <1>4. CallsCounted' /\ StopObeyed'
    BY <1>1, <1>2, Moved DEF IInv, TypeOK, CallsCounted, StopObeyed
  <1> QED
    BY <1>1, <1>2, <1>3, <1>4, InsideStep

\* A goroutine sleeps until the next broadcast.
LEMMA FallAsleepStep ==
    ASSUME IInv, NEW p \in Policies, pc[p] \in Inside \ Waits, NEW place \in Sleeps,
           FallAsleep(p, place), place = "asleep" => calls[p] = 0, ~began.stopped,
           UNCHANGED <<options, counters, expired, firstErr, loop>>
    PROVE  IInv'
  <1>1. place \in Inside \ Waits /\ place \in Places /\ place \notin {"delay", "flight", "wokeAll"}
    BY DEF Inside, Places, Waits, Sleeps
  <1>2. /\ Goto(p, place) /\ asleep' = asleep \cup {p}
        /\ UNCHANGED <<stopped, waiting, sequential, sem, learned, recent, waitOver, err>>
    BY DEF FallAsleep
  <1>3. TypeOK'
    BY <1>1, <1>2, Moved DEF IInv, TypeOK
  <1>4. CallsCounted' /\ StopObeyed'
    BY <1>1, <1>2, Moved DEF IInv, CallsCounted, StopObeyed, Sleeps
  <1> QED
    BY <1>1, <1>2, <1>3, <1>4, InsideStep

\* The critical section of WaitBeforeRequest, first and after each broadcast.
LEMMA AdmitStep ==
    ASSUME IInv, NEW p \in Policies, Admit(p) \/ Wake(p)
    PROVE  IInv'
  <1>1. /\ pc[p] \in {"admit", "asleep"} /\ pc[p] \in Inside \ Waits /\ calls[p] = 0
        /\ UNCHANGED <<options, counters, expired, firstErr, loop>>
    BY DEF Admit, Wake, Inside, Places, Waits, Sleeps, IInv, CallsCounted
  <1>2. "limited" \in Errors /\ "asleep" \in Sleeps /\ (~stopped => ~began.stopped)
    BY DEF Errors, Sleeps, IInv, StopObeyed
  <1>3. CASE GiveUp(p, "limited")
    BY <1>1, <1>2, <1>3, GiveUpStep
  <1>4. CASE ~stopped /\ FallAsleep(p, "asleep")
    BY <1>1, <1>2, <1>4, FallAsleepStep
  <1>5. CASE ~stopped /\ ~waiting /\ CheckWindow(p)
    BY <1>1, <1>5, CheckWindowStep
  <1> QED
    BY <1>3, <1>4, <1>5 DEF Admit, Wake

\* After the delay the request is sent, or the deadline has passed.
LEMMA DelayStep ==
    ASSUME IInv, NEW p \in Policies, Delay(p)
    PROVE  IInv'
  <1>1. /\ pc[p] = "delay" /\ pc[p] \in Inside \ Waits /\ calls[p] = 0 /\ p \in Pending
        /\ ~began.stopped
        /\ UNCHANGED <<options, limiter, counters, expired, firstErr, loop>>
    BY PendingIs DEF Delay, Inside, Places, Waits, IInv, CallsCounted, StopObeyed
  <1>2. PICK place \in {"flight", "release"} : Goto(p, place)
    BY DEF Delay
  <1>3. place \in Inside \ Waits /\ place \in Places /\ "limited" \in Errors
    BY DEF Inside, Places, Waits, Errors
  <1>4. TypeOK'
    <2>1. err' \in [Policies -> Errors]
      BY <1>3 DEF Delay, Fail, IInv, TypeOK
    <2> QED
      BY <1>1, <1>2, <1>3, <2>1, Moved DEF IInv, TypeOK
  <1>5. CallsCounted' /\ StopObeyed'
    BY <1>1, <1>2, <1>3, Moved, LimiterAssumption DEF IInv, CallsCounted, StopObeyed
  <1> QED
    BY <1>1, <1>2, <1>3, <1>4, <1>5, InsideStep

\* The wait for the window, and the wait after a 429.
LEMMA WaitStep ==
    ASSUME IInv, NEW p \in Policies, WaitForWindow(p) \/ Wait429(p)
    PROVE  IInv'
  <1>1. /\ pc[p] \in Waits
        /\ UNCHANGED <<options, counters, expired, firstErr, loop>>
    BY DEF WaitForWindow, Wait429, Waits
  <1>2. PICK ok \in BOOLEAN : WaitEnded(p, ok)
    BY DEF WaitForWindow, Wait429
  <1>3. PICK place \in Broadcasts : Goto(p, place) /\ (place = "wokeAll" => pc[p] = "wait" /\ waitOver)
    BY DEF WaitForWindow, Wait429, Broadcasts
  <1>4. err' \in [Policies -> Errors]
    BY DEF WaitForWindow, Wait429, Fail, IInv, TypeOK, Errors
  <1> QED
    BY <1>1, <1>2, <1>3, <1>4, WaitEndedStep

\* The broadcast wakes everybody and lets the goroutine go on.
LEMMA WakeAllStep ==
    ASSUME IInv, NEW p \in Policies, WakeAll(p)
    PROVE  IInv'
  <1>1. /\ pc[p] \in Inside \ Waits /\ ~began.stopped /\ asleep' = {}
        /\ UNCHANGED <<options, stopped, waiting, sequential, sem, learned, recent, waitOver,
                       err, counters, expired, firstErr, loop>>
    BY DEF WakeAll, Inside, Places, Waits, Broadcasts, IInv, StopObeyed
  <1>2. PICK place \in {"flight", "release"} :
           Goto(p, place) /\ (place = "flight" => pc[p] = "wokeAll")
    BY DEF WakeAll, Broadcasts
  <1>3. place \in Inside \ Waits /\ place \in Places /\ (place = "flight" => p \in Pending)
    BY <1>2, PendingIs DEF Inside, Places, Waits
  <1>4. TypeOK'
    BY <1>1, <1>2, <1>3, Moved DEF IInv, TypeOK
  <1>5. CallsCounted' /\ StopObeyed'
    BY <1>1, <1>2, <1>3, Moved, LimiterAssumption DEF IInv, CallsCounted, StopObeyed
  <1> QED
    BY <1>1, <1>2, <1>3, <1>4, <1>5, InsideStep

\* A request of the same call is repeated; nobody else sees it.
LEMMA RetryOperationStep ==
    ASSUME IInv, NEW p \in Policies, retryOperation(p)
    PROVE  IInv'
  <1>1. /\ tries' = [tries EXCEPT ![p] = @ + 1] /\ tries[p] < RetryMax
        /\ UNCHANGED <<options, limiter, pc, err, calls, expired, firstErr, loop>>
    BY DEF retryOperation
  <1>2. tries' \in [Policies -> 0 .. RetryMax]
    BY <1>1, LimiterAssumption DEF IInv, TypeOK
  <1>3. TypeOK'
    BY <1>1, <1>2 DEF IInv, TypeOK
  <1>4. CallsCounted' /\ StopObeyed'
    BY <1>1 DEF IInv, CallsCounted, StopObeyed
  <1>5. SlotOwned' /\ OneInside' /\ OneWaiter' /\ WindowBounded'
    BY <1>1 DEF IInv, SlotOwned, OneInside, OneWaiter, WindowBounded, Pending, In
  <1> QED
    BY <1>3, <1>4, <1>5 DEF IInv

\* A call returns and is recorded.  It leaves the pending requests for the
\* window, unless a truncated answer is asked for again, which only scaling
\* does.
LEMMA ReplyStep ==
    ASSUME IInv, NEW p \in Policies, Reply(p)
    PROVE  IInv'
  <1>1. /\ pc[p] = "flight" /\ calls' = [calls EXCEPT ![p] = @ + 1] /\ tries' = [tries EXCEPT ![p] = 0]
        /\ UNCHANGED <<options, expired, firstErr, loop>>
    BY DEF Reply
  <1>2. PICK limit \in 0 .. Limit : Record(limit)
    <2>1. \A limit \in parseRateLimitHeaders : limit \in 0 .. Limit
      BY DEF parseRateLimitHeaders
    <2>2. 0 \in 0 .. Limit
      BY LimiterAssumption
    <2>3. \E limit \in 0 .. Limit : Record(limit)
      BY <2>1, <2>2 DEF Reply, doGenerate
    <2> QED
      BY <2>3
  <1>3. PICK place \in {"flight", "handle429", "release"} :
           /\ Goto(p, place)
           /\ place = "flight" => autoScale /\ calls[p] + 1 < MaxScaling
    <2>1. UNCHANGED pc => Goto(p, "flight")
      BY <1>1 DEF Goto, IInv, TypeOK
    <2> QED
      BY <2>1 DEF Reply, doGenerate
  <1>4. err' \in [Policies -> Errors]
    BY DEF Reply, doGenerate, Fail, normalizeError, IInv, TypeOK, Errors
  <1>5. /\ recent' = recent + 1 /\ learned' \in 0 .. Limit
        /\ UNCHANGED <<stopped, waiting, sequential, sem, waitOver, asleep>>
    BY <1>2 DEF Record, IInv, TypeOK
  <1>6. /\ place \in Places /\ place \in Inside /\ place \notin Waits
        /\ p \in In(Inside) /\ p \notin In(Waits) /\ p \in Pending
        /\ place \notin {"enter", "acquire", "admit", "delay", "wait", "asleep", "wokeAll", "sent"}
    BY <1>1, PendingIs DEF Places, Inside, Waits
  <1>7. /\ pc' \in [Policies -> Places] /\ pc'[p] = place
        /\ \A q \in Policies \ {p} : pc'[q] = pc[q]
    BY <1>3, <1>6, Moved
  <1>8. In(Inside)' = In(Inside) /\ In(Waits)' = In(Waits)
    <2>1. In(Inside)' = In(Inside) \cup {p} /\ In(Waits)' = In(Waits) \ {p}
      BY <1>3, <1>6, Moved
    <2> QED
      BY <1>6, <2>1
  <1>9. TypeOK'
    <2>1. calls[p] < MaxScaling
      BY <1>1 DEF IInv, CallsCounted
    <2>2. calls' \in [Policies -> 0 .. MaxScaling] /\ tries' \in [Policies -> 0 .. RetryMax]
      BY <1>1, <2>1, LimiterAssumption DEF IInv, TypeOK
    <2> QED
      BY <1>1, <1>4, <1>5, <1>7, <2>2 DEF IInv, TypeOK
  <1>10. CallsCounted'
    BY <1>1, <1>3, <1>6, <1>7 DEF IInv, TypeOK, CallsCounted
  <1>11. StopObeyed'
    BY <1>1, <1>5 DEF IInv, StopObeyed
  <1>12. SlotOwned' /\ OneInside' /\ OneWaiter'
    BY <1>1, <1>5, <1>6, <1>7, <1>8 DEF IInv, SlotOwned, OneInside, OneWaiter
  <1>13. WindowBounded'
    <2> SUFFICES ASSUME ~autoScale
                 PROVE  recent + 1 + Cardinality(Pending') < Limit + Cardinality(Policies)
      BY <1>1, <1>5 DEF WindowBounded
    <2>1. place \in {"handle429", "release"}
      BY <1>3
    <2>2. Pending' = Pending \ {p}
      BY <1>3, <1>5, <1>6, <2>1, Moved
    <2>3. Cardinality(Pending') = Cardinality(Pending) - 1
      BY <1>6, <2>2, PendingIs, Counted
    <2>4. recent \in Nat /\ Limit \in Nat
      BY LimiterAssumption DEF IInv, TypeOK
    <2> QED
      BY <2>3, <2>4, PendingIs DEF IInv, WindowBounded
  <1> QED
    BY <1>9, <1>10, <1>11, <1>12, <1>13 DEF IInv

\* A 429 stops the provider, or makes a waiter or a sleeper of the goroutine.
LEMMA Handle429Step ==
    ASSUME IInv, NEW p \in Policies, Handle429(p) \/ Wake429(p)
    PROVE  IInv'
  <1>1. /\ pc[p] \in Inside /\ pc[p] \in Inside \ Waits /\ ~began.stopped
        /\ "asleep429" \in Sleeps /\ "wait429" \in Waits
        /\ "plain" \in Errors /\ "again" \in Errors
        /\ UNCHANGED <<options, counters, expired, firstErr, loop>>
    BY DEF Handle429, Wake429, Inside, Places, Waits, Sleeps, Errors, IInv, StopObeyed
  <1>2. CASE GiveUp(p, "plain") \/ GiveUp(p, "again")
    BY <1>1, <1>2, GiveUpStep
  <1>3. CASE FallAsleep(p, "asleep429")
    BY <1>1, <1>3, FallAsleepStep
  <1>4. CASE ~waiting /\ BecomeWaiter(p, "wait429")
    BY <1>1, <1>4, BecomeWaiterStep
  <1>5. CASE StopProvider(p, "plain")
    <2>1. "broadcast" \in Inside \ Waits /\ "broadcast" \in Places
      BY DEF Inside, Places, Waits, Broadcasts
    <2>2. /\ Goto(p, "broadcast") /\ stopped' = TRUE /\ err' = [err EXCEPT ![p] = "plain"]
          /\ UNCHANGED <<waiting, sequential, sem, learned, recent, waitOver, asleep>>
      BY <1>5 DEF StopProvider, Fail
    <2>3. TypeOK'
      BY <1>1, <2>1, <2>2, Moved DEF IInv, TypeOK
    <2>4. CallsCounted' /\ StopObeyed'
      BY <1>1, <2>1, <2>2, Moved DEF IInv, CallsCounted, StopObeyed
    <2> QED
      BY <1>1, <2>1, <2>2, <2>3, <2>4, InsideStep
  <1> QED
    BY <1>2, <1>3, <1>4, <1>5 DEF Handle429, Wake429
-----------------------------------------------------------------------------
(* The test runner and the clock. *)

\* When all results are collected nobody is inside.
LEMMA NobodyInside ==
    ASSUME IInv, Collected
    PROVE  In(Inside) = {} /\ In(Waits) = {} /\ ~sem /\ Pending = {}
  <1>1. In(Inside) = {} /\ In(Waits) = {} /\ Pending = {}
    BY PendingIs DEF Collected, Inside, Waits
  <1> QED
    BY <1>1 DEF IInv, SlotOwned

\* An attempt is launched: everybody is at the entry.
LEMMA LaunchStep ==
    ASSUME IInv, Collected, Launch, UNCHANGED <<options, limiter>>,
           test' \in 1 .. Tests, attempt' \in 0 .. Retries, expired' \in BOOLEAN
    PROVE  IInv'
  <1>1. /\ pc' = [p \in Policies |-> "enter"] /\ err' = [p \in Policies |-> "ok"]
        /\ calls' = [p \in Policies |-> 0] /\ tries' = tries /\ firstErr' = "ok"
        /\ began' = [stopped |-> stopped, sequential |-> sequential]
    BY DEF Launch
  <1>2. "enter" \in Places /\ "ok" \in Errors /\ "enter" \notin Inside /\ "enter" \notin Waits
    BY DEF Places, Errors, Inside, Waits
  <1>3. TypeOK'
    <2>1. calls' \in [Policies -> 0 .. MaxScaling]
      BY <1>1, LimiterAssumption
    <2>2. began' \in [stopped : BOOLEAN, sequential : BOOLEAN]
      BY <1>1 DEF IInv, TypeOK
    <2>3. /\ pc' \in [Policies -> Places] /\ err' \in [Policies -> Errors] /\ firstErr' \in Errors
      BY <1>1, <1>2
    <2> QED
      BY <1>1, <2>1, <2>2, <2>3 DEF IInv, TypeOK
  <1>4. CallsCounted' /\ StopObeyed'
    BY <1>1 DEF CallsCounted, StopObeyed
  <1>5. In(Inside)' = {} /\ In(Waits)' = {} /\ Pending' = {} /\ ~sem'
    BY <1>1, <1>2, NobodyInside DEF In, Pending
  <1>6. SlotOwned' /\ OneInside' /\ OneWaiter'
    BY <1>1, <1>5 DEF SlotOwned, OneInside, OneWaiter
  <1>7. WindowBounded'
    BY <1>5, NobodyInside DEF IInv, WindowBounded
  <1> QED
    BY <1>3, <1>4, <1>6, <1>7 DEF IInv

\* The test is evaluated again as a whole, or has ended.
LEMMA RetryStep ==
    ASSUME IInv, Retry
    PROVE  IInv'
  <1>1. attempt' \in 0 .. Retries
    BY LimiterAssumption DEF Retry, MayRetry, IInv, TypeOK
  <1>2. test' \in 1 .. Tests /\ expired' \in BOOLEAN
    BY DEF Retry, IInv, TypeOK
  <1> QED
    BY <1>1, <1>2, LaunchStep DEF Retry

\* The next test, or the end of the run.
LEMMA EndTestStep ==
    ASSUME IInv, EndTest
    PROVE  IInv'
  <1>1. CASE Launch /\ test # Tests /\ test' = test + 1 /\ attempt' = 0
    <2>1. test' \in 1 .. Tests /\ attempt' \in 0 .. Retries
      <3>1. test \in 1 .. Tests /\ Tests \in Nat /\ Retries \in Nat
        BY LimiterAssumption DEF IInv, TypeOK
      <3> QED
        BY <1>1, <3>1
    <2>2. Collected /\ expired' \in BOOLEAN /\ UNCHANGED <<options, limiter>>
      BY DEF EndTest
    <2> QED
      BY <1>1, <2>1, <2>2, LaunchStep
  <1>2. CASE /\ pc' = [p \in Policies |-> "idle"]
             /\ UNCHANGED <<err, counters, firstErr, test, attempt, began>>
    <2>1. Collected /\ expired' = FALSE /\ UNCHANGED <<options, limiter>>
      BY DEF EndTest
    <2>2. "idle" \in Places /\ "idle" \notin Inside /\ "idle" \notin Waits
      BY DEF Places, Inside, Waits
    <2>3. TypeOK'
      BY <1>2, <2>1, <2>2 DEF IInv, TypeOK
    <2>4. CallsCounted' /\ StopObeyed'
      BY <1>2, <2>1 DEF IInv, CallsCounted, StopObeyed
    <2>5. In(Inside)' = {} /\ In(Waits)' = {} /\ Pending' = {} /\ ~sem'
      BY <1>2, <2>1, <2>2, NobodyInside DEF In, Pending
    <2>6. SlotOwned' /\ OneInside' /\ OneWaiter'
      BY <1>2, <2>1, <2>5 DEF IInv, SlotOwned, OneInside, OneWaiter
    <2>7. WindowBounded'
      BY <2>1, <2>5, NobodyInside DEF IInv, WindowBounded
    <2> QED
      BY <2>3, <2>4, <2>6, <2>7 DEF IInv
  <1> QED
    BY <1>1, <1>2 DEF EndTest

\* The deadline of a test passes.
LEMMA DeadlineStep ==
    ASSUME IInv, Deadline
    PROVE  IInv'
  <1>1. expired' = TRUE /\ UNCHANGED <<options, limiter, pc, err, counters, firstErr, loop>>
    BY DEF Deadline
  <1>2. TypeOK' /\ CallsCounted' /\ StopObeyed'
    BY <1>1 DEF IInv, TypeOK, CallsCounted, StopObeyed
  <1>3. SlotOwned' /\ OneInside' /\ OneWaiter' /\ WindowBounded'
    BY <1>1 DEF IInv, SlotOwned, OneInside, OneWaiter, WindowBounded, Pending, In
  <1> QED
    BY <1>2, <1>3 DEF IInv

\* A request leaves the window; the one who waits for that, and only that
\* one, becomes pending.
LEMMA LeaveWindowStep ==
    ASSUME IInv, LeaveWindow
    PROVE  IInv'
  <1>1. /\ recent > 0 /\ recent' = recent - 1 /\ waitOver' = TRUE
        /\ UNCHANGED <<options, stopped, waiting, sequential, sem, learned, asleep, pc, err,
                       counters, expired, firstErr, loop>>
    BY DEF LeaveWindow
  <1>2. TypeOK' /\ CallsCounted' /\ StopObeyed'
    BY <1>1 DEF IInv, TypeOK, CallsCounted, StopObeyed
  <1>3. SlotOwned' /\ OneInside' /\ OneWaiter'
    BY <1>1 DEF IInv, SlotOwned, OneInside, OneWaiter, In
  <1>4. WindowBounded'
    <2>1. recent \in Nat /\ Limit \in Nat
      BY LimiterAssumption DEF IInv, TypeOK
    <2>2. Pending' = Pending \cup In({"wait"})
      BY <1>1 DEF Pending, In
    <2>3. \A p, q \in In({"wait"}) : p = q
      BY DEF IInv, OneWaiter, In, Waits
    <2>4. Cardinality(Pending') \in Nat /\ Cardinality(Pending') <= Cardinality(Pending) + 1
      <3>1. CASE In({"wait"}) \subseteq Pending
        <4>1. Pending' = Pending
          BY <2>2, <3>1
        <4> QED
          BY <4>1, PendingIs
      <3>2. CASE ~(In({"wait"}) \subseteq Pending)
        <4>1. PICK p \in In({"wait"}) : p \notin Pending
          BY <3>2
        <4>2. p \in Policies /\ Pending' = Pending \cup {p}
          BY <2>2, <2>3, <4>1 DEF In
        <4>3. Cardinality(Pending') = Cardinality(Pending) + 1
          BY <4>1, <4>2, PendingIs, Counted
        <4> QED
          BY <4>3, PendingIs
      <3> QED
        BY <3>1, <3>2
    <2> QED
      BY <1>1, <2>1, <2>4, PendingIs DEF IInv, WindowBounded
  <1> QED
    BY <1>2, <1>3, <1>4 DEF IInv

\* A step that changes nothing keeps the invariant.
LEMMA StutterStep == IInv /\ UNCHANGED vars => IInv'
  BY DEF IInv, vars, TypeOK, CallsCounted, SlotOwned, OneInside, OneWaiter, WindowBounded,
         StopObeyed, Pending, In

\* Every step keeps the invariant.
LEMMA NextIInv == IInv /\ [Next]_vars => IInv'
  BY StutterStep, EnterStep, AcquireStep, SendStep, AdmitStep, DelayStep, WaitStep,
     WakeAllStep, RetryOperationStep, ReplyStep, Handle429Step, RetryStep, EndTestStep,
     DeadlineStep, LeaveWindowStep DEF Next, Call

\* The invariant holds in every reachable state.
THEOREM Invariance == SafetySpec => []IInv
  BY InitIInv, NextIInv, PTL DEF SafetySpec
-----------------------------------------------------------------------------
\* Type correctness: calls and repeated requests stay within their maxima, and
\* the window never counts below zero.
THEOREM TypeCorrect == SafetySpec => []TypeOK
  <1>1. IInv => TypeOK
    BY DEF IInv
  <1> QED
    BY <1>1, Invariance, PTL

\* From the attempt after the switch on, one request at a time is in flight;
\* and every attempt returns the slot, although it is drained by whoever
\* returns first.
THEOREM SequentialCorrect == SafetySpec => []SequentialFromNextAttempt
  <1>1. IInv => SequentialFromNextAttempt
    <2> SUFFICES ASSUME IInv PROVE SequentialFromNextAttempt
      OBVIOUS
    <2>1. InFlight \in SUBSET In(Inside)
      BY DEF InFlight, In, Inside, Places, Waits, Sleeps, Broadcasts
    <2>2. began.sequential => \A p, q \in InFlight : p = q
      BY <2>1 DEF IInv, OneInside
    <2>3. ASSUME began.sequential PROVE Cardinality(InFlight) <= 1
      <3>1. CASE InFlight = {}
        BY <3>1, FS_EmptySet
      <3>2. CASE InFlight # {}
        <4>1. PICK p : InFlight = {p}
          BY <2>2, <2>3, <3>2
        <4>2. Cardinality({p}) = 1
          BY FS_Singleton
        <4> QED
          BY <4>1, <4>2
      <3> QED
        BY <3>1, <3>2
    <2> QED
      BY <2>3, NobodyInside DEF SequentialFromNextAttempt
  <1> QED
    BY <1>1, Invariance, PTL

\* The window never holds more than one request beyond the limit per other
\* goroutine, although its check and the recording are separate steps.
THEOREM OvershootBounded == SafetySpec => []OvershootIsBounded
  <1>1. IInv => OvershootIsBounded
    <2> SUFFICES ASSUME IInv, ~autoScale
                 PROVE  recent + Cardinality(InFlight) < Limit + Cardinality(Policies)
      BY DEF OvershootIsBounded
    <2>1. InFlight \in SUBSET Pending
      BY DEF InFlight, Pending, In
    <2>2. Cardinality(InFlight) \in Nat /\ Cardinality(InFlight) <= Cardinality(Pending)
      BY <2>1, PendingIs, Counted
    <2>3. recent \in Nat /\ Limit \in Nat
      BY LimiterAssumption DEF IInv, TypeOK
    <2> QED
      BY <2>2, <2>3, PendingIs DEF IInv, WindowBounded
  <1> QED
    BY <1>1, Invariance, PTL

\* After a stop no attempt sends another request, and every attempt ends rate
\* limited or out of time and is not repeated.
THEOREM StopCorrect == SafetySpec => []StoppedProviderIsLeftAlone
  <1>1. IInv => StoppedProviderIsLeftAlone
    <2> SUFFICES ASSUME IInv, began.stopped
                 PROVE  /\ InFlight = {}
                        /\ Collected => /\ classifyError \in {"rate_limited", "test_timeout"}
                                        /\ ~MayRetry
      BY DEF StoppedProviderIsLeftAlone
    <2>1. InFlight = {}
      BY DEF IInv, StopObeyed, InFlight, In
    <2>2. ASSUME Collected PROVE firstErr = "limited"
      BY <2>2, LimiterAssumption DEF Collected, IInv, StopObeyed
    <2>3. ASSUME Collected PROVE classifyError \in {"rate_limited", "test_timeout"} /\ ~MayRetry
      BY <2>2, <2>3 DEF classifyError, MayRetry, Retryable, IInv, TypeOK
    <2> QED
      BY <2>1, <2>3
  <1> QED
    BY <1>1, Invariance, PTL
=============================================================================
