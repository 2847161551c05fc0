--------------------------- MODULE QuotaGate_proofs ---------------------------
(***************************************************************************)
(* Proofs about QuotaGate, for any gates, callers, providers and delays.   *)
(* One invariant carries the four properties: the code's next and          *)
(* blockedUntil are what the histories lastStart and told call for, and    *)
(* every sleep ends within the wait it belongs to.                         *)
(***************************************************************************)
EXTENDS QuotaGate, TLAPS

LEMMA LaterMax ==
  ASSUME NEW s \in Int, NEW t \in Int
  PROVE  Later(s, t) \in {s, t} /\ Later(s, t) >= s /\ Later(s, t) >= t
BY DEF Later

LEMMA GateTimes ==
  ASSUME TypeOK, NEW c \in Callers, pc[c] # "idle"
  PROVE  /\ Gate(c) \in Gates /\ Delay(c) \in Int /\ Cooldown(c) \in Nat
         /\ next[Gate(c)] <= now + Delay(c) /\ blockedUntil[Gate(c)] <= now + Delay(c)
<1>1. Gate(c) \in Gates
  BY DEF TypeOK, Gate
<1>2. next[Gate(c)] \in Nat /\ blockedUntil[Gate(c)] \in Nat /\ now \in Nat
  BY <1>1 DEF TypeOK
<1> QED
  BY <1>1, <1>2, LaterMax DEF Delay, Cooldown

LEMMA InitType == Init => TypeOK
BY ConstantsAssumption DEF Init, TypeOK, NoCall

LEMMA ReturnType ==
  ASSUME TypeOK, NEW c \in Callers, Return(c)
  PROVE  /\ pc' \in [Callers -> {"idle", "wait", "sleep", "call"}]
         /\ call' \in [Callers -> [gate : Gates \cup {"none"}, read : BOOLEAN]]
         /\ \A d \in Callers : pc'[d] # "idle" => call'[d].gate \in Gates
         /\ attempt' \in [Callers -> 0 .. MaxReadRetries]
         /\ started' \in [Callers -> Nat] /\ wakeAt' \in [Callers -> Nat]
         /\ sent' \in [Callers -> Nat]
BY ConstantsAssumption DEF Return, TypeOK, NoCall

LEMMA NextType == TypeOK /\ [Next]_vars => TypeOK'
<1> SUFFICES ASSUME TypeOK, [Next]_vars PROVE TypeOK'
  OBVIOUS
<1> USE DEF gates, callers, Goto
<1>1. ASSUME NEW c \in Callers, Request(c) PROVE TypeOK'
  <2>1. PICK g \in Gates, r \in BOOLEAN : call' = [call EXCEPT ![c] = [gate |-> g, read |-> r]]
    BY <1>1 DEF Request
  <2>2. call' \in [Callers -> [gate : Gates \cup {"none"}, read : BOOLEAN]]
    BY <2>1 DEF TypeOK
  <2>3. \A d \in Callers : pc'[d] # "idle" => call'[d].gate \in Gates
    BY <1>1, <2>1 DEF Request, TypeOK
  <2>4. calls' \in 0 .. MaxCalls
    BY <1>1, ConstantsAssumption DEF Request, TypeOK
  <2> QED
    BY <1>1, <2>2, <2>3, <2>4 DEF Request, TypeOK
<1>2. ASSUME NEW c \in Callers, Defer(c) \/ Cancel(c) \/ Respond(c) PROVE TypeOK'
  BY <1>2, ReturnType DEF Defer, Cancel, Respond, TypeOK
<1>3. ASSUME NEW c \in Callers, Sleep(c) PROVE TypeOK'
  <2>1. Delay(c) \in Int /\ Cooldown(c) \in Nat /\ now + Delay(c) \in Nat
    BY <1>3, GateTimes DEF Sleep, TypeOK
  <2>2. retryWait' \in [Providers -> 0 .. MaxInlineRetryWait]
    <3>1. ProviderOf[c] \in Providers /\ retryWait[ProviderOf[c]] \in 0 .. MaxInlineRetryWait
      BY ConstantsAssumption DEF TypeOK
    <3>2. retryWait[ProviderOf[c]] + Cooldown(c) \in 0 .. MaxInlineRetryWait
      BY <1>3, <2>1, <3>1, ConstantsAssumption DEF Sleep, Affords
    <3> QED
      BY <1>3, <3>1, <3>2 DEF Sleep, TypeOK
  <2> QED
    BY <1>3, <2>1, <2>2 DEF Sleep, TypeOK
<1>4. ASSUME NEW c \in Callers, WakeUp(c) PROVE TypeOK'
  BY <1>4 DEF WakeUp, TypeOK
<1>5. ASSUME NEW c \in Callers, Reserve(c) PROVE TypeOK'
  <2>0. Gate(c) \in Gates
    BY <1>5, GateTimes DEF Reserve
  <2>1. now + Pace \in Nat /\ now \in Int /\ sent[c] + 1 \in Nat
    BY ConstantsAssumption DEF TypeOK
  <2>2. next' \in [Gates -> Nat] /\ lastStart' \in [Gates -> Int] /\ sent' \in [Callers -> Nat]
    BY <1>5, <2>0, <2>1 DEF Reserve, Starts, TypeOK
  <2>3. \A d \in Callers : pc'[d] # "idle" => call'[d].gate \in Gates
    BY <1>5 DEF Reserve, Starts, TypeOK
  <2> QED
    BY <1>5, <2>2, <2>3 DEF Reserve, Starts, TypeOK
<1>6. ASSUME NEW c \in Callers, Throttled(c) PROVE TypeOK'
  <2>1. Gate(c) \in Gates
    BY <1>6, GateTimes DEF Throttled
  <2>2. PICK d \in Nat : Extend(Gate(c), now + d)
    BY <1>6, ConstantsAssumption DEF Throttled, TypeOK
  <2>3. /\ Later(blockedUntil[Gate(c)], now + d) \in Nat
        /\ Later(told[Gate(c)], now + d) \in Nat
    BY <2>1, <2>2, LaterMax DEF TypeOK
  <2>4. blockedUntil' \in [Gates -> Nat] /\ told' \in [Gates -> Nat]
    BY <2>2, <2>3 DEF Extend, TypeOK
  <2>5. CASE Return(c)
    BY <1>6, <2>4, <2>5, ReturnType DEF Throttled, TypeOK
  <2>6. CASE Retries(c)
    <3>0. attempt[c] + 1 \in 0 .. MaxReadRetries
      BY <2>6, ConstantsAssumption DEF Retries, TypeOK
    <3>1. attempt' \in [Callers -> 0 .. MaxReadRetries]
      BY <1>6, <2>6, <3>0 DEF Throttled, TypeOK
    <3> QED
      BY <1>6, <2>4, <2>6, <3>1 DEF Throttled, TypeOK
  <2> QED
    BY <1>6, <2>5, <2>6 DEF Throttled
<1>7. ASSUME NEW p \in Providers, Build(p) PROVE TypeOK'
  BY <1>7, ConstantsAssumption DEF Build, TypeOK
<1>8. CASE Pass
  BY <1>8 DEF Pass, TypeOK
<1>9. CASE UNCHANGED vars
  BY <1>9 DEF vars, TypeOK
<1> QED
  BY <1>1, <1>2, <1>3, <1>4, <1>5, <1>6, <1>7, <1>8, <1>9 DEF Next

\* The type invariant, with what a provider's budget allows: no sequence of
\* cooldowns makes it wait for longer than MaxInlineRetryWait in all.
THEOREM TypeCorrect == Spec => []TypeOK
BY InitType, NextType, PTL DEF Spec

-----------------------------------------------------------------------------
(* The invariant *)

\* The gate knows when it was last passed, and what it was told.
GatesKnow ==
    \A g \in Gates :
        /\ lastStart[g] + Pace <= next[g] /\ lastStart[g] <= now
        /\ blockedUntil[g] = told[g]

\* A sleep ends within its wait, and nobody sleeps over its end.
SleepsFit ==
    \A c \in Callers :
        /\ pc[c] = "wait" => now <= started[c] + MaxInlineDelay
        /\ pc[c] = "sleep" => now <= wakeAt[c] /\ wakeAt[c] <= started[c] + MaxInlineDelay

\* How often a call was made when it is at a step.
SentSoFar ==
    \A c \in Callers :
        /\ ~call[c].read => attempt[c] = 0
        /\ pc[c] = "idle" => attempt[c] = 0 /\ sent[c] = 0
        /\ sent[c] <= IF pc[c] = "call" THEN attempt[c] + 1 ELSE attempt[c]

QInv == TypeOK /\ GatesKnow /\ SleepsFit /\ SentSoFar

LEMMA InitInv == Init => QInv
BY InitType, ConstantsAssumption DEF Init, QInv, TypeOK, GatesKnow, SleepsFit, SentSoFar, NoCall

LEMMA OthersStay ==
  ASSUME QInv, NEW c \in Callers, now' = now,
         \A d \in Callers \ {c} :
           pc'[d] = pc[d] /\ call'[d] = call[d] /\ attempt'[d] = attempt[d] /\
           started'[d] = started[d] /\ wakeAt'[d] = wakeAt[d] /\ sent'[d] = sent[d],
         pc'[c] = "wait" => now <= started'[c] + MaxInlineDelay,
         pc'[c] = "sleep" => now <= wakeAt'[c] /\ wakeAt'[c] <= started'[c] + MaxInlineDelay,
         ~call'[c].read => attempt'[c] = 0,
         pc'[c] = "idle" => attempt'[c] = 0 /\ sent'[c] = 0,
         sent'[c] <= IF pc'[c] = "call" THEN attempt'[c] + 1 ELSE attempt'[c]
  PROVE  SleepsFit' /\ SentSoFar'
BY DEF QInv, SleepsFit, SentSoFar

LEMMA ReturnFits ==
  ASSUME QInv, NEW c \in Callers, now' = now, Return(c)
  PROVE  SleepsFit' /\ SentSoFar'
<1>1. /\ pc'[c] = "idle" /\ call'[c] = NoCall /\ attempt'[c] = 0 /\ sent'[c] = 0
      /\ \A d \in Callers \ {c} :
           pc'[d] = pc[d] /\ call'[d] = call[d] /\ attempt'[d] = attempt[d] /\
           started'[d] = started[d] /\ wakeAt'[d] = wakeAt[d] /\ sent'[d] = sent[d]
  BY DEF QInv, TypeOK, Return
<1> QED
  BY <1>1, OthersStay DEF NoCall

LEMMA NextInv == QInv /\ [Next]_vars => QInv'
<1> SUFFICES ASSUME QInv, [Next]_vars PROVE GatesKnow' /\ SleepsFit' /\ SentSoFar'
  BY NextType DEF QInv
<1>0. TypeOK /\ GatesKnow /\ SleepsFit /\ SentSoFar
  BY DEF QInv
<1> USE DEF gates, callers, Goto
<1>1. ASSUME NEW c \in Callers, Request(c) PROVE GatesKnow' /\ SleepsFit' /\ SentSoFar'
  <2>1. /\ pc[c] = "idle" /\ pc'[c] = "wait" /\ started'[c] = now
        /\ attempt'[c] = 0 /\ sent'[c] = 0 /\ now' = now /\ now \in Nat
        /\ \A d \in Callers \ {c} :
             pc'[d] = pc[d] /\ call'[d] = call[d] /\ attempt'[d] = attempt[d] /\
             started'[d] = started[d] /\ wakeAt'[d] = wakeAt[d] /\ sent'[d] = sent[d]
    BY <1>0, <1>1 DEF Request, TypeOK, SentSoFar
  <2>2. SleepsFit' /\ SentSoFar'
    BY <2>1, ConstantsAssumption, OthersStay
  <2> QED
    BY <1>0, <1>1, <2>2 DEF Request, GatesKnow
<1>2. ASSUME NEW c \in Callers, Defer(c) \/ Cancel(c) \/ Respond(c)
      PROVE  GatesKnow' /\ SleepsFit' /\ SentSoFar'
  BY <1>0, <1>2, ReturnFits DEF Defer, Cancel, Respond, GatesKnow
<1>3. ASSUME NEW c \in Callers, Sleep(c) PROVE GatesKnow' /\ SleepsFit' /\ SentSoFar'
  <2>1. Delay(c) \in Int /\ now \in Nat /\ started[c] \in Nat
    BY <1>0, <1>3, GateTimes DEF Sleep, TypeOK
  <2>2. now <= now + Delay(c) /\ now + Delay(c) <= started[c] + MaxInlineDelay
    BY <1>3, <2>1, ConstantsAssumption DEF Sleep, Inline
  <2>3. /\ pc[c] = "wait" /\ pc'[c] = "sleep" /\ wakeAt'[c] = now + Delay(c) /\ now' = now
        /\ UNCHANGED <<call, attempt, started, sent>>
    BY <1>0, <1>3 DEF Sleep, TypeOK
  <2> QED
    BY <1>0, <1>3, <2>2, <2>3, OthersStay DEF Sleep, TypeOK, GatesKnow, SentSoFar
<1>4. ASSUME NEW c \in Callers, WakeUp(c) PROVE GatesKnow' /\ SleepsFit' /\ SentSoFar'
  <2>1. /\ pc[c] = "sleep" /\ pc'[c] = "wait" /\ now' = now
        /\ UNCHANGED <<call, attempt, started, sent>>
    BY <1>0, <1>4 DEF WakeUp, TypeOK
  <2>2. now <= started[c] + MaxInlineDelay
    BY <1>0, <1>4, <2>1, ConstantsAssumption DEF WakeUp, TypeOK, SleepsFit
  <2> QED
    BY <1>0, <1>4, <2>1, <2>2, OthersStay DEF WakeUp, TypeOK, GatesKnow, SentSoFar
<1>5. ASSUME NEW c \in Callers, Reserve(c) PROVE GatesKnow' /\ SleepsFit' /\ SentSoFar'
  <2>1. /\ pc[c] = "wait" /\ pc'[c] = "call" /\ sent'[c] = sent[c] + 1 /\ now' = now
        /\ UNCHANGED <<call, attempt, started, wakeAt>>
        /\ sent[c] \in Nat /\ attempt[c] \in Nat
    BY <1>0, <1>5, ConstantsAssumption DEF Reserve, Starts, TypeOK
  <2>2. SleepsFit' /\ SentSoFar'
    BY <1>0, <1>5, <2>1, OthersStay DEF Reserve, Starts, TypeOK, SentSoFar
  <2>3. GatesKnow'
    BY <1>0, <1>5, ConstantsAssumption DEF Reserve, Starts, TypeOK, GatesKnow
  <2> QED
    BY <2>2, <2>3
<1>6. ASSUME NEW c \in Callers, Throttled(c) PROVE GatesKnow' /\ SleepsFit' /\ SentSoFar'
  <2>1. GatesKnow'
    BY <1>0, <1>6 DEF Throttled, Extend, TypeOK, GatesKnow
  <2>2. CASE Return(c)
    BY <1>6, <2>1, <2>2, ReturnFits DEF Throttled
  <2>3. CASE Retries(c)
    <3>1. /\ pc[c] = "call" /\ pc'[c] = "wait" /\ attempt'[c] = attempt[c] + 1
          /\ started'[c] = now /\ call[c].read /\ now' = now
          /\ UNCHANGED <<call, wakeAt, sent>>
          /\ sent[c] \in Nat /\ attempt[c] \in Nat /\ now \in Nat
      BY <1>0, <1>6, <2>3, ConstantsAssumption DEF Throttled, Retries, TypeOK
    <3>2. /\ now <= started'[c] + MaxInlineDelay
          /\ sent'[c] <= attempt'[c]
      BY <1>0, <3>1, ConstantsAssumption DEF SentSoFar
    <3> QED
      BY <1>0, <1>6, <2>1, <2>3, <3>1, <3>2, OthersStay DEF Throttled, TypeOK
  <2> QED
    BY <1>6, <2>2, <2>3 DEF Throttled
<1>7. ASSUME NEW p \in Providers, Build(p) PROVE GatesKnow' /\ SleepsFit' /\ SentSoFar'
  BY <1>0, <1>7 DEF Build, GatesKnow, SleepsFit, SentSoFar
<1>8. CASE Pass
  <2>1. \A c \in Callers : pc[c] # "wait" /\ (pc[c] = "sleep" => now + 1 <= wakeAt[c])
    BY <1>0, <1>8 DEF Pass, TypeOK
  <2> QED
    BY <1>0, <1>8, <2>1, ConstantsAssumption DEF Pass, TypeOK, GatesKnow, SleepsFit, SentSoFar
<1>9. CASE UNCHANGED vars
  BY <1>0, <1>9 DEF vars, GatesKnow, SleepsFit, SentSoFar
<1> QED
  BY <1>1, <1>2, <1>3, <1>4, <1>5, <1>6, <1>7, <1>8, <1>9 DEF Next

-----------------------------------------------------------------------------
(* The properties *)

\* No wait at a gate is longer than MaxInlineDelay, whatever the others do.
THEOREM WaitsBoundedHolds == Spec => []WaitsBounded
<1>1. QInv => WaitsBounded
  <2> SUFFICES ASSUME QInv, NEW c \in Callers, pc[c] \in {"wait", "sleep"}
               PROVE  now <= started[c] + MaxInlineDelay
    BY DEF WaitsBounded
  <2>1. now \in Nat /\ wakeAt[c] \in Nat /\ started[c] \in Nat
    BY DEF QInv, TypeOK
  <2> QED
    BY <2>1, ConstantsAssumption DEF QInv, SleepsFit
<1> QED
  BY <1>1, InitInv, NextInv, PTL DEF Spec

\* No mutation is made twice, and no read more often than it may be.
THEOREM SentOnceHolds == Spec => []SentOnce
<1>1. QInv => SentOnce
  <2> SUFFICES ASSUME QInv, NEW c \in Callers
               PROVE  sent[c] <= IF call[c].read THEN MaxReadRetries + 1 ELSE 1
    BY DEF SentOnce
  <2>1. sent[c] \in Nat /\ attempt[c] \in 0 .. MaxReadRetries /\ sent[c] <= attempt[c] + 1
    BY ConstantsAssumption DEF QInv, TypeOK, SentSoFar
  <2>2. ~call[c].read => attempt[c] = 0
    BY DEF QInv, SentSoFar
  <2> QED
    BY <2>1, <2>2, ConstantsAssumption
<1> QED
  BY <1>1, InitInv, NextInv, PTL DEF Spec

\* A step that lets a call through a gate does so when the gate is open.
LEMMA PassesWhenOpen ==
  ASSUME QInv, [Next]_vars, NEW c \in Callers, Passes(c)
  PROVE  Gate(c) \in Gates /\ next[Gate(c)] <= now /\ blockedUntil[Gate(c)] <= now
<1>0. TypeOK
  BY DEF QInv
<1>1. PICK d \in Callers : Reserve(d)
  <2>1. ASSUME NEW d \in Callers,
               Request(d) \/ Defer(d) \/ Sleep(d) \/ WakeUp(d) \/ Cancel(d) \/ Respond(d)
        PROVE  FALSE
    BY <1>0, <2>1 DEF TypeOK, Passes, Request, Defer, Sleep, WakeUp, Cancel, Respond, Return, Goto
  <2>2. ASSUME NEW d \in Callers, Throttled(d) PROVE FALSE
    BY <1>0, <2>2 DEF TypeOK, Passes, Throttled, Return, Goto
  <2>3. ~(UNCHANGED vars) /\ ~Pass /\ ~\E p \in Providers : Build(p)
    BY DEF Passes, vars, Pass, Build, callers
  <2> QED
    BY <2>1, <2>2, <2>3 DEF Next
<1>2. c = d
  BY <1>0, <1>1 DEF TypeOK, Passes, Reserve, Starts, Goto
<1>3. Gate(c) \in Gates /\ Delay(c) <= 0 /\ Delay(c) \in Int
      /\ next[Gate(c)] <= now + Delay(c) /\ blockedUntil[Gate(c)] <= now + Delay(c)
  BY <1>0, <1>1, <1>2, GateTimes DEF Reserve
<1> QED
  BY <1>0, <1>3 DEF TypeOK

\* Calls through one gate start at least Pace apart.
THEOREM PacedHolds == Spec => Paced
<1>1. QInv /\ [Next]_vars =>
        [\A c \in Callers : Passes(c) => now >= lastStart[Gate(c)] + Pace]_pc
  <2> SUFFICES ASSUME QInv, [Next]_vars, NEW c \in Callers, Passes(c)
               PROVE  now >= lastStart[Gate(c)] + Pace
    OBVIOUS
  <2>1. Gate(c) \in Gates /\ next[Gate(c)] <= now
    BY PassesWhenOpen
  <2>2. /\ lastStart[Gate(c)] + Pace <= next[Gate(c)] /\ lastStart[Gate(c)] \in Int
        /\ next[Gate(c)] \in Nat /\ now \in Nat
    BY <2>1 DEF QInv, TypeOK, GatesKnow
  <2> QED
    BY <2>1, <2>2, ConstantsAssumption
<1> QED
  BY <1>1, InitInv, NextInv, PTL DEF Spec, Paced

\* No call starts before the end of a cooldown that any caller was told of.
THEOREM CooldownKeptHolds == Spec => CooldownKept
<1>1. QInv /\ [Next]_vars =>
        [\A c \in Callers : Passes(c) => now >= told[Gate(c)]]_pc
  <2> SUFFICES ASSUME QInv, [Next]_vars, NEW c \in Callers, Passes(c)
               PROVE  now >= told[Gate(c)]
    OBVIOUS
  <2>1. Gate(c) \in Gates /\ blockedUntil[Gate(c)] <= now
    BY PassesWhenOpen
  <2>2. told[Gate(c)] = blockedUntil[Gate(c)]
    BY <2>1 DEF QInv, GatesKnow
  <2> QED
    BY <2>1, <2>2 DEF QInv, TypeOK
<1> QED
  BY <1>1, InitInv, NextInv, PTL DEF Spec, CooldownKept
=============================================================================
