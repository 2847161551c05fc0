------------------------- MODULE Invitations_proofs -------------------------
(***************************************************************************)
(* Proofs about Invitations, for any invitations, repliers, durations and  *)
(* bounds: the type invariant, that the loop never sleeps over an          *)
(* invitation, and that each is shown once.                                *)
(***************************************************************************)
EXTENDS Invitations, TLAPS

LEMMA ConstantTypes ==
  /\ Starts \subseteq Nat /\ Starts # {}
  /\ Lookahead \in Nat /\ PruneAfter \in Nat /\ MaxWake \in Nat /\ Coalesce \in Nat
  /\ Horizon \in Nat /\ MaxChanges \in Nat /\ MaxTroubles \in Nat /\ MaxReplies \in Nat
  /\ Coalesce <= MaxWake /\ MaxWake > 0
BY ConstantsAssumption

LEMMA InitType == Init => TypeOK
<1> SUFFICES ASSUME Init PROVE TypeOK
  OBVIOUS
<1>1. remote \in [Events -> Copies] /\ local \in [Events -> Copies]
  BY DEF Init, Copies
<1>2. fetched \in [Events -> Copies \cup {Nothing}] /\ reply \in [Repliers -> Steps]
  BY DEF Init, Steps
<1>3. /\ row \in [Events -> Starts \cup {None}] /\ prompts \in [Events -> Nat]
      /\ unrecorded \in [Events -> Nat]
  BY DEF Init
<1>4. /\ now \in 0 .. Horizon /\ timer \in 0 .. MaxWake /\ suspended \in 0 .. now
      /\ changes \in 0 .. MaxChanges /\ troubles \in 0 .. MaxTroubles /\ replies \in 0 .. MaxReplies
  BY ConstantTypes DEF Init
<1> QED
  BY <1>1, <1>2, <1>3, <1>4 DEF Init, TypeOK

\* Another step of a reply: what it writes are copies.
LEMMA AcceptedType ==
  ASSUME NEW c \in Copies, c # Absent
  PROVE  [c EXCEPT !.status = "accepted"] \in Copies
BY DEF Copies, Absent

LEMMA NextType == TypeOK /\ [Next]_vars => TypeOK'
<1> SUFFICES ASSUME TypeOK, [Next]_vars PROVE TypeOK'
  OBVIOUS
<1> USE ConstantTypes DEF TypeOK, copies, sleep, loop, shown, bounds, Trouble
<1>1. CASE Start
  BY <1>1 DEF Start
<1>2. CASE TakeWake
  <2>1. timer' \in 0 .. MaxWake
    BY <1>2 DEF TakeWake
  <2> QED
    BY <1>2, <2>1 DEF TakeWake
<1>3. CASE Tick
  BY <1>3 DEF Tick, Invites, Copies, Absent
<1>4. CASE TickSkips
  BY <1>4 DEF TickSkips
<1>5. CASE Send
  BY <1>5 DEF Send
<1>6. CASE SendFails
  BY <1>6 DEF SendFails
<1>7. CASE SetInvitationNotified
  <2>1. unrecorded' \in [Events -> Nat] /\ row' \in [Events -> Starts \cup {None}]
    BY <1>7 DEF SetInvitationNotified
  <2> QED
    BY <1>7, <2>1 DEF SetInvitationNotified
<1>8. CASE SetInvitationNotifiedFails
  BY <1>8 DEF SetInvitationNotifiedFails
<1>9. CASE Remember
  BY <1>9 DEF Remember
<1>10. CASE Park
  BY <1>10 DEF Park
<1>11. CASE Crash
  <2>1. fetched' \in [Events -> Copies \cup {Nothing}] /\ reply' \in [Repliers -> Steps]
    BY <1>11 DEF Crash, Steps
  <2>2. unsent' \subseteq Events /\ todo' \subseteq Events \X Starts /\ pending' \subseteq Events
    BY <1>11 DEF Crash
  <2>3. troubles' \in 0 .. MaxTroubles /\ UNCHANGED <<changes, replies>>
    BY <1>11 DEF Crash
  <2> QED
    BY <1>11, <2>1, <2>2, <2>3 DEF Crash
<1>12. ASSUME NEW p \in Repliers, Reply(p) PROVE TypeOK'
  <2>1. reply' \in [Repliers -> Steps]
    BY <1>12, AcceptedType DEF Reply, Steps
  <2> QED
    BY <1>12, <2>1 DEF Reply
<1>13. ASSUME NEW p \in Repliers, Submit(p) PROVE TypeOK'
  <2>1. reply[p] \in [step : {"submit", "store"}, event : Events, copy : Copies]
    BY <1>13 DEF Submit, Steps, Idle
  <2>2. remote' \in [Events -> Copies] /\ unsent' \subseteq Events /\ reply' \in [Repliers -> Steps]
    BY <1>13, <2>1, AcceptedType DEF Submit, Steps
  <2> QED
    BY <1>13, <2>2 DEF Submit
<1>14. ASSUME NEW p \in Repliers, SubmitFails(p) \/ StoreFails(p) PROVE TypeOK'
  BY <1>14 DEF SubmitFails, StoreFails, Steps
<1>15. ASSUME NEW p \in Repliers, Store(p) PROVE TypeOK'
  <2>1. reply[p] \in [step : {"submit", "store"}, event : Events, copy : Copies]
    BY <1>15 DEF Store, Steps, Idle
  <2>2. local' \in [Events -> Copies] /\ reply' \in [Repliers -> Steps]
    BY <1>15, <2>1 DEF Store, Steps
  <2> QED
    BY <1>15, <2>2 DEF Store
<1>16. ASSUME NEW e \in Events, Fetch(e) PROVE TypeOK'
  BY <1>16 DEF Fetch
<1>17. ASSUME NEW e \in Events, Apply(e) PROVE TypeOK'
  <2>1. local' \in [Events -> Copies]
    BY <1>17 DEF Apply
  <2> QED
    BY <1>17, <2>1 DEF Apply
<1>18. ASSUME NEW e \in Events, Change(e) PROVE TypeOK'
  <2>1. remote' \in [Events -> Copies]
    BY <1>18 DEF Change
  <2> QED
    BY <1>18, <2>1 DEF Change
<1>19. ASSUME NEW e \in Events, Close(e) PROVE TypeOK'
  BY <1>19 DEF Close
<1>20. CASE SetEnabled
  BY <1>20 DEF SetEnabled
<1>21. CASE Pass \/ Suspend
  <2>1. now' \in 0 .. Horizon /\ timer' \in 0 .. MaxWake /\ suspended' \in 0 .. now'
    BY <1>21 DEF Pass, Suspend
  <2>2. troubles' \in 0 .. MaxTroubles /\ UNCHANGED <<changes, replies>>
    BY <1>21 DEF Pass, Suspend
  <2> QED
    BY <1>21, <2>1, <2>2 DEF Pass, Suspend
<1>22. CASE UNCHANGED vars
  BY <1>22 DEF vars
<1> QED
  BY <1>1, <1>2, <1>3, <1>4, <1>5, <1>6, <1>7, <1>8, <1>9, <1>10, <1>11, <1>12, <1>13, <1>14,
     <1>15, <1>16, <1>17, <1>18, <1>19, <1>20, <1>21, <1>22 DEF Next, LoopStep, ReplyStep

\* The type invariant, with the longest sleep the loop may begin.
THEOREM TypeCorrect == Spec => []TypeOK
BY InitType, NextType, PTL DEF Spec

-----------------------------------------------------------------------------
(* The loop never sleeps over an invitation *)

\* A row is written of what was shown.
RowsShown ==
    /\ \A e \in Events : row[e] # None => prompts[e] > 0
    /\ pc \in {"record", "remember"} => prompts[current[1]] > 0

\* In a pass, an invitation that was never shown is in what is left to show, unless
\* it was stored since, and a token waits, or came into the window in a suspend.
PassCovers ==
    pc \in {"fire", "record", "remember"} /\ ~wake =>
        \A e \in Events : Invites(e) /\ prompts[e] = 0 =>
            \/ e \in excused \/ \E t \in todo : t[1] = e
            \/ now <= local[e].start - Lookahead + suspended

SInv == TypeOK /\ RowsShown /\ PassCovers /\ NothingUnseenAsleep

LEMMA InitSleep == Init => SInv
BY InitType DEF Init, SInv, RowsShown, PassCovers, NothingUnseenAsleep

\* A step after which the loop has a token, or is off.
LEMMA AwakeStep ==
  ASSUME SInv, TypeOK', wake' \/ pc' = "off", UNCHANGED <<row, prompts>>,
         pc' \in {"record", "remember"} => pc = pc' /\ current' = current
  PROVE  SInv'
BY DEF SInv, RowsShown, PassCovers, NothingUnseenAsleep

\* A step that leaves the loop, the clock and the stored copies alone.
LEMMA OtherStep ==
  ASSUME SInv, TypeOK', UNCHANGED <<row, prompts, pc, wake, sleep, todo, current, excused, local, now>>
  PROVE  SInv'
BY DEF SInv, RowsShown, PassCovers, NothingUnseenAsleep, Invites, sleep

LEMMA TimesType ==
  ASSUME TypeOK
  PROVE  /\ now \in Nat /\ timer \in Nat /\ timer <= MaxWake /\ suspended \in Nat
         /\ \A e \in Events : local[e].start \in Nat
<1>1. ASSUME NEW e \in Events PROVE local[e].start \in Nat
  <2>1. CASE local[e] \in [start : Starts, status : {"needsAction", "accepted"}]
    BY <2>1, ConstantTypes
  <2>2. CASE local[e] = Absent
    BY <2>2 DEF Absent
  <2> QED
    BY <2>1, <2>2 DEF Copies, TypeOK
<1> QED
  BY <1>1, ConstantTypes DEF TypeOK

LEMMA NextSleep == SInv /\ [Next]_vars => SInv'
<1> SUFFICES ASSUME SInv, [Next]_vars PROVE SInv'
  OBVIOUS
<1>0. TypeOK /\ TypeOK'
  BY NextType DEF SInv
<1> USE ConstantTypes, <1>0 DEF copies, sleep, loop, shown, bounds
<1>1. CASE Start
  BY <1>1 DEF Start, SInv, RowsShown, PassCovers, NothingUnseenAsleep, TypeOK
<1>2. CASE TakeWake
  BY <1>2 DEF TakeWake, SInv, RowsShown, PassCovers, NothingUnseenAsleep, TypeOK
<1>3. CASE Tick
  <2>1. \A e \in Events : prompts[e] = 0 => row[e] = None
    BY DEF SInv, RowsShown, TypeOK
  <2>2. ASSUME NEW e \in Events, Invites(e), prompts[e] = 0
        PROVE  \E t \in todo' : t[1] = e
    <3>1. ~Notified(e)
      BY <2>1, <2>2 DEF Notified
    <3>2. <<e, local[e].start>> \in todo'
      BY <1>3, <2>2, <3>1 DEF Tick
    <3> QED
      BY <3>2
  <2>3. pc' = "fire" /\ UNCHANGED <<now, local, prompts, row>>
    BY <1>3 DEF Tick
  <2> QED
    BY <2>2, <2>3 DEF SInv, RowsShown, PassCovers, NothingUnseenAsleep, Invites
<1>4. CASE TickSkips
  BY <1>4 DEF TickSkips, SInv, RowsShown, PassCovers, NothingUnseenAsleep
<1>5. CASE Send
  <2>1. PICK t \in todo : /\ current' = t /\ todo' = todo \ {t}
                          /\ prompts' = [prompts EXCEPT ![t[1]] = @ + 1]
    BY <1>5 DEF Send
  <2>2. /\ pc = "fire" /\ pc' = "record" /\ UNCHANGED <<row, wake, local, now, suspended, excused>>
        /\ t \in Events \X Starts
    BY <1>5 DEF Send, TypeOK
  <2>3. \A e \in Events : prompts'[e] = 0 => prompts[e] = 0 /\ e # t[1]
    BY <2>1, <2>2 DEF TypeOK
  <2>4. RowsShown'
    BY <2>1, <2>2, <2>3 DEF SInv, RowsShown, TypeOK
  <2>5. PassCovers'
    BY <2>1, <2>2, <2>3 DEF SInv, PassCovers, Invites
  <2> QED
    BY <2>2, <2>4, <2>5 DEF SInv, NothingUnseenAsleep
<1>6. CASE SendFails
  BY <1>6 DEF SendFails, SInv, RowsShown, PassCovers, NothingUnseenAsleep, Invites
<1>7. CASE SetInvitationNotified
  BY <1>7 DEF SetInvitationNotified, SInv, RowsShown, PassCovers, NothingUnseenAsleep, Invites, TypeOK
<1>8. CASE SetInvitationNotifiedFails
  BY <1>8 DEF SetInvitationNotifiedFails, SInv, RowsShown, PassCovers, NothingUnseenAsleep, Invites
<1>9. CASE Remember
  BY <1>9 DEF Remember, SInv, RowsShown, PassCovers, NothingUnseenAsleep, Invites
<1>10. CASE Park
  BY <1>10, TimesType DEF Park, SInv, RowsShown, PassCovers, NothingUnseenAsleep, Invites
<1>11. CASE Crash
  BY <1>11, AwakeStep DEF Crash
<1>12. ASSUME NEW p \in Repliers, Reply(p) \/ Submit(p) \/ SubmitFails(p) \/ StoreFails(p) PROVE SInv'
  BY <1>12, OtherStep DEF Reply, Submit, SubmitFails, StoreFails
<1>13. ASSUME NEW p \in Repliers, Store(p) PROVE SInv'
  BY <1>13, AwakeStep DEF Store
<1>14. ASSUME NEW e \in Events, Apply(e) PROVE SInv'
  BY <1>14, AwakeStep DEF Apply
<1>15. ASSUME NEW e \in Events, Fetch(e) \/ Change(e) \/ Close(e) PROVE SInv'
  BY <1>15, OtherStep DEF Fetch, Change, Close
<1>16. CASE SetEnabled \/ UNCHANGED vars
  BY <1>16, OtherStep DEF SetEnabled, vars
<1>17. CASE Pass
  <2>1. /\ now' = now + 1 /\ UNCHANGED <<local, prompts, row, pc, wake, suspended, current, excused>>
        /\ pc = "off" \/ (pc = "park" /\ timer' = timer - 1)
    BY <1>17 DEF Pass
  <2>2. ASSUME NEW e \in Events, Invites(e)'
        PROVE  Invites(e) \/ local[e].start = now + 1 + Lookahead
    BY TimesType, <2>1, <2>2 DEF Invites
  <2>3. NothingUnseenAsleep'
    BY TimesType, <2>1, <2>2 DEF SInv, NothingUnseenAsleep
  <2> QED
    BY <2>1, <2>3 DEF SInv, RowsShown, PassCovers
<1>18. CASE Suspend
  <2>1. PICK d \in 1 .. Horizon - now : now' = now + d /\ suspended' = suspended + d
    BY <1>18 DEF Suspend
  <2>2. d \in Nat /\ UNCHANGED <<local, prompts, row, pc, wake, timer, todo, current, excused>>
    BY TimesType, <1>18 DEF Suspend
  <2>3. ASSUME NEW e \in Events, Invites(e)'
        PROVE  Invites(e) \/ local[e].start > now + Lookahead
    BY TimesType, <2>1, <2>2, <2>3 DEF Invites
  <2>4. NothingUnseenAsleep'
    BY TimesType, <2>1, <2>2, <2>3 DEF SInv, NothingUnseenAsleep
  <2>5. PassCovers'
    BY TimesType, <2>1, <2>2, <2>3 DEF SInv, PassCovers
  <2> QED
    BY <2>2, <2>4, <2>5 DEF SInv, RowsShown
<1> QED
  BY <1>1, <1>2, <1>3, <1>4, <1>5, <1>6, <1>7, <1>8, <1>9, <1>10, <1>11, <1>12, <1>13, <1>14,
     <1>15, <1>16, <1>17, <1>18 DEF Next, LoopStep, ReplyStep

\* The wake channel, the coalescing timer and the backstop together: whatever is
\* stored while the loop sleeps or scans, it wakes in time, but for the time that the
\* machine is suspended in, which the timer does not count.
THEOREM NothingUnseenAsleepHolds == Spec => []NothingUnseenAsleep
<1>1. SInv => NothingUnseenAsleep
  BY DEF SInv
<1> QED
  BY <1>1, InitSleep, NextSleep, PTL DEF Spec

-----------------------------------------------------------------------------
(* Each invitation is shown once *)

\* Every start that is recorded, or about to be, was in the window when it was read.
StartsSeen ==
    /\ \A e \in Events : row[e] # None => row[e] <= now + Lookahead
    /\ \A t \in todo : t[2] <= now + Lookahead
    /\ pc \in {"record", "remember"} => current[2] <= now + Lookahead

\* An invitation that was shown and recorded has its row, until every time that it
\* could be moved to has passed.
RowsLast ==
    \A e \in Events : prompts[e] > unrecorded[e] =>
        row[e] # None \/ \A s \in Starts : s < now

\* What is left to show has no showing on record, and is not what is being shown.
TodoNew ==
    /\ \A t \in todo : prompts[t[1]] <= unrecorded[t[1]]
    /\ \A t, u \in todo : t[1] = u[1] => t = u
    /\ pc = "record" => /\ prompts[current[1]] <= unrecorded[current[1]]
                        /\ \A t \in todo : t[1] # current[1]

PInv == TypeOK /\ StartsSeen /\ RowsLast /\ TodoNew /\ PromptedOnce

LEMMA InitPrompts == Init => PInv
BY InitType DEF Init, PInv, StartsSeen, RowsLast, TodoNew, PromptedOnce

\* A step that leaves alone what a showing is decided by.
LEMMA QuietStep ==
  ASSUME PInv, TypeOK', UNCHANGED <<row, prompts, unrecorded, now>>, todo' \subseteq todo,
         pc' = "remember" => pc \in {"record", "remember"},
         pc' = "record" => pc = "record", UNCHANGED current
  PROVE  PInv'
BY DEF PInv, StartsSeen, RowsLast, TodoNew, PromptedOnce, TypeOK

LEMMA NextPrompts ==
  ASSUME RowsStayInSight
  PROVE  PInv /\ [Next]_vars => PInv'
<1> SUFFICES ASSUME PInv, [Next]_vars PROVE PInv'
  OBVIOUS
<1>0. TypeOK /\ TypeOK'
  BY NextType DEF PInv
<1>a. now \in Nat /\ \A e \in Events : prompts[e] \in Nat /\ unrecorded[e] \in Nat
  BY ConstantTypes, <1>0 DEF TypeOK
<1>b. \A e \in Events : row[e] \in Starts \cup {None} /\ (row[e] # None => row[e] \in Nat)
  BY ConstantTypes, <1>0 DEF TypeOK, None
<1>c. \A s \in Starts : s \in Nat /\ \A t \in Starts : s <= t + PruneAfter
  BY ConstantTypes DEF RowsStayInSight
<1> USE ConstantTypes, <1>0 DEF copies, sleep, loop, shown, bounds
<1>1. CASE Start
  <2>1. /\ pc' = "park" /\ UNCHANGED <<now, todo, prompts, unrecorded>>
        /\ \A e \in Events : row'[e] = IF row[e] < now - PruneAfter THEN None ELSE row[e]
    BY <1>1 DEF Start
  <2>2. ASSUME NEW e \in Events, prompts[e] > unrecorded[e], row'[e] = None, NEW s \in Starts
        PROVE  s < now
    <3>1. CASE row[e] = None
      BY <2>2, <3>1 DEF PInv, RowsLast
    <3>2. CASE row[e] # None
      <4>1. row[e] < now - PruneAfter /\ row[e] \in Starts /\ row[e] \in Nat
        BY <2>1, <2>2, <3>2, <1>b
      <4> QED
        BY <4>1, <1>a, <1>c
    <3> QED
      BY <3>1, <3>2
  <2>3. RowsLast'
    BY <2>1, <2>2 DEF RowsLast
  <2>4. StartsSeen' /\ TodoNew' /\ PromptedOnce'
    BY <2>1 DEF PInv, StartsSeen, TodoNew, PromptedOnce
  <2> QED
    BY <2>3, <2>4 DEF PInv
<1>2. CASE Tick
  <2>1. /\ pc' = "fire" /\ UNCHANGED <<now, row, prompts, unrecorded>>
        /\ todo' = {<<e, local[e].start>> : e \in {f \in Events : Invites(f) /\ ~Notified(f)}}
    BY <1>2 DEF Tick
  <2>2. ASSUME NEW e \in Events, Invites(e), ~Notified(e)
        PROVE  prompts[e] <= unrecorded[e]
    <3>1. local[e].start \in Starts /\ local[e].start > now
      <4>1. local[e] \in Copies /\ local[e].status = "needsAction" /\ local[e].start > now
        BY <2>2 DEF Invites, TypeOK
      <4>2. local[e] # Absent
        BY <4>1 DEF Absent
      <4> QED
        BY <4>1, <4>2 DEF Copies
    <3>2. row[e] = None
      <4> SUFFICES ASSUME row[e] # None PROVE FALSE
        OBVIOUS
      <4>1. row[e] \in Nat /\ row[e] \in Starts /\ row[e] <= now + Lookahead
        BY <1>b DEF PInv, StartsSeen
      <4>2. row[e] < now - PruneAfter
        <5>1. PruneAfter \in Nat /\ Lookahead \in Nat
          BY ConstantTypes
        <5> QED
          BY <2>2, <4>1, <5>1, <1>a DEF Notified
      <4>3. local[e].start <= row[e] + PruneAfter
        BY <3>1, <4>1, <1>c
      <4>4. local[e].start \in Nat /\ PruneAfter \in Nat
        BY <3>1, <1>c, ConstantTypes
      <4> QED
        BY <3>1, <4>1, <4>2, <4>3, <4>4, <1>a
    <3>3. ~(prompts[e] > unrecorded[e])
      <4> SUFFICES ASSUME prompts[e] > unrecorded[e] PROVE FALSE
        OBVIOUS
      <4>1. \A s \in Starts : s < now
        BY <3>2 DEF PInv, RowsLast
      <4>2. local[e].start < now /\ local[e].start \in Nat
        BY <3>1, <4>1, <1>c
      <4> QED
        BY <3>1, <4>2, <1>a
    <3> QED
      BY <3>3, <1>a
  <2>3. \A t \in todo' : \E e \in Events : Invites(e) /\ ~Notified(e) /\ t = <<e, local[e].start>>
    BY <2>1
  <2>4. StartsSeen'
    BY <2>1, <2>3 DEF PInv, StartsSeen, Invites
  <2>5. TodoNew'
    BY <2>1, <2>2, <2>3 DEF TodoNew
  <2> QED
    BY <2>1, <2>4, <2>5 DEF PInv, RowsLast, PromptedOnce
<1>3. CASE Send
  <2>1. PICK t \in todo : /\ current' = t /\ todo' = todo \ {t}
                          /\ prompts' = [prompts EXCEPT ![t[1]] = @ + 1]
                          /\ unrecorded' = [unrecorded EXCEPT ![t[1]] = @ + 1]
    BY <1>3 DEF Send
  <2>2. pc' = "record" /\ UNCHANGED <<row, now>> /\ t \in Events \X Starts
    BY <1>3 DEF Send, TypeOK
  <2>3. /\ prompts'[t[1]] = prompts[t[1]] + 1 /\ unrecorded'[t[1]] = unrecorded[t[1]] + 1
        /\ \A e \in Events \ {t[1]} : prompts'[e] = prompts[e] /\ unrecorded'[e] = unrecorded[e]
    BY <2>1, <2>2 DEF TypeOK
  <2>4. StartsSeen'
    BY <2>1, <2>2 DEF PInv, StartsSeen
  <2>5. RowsLast' /\ PromptedOnce'
    BY <2>2, <2>3, <1>a DEF PInv, RowsLast, PromptedOnce
  <2>6. \A u \in todo' : u[1] # t[1] /\ u[1] \in Events /\ u \in todo
    BY <2>1 DEF PInv, TodoNew, TypeOK
  <2>7. TodoNew'
    <3>1. \A u \in todo' : prompts'[u[1]] <= unrecorded'[u[1]]
      BY <2>3, <2>6 DEF PInv, TodoNew
    <3>2. prompts'[t[1]] <= unrecorded'[t[1]]
      BY <2>3, <2>1, <2>2, <1>a DEF PInv, TodoNew
    <3> QED
      BY <2>1, <2>6, <3>1, <3>2 DEF PInv, TodoNew
  <2> QED
    BY <2>4, <2>5, <2>7 DEF PInv
<1>4. CASE SetInvitationNotified
  <2> DEFINE c == current[1]
  <2>1. /\ pc = "record" /\ pc' = "remember" /\ UNCHANGED <<now, todo, prompts, current>>
        /\ c \in Events /\ current[2] \in Starts
        /\ row' = [row EXCEPT ![c] = current[2]]
        /\ unrecorded' = [unrecorded EXCEPT ![c] = @ - 1]
    BY <1>4 DEF SetInvitationNotified, TypeOK
  <2>2. /\ row'[c] = current[2] /\ unrecorded'[c] = unrecorded[c] - 1
        /\ \A e \in Events \ {c} : row'[e] = row[e] /\ unrecorded'[e] = unrecorded[e]
    BY <2>1 DEF TypeOK
  <2>3. current[2] # None /\ current[2] <= now + Lookahead
    BY <2>1 DEF PInv, StartsSeen, None
  <2>4. StartsSeen'
    BY <2>1, <2>2, <2>3 DEF PInv, StartsSeen
  <2>5. RowsLast' /\ PromptedOnce'
    BY <2>1, <2>2, <2>3, <1>a DEF PInv, RowsLast, PromptedOnce, TodoNew
  <2>6. \A u \in todo : u[1] # c /\ u[1] \in Events
    BY <2>1 DEF PInv, TodoNew, TypeOK
  <2>7. TodoNew'
    BY <2>1, <2>2, <2>6 DEF PInv, TodoNew
  <2> QED
    BY <2>4, <2>5, <2>7 DEF PInv
<1>5. CASE Pass \/ Suspend
  <2>1. /\ now' \in Nat /\ now' >= now
        /\ UNCHANGED <<row, prompts, unrecorded, pc, todo, current>>
    BY <1>5, <1>a DEF Pass, Suspend
  <2>2. StartsSeen'
    <3>1. \A t \in todo : t[2] \in Nat
      BY DEF TypeOK
    <3>2. current[2] \in Nat
      BY DEF TypeOK
    <3> QED
      BY <2>1, <3>1, <3>2, <1>a, <1>b DEF PInv, StartsSeen
  <2>3. RowsLast'
    BY <2>1, <1>a, <1>c DEF PInv, RowsLast
  <2> QED
    BY <2>1, <2>2, <2>3 DEF PInv, TodoNew, PromptedOnce
<1>6. CASE TakeWake \/ TickSkips \/ SendFails \/ SetInvitationNotifiedFails \/ Remember \/ Park
  BY <1>6, QuietStep DEF TakeWake, TickSkips, SendFails, SetInvitationNotifiedFails, Remember, Park
<1>7. CASE Crash \/ SetEnabled \/ UNCHANGED vars
  BY <1>7, QuietStep DEF Crash, SetEnabled, vars
<1>8. ASSUME NEW p \in Repliers, Reply(p) \/ ReplyStep(p) PROVE PInv'
  BY <1>8, QuietStep DEF Reply, ReplyStep, Submit, SubmitFails, Store, StoreFails
<1>9. ASSUME NEW e \in Events, Fetch(e) \/ Apply(e) \/ Change(e) \/ Close(e) PROVE PInv'
  BY <1>9, QuietStep DEF Fetch, Apply, Change, Close
<1> QED
  BY <1>1, <1>2, <1>3, <1>4, <1>5, <1>6, <1>7, <1>8, <1>9 DEF Next, LoopStep, ReplyStep

\* Rows make the notification of an invitation unique across passes, crashes and
\* failures, but for the showings that were not recorded, as long as no meeting moves
\* further than its row is kept in sight.
THEOREM PromptedOnceHolds ==
  ASSUME RowsStayInSight
  PROVE  Spec => []PromptedOnce
<1>1. PInv => PromptedOnce
  BY DEF PInv
<1> QED
  BY <1>1, InitPrompts, NextPrompts, PTL DEF Spec
=============================================================================
