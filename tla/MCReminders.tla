------------------------------ MODULE MCReminders ------------------------------
(* Reminders on small instances.                                           *)
EXTENDS Reminders, TLC

Item(kind, start, at, end) == [kind |-> kind, start |-> start, at |-> at, end |-> end]

\* A timed event and a task with a time of day: one alarm is early enough to come
\* due while the loop sleeps for the other, which is later than the longest park.
PairPlans == { Item("event", 3, 1, 6), Item("task", 5, 4, 5) }

\* Also the second morning of a two-day event, and a task without a time of day.
MCPlans == PairPlans \cup { Item("day", 2, 3, 7), Item("daytask", 3, 3, 3) }

\* A timed event whose alarm leaves room for a snooze, and one that is later.
SnoozePlans == { Item("event", 4, 1, 7), Item("event", 6, 5, 7) }

\* An item that is on the calendar, or has left something behind.
Involved(i) == plan[i] # NoPlan \/ \E k \in Keys : k.item = i /\ (sent[k] > 0 \/ states[k].seen)

\* Two items meet one trouble between them in a shorter time; an item alone is
\* followed further.
Scope ==
  \/ Cardinality({ i \in Items : Involved(i) }) <= 1
  \/ /\ now <= 6 /\ FoldFunction(+, 0, used) <= 1
     /\ \A i \in Items : plan[i] \in PairPlans \cup {NoPlan}

Symmetry == Permutations(Items)

================================================================================
