----------------------------- MODULE MCCalendarSync -----------------------------
(* CalendarSync on small instances.                                        *)
EXTENDS CalendarSync, TLC

\* Events are interchangeable, and so are the occurrences of the series.
Symmetry == Permutations(Occurrences) \cup Permutations(UIDs \ Occurrences)

================================================================================
