------------------------------ MODULE Timestamps ------------------------------
(***************************************************************************)
(* The dates the backend sends and what the browser makes of them.  The    *)
(* backend keeps UTC; what it sends may name its zone (a Z or an offset)   *)
(* or not, and a browser takes a date without a zone for its own local     *)
(* time.  Instants are in hours, a zone is its offset from UTC in hours.   *)
(***************************************************************************)
EXTENDS Integers, FiniteSets

\* A date that is missing is null.
NoDate == [at |-> 0, zoned |-> FALSE, null |-> TRUE]

\* new Date(text)
BrowserDate(d, zone) == IF d.zoned THEN d.at ELSE d.at - zone

\* What the pages do to a date's text before they parse it: append a Z.
Normalised(d) == [d EXCEPT !.zoned = TRUE]

\* A sort by time is stable: what happens at one time keeps the order of its places.
NotAfter(times, i, j) == times[i] < times[j] \/ (times[i] = times[j] /\ i <= j)

\* The places in the order of their times: the k-th is the one that k of them are not after.
ByTime(places, times) ==
  [k \in 1 .. Cardinality(places) |->
     CHOOSE i \in places : Cardinality({j \in places : NotAfter(times, j, i)}) = k]
===============================================================================
