--------------------------- MODULE DispatcherProps ---------------------------
(* What the trigger dispatcher guarantees about signals and rows. *)
EXTENDS Dispatcher

\* A signal that was processed to the end, or that the dispatcher is known to lose: its
\* batch raised or was interrupted, or it was published before the first commit.
Accounted == Processed \cup dropped \cup missed

\* What is committed is never polled again, so nothing below the offset may still be
\* waiting, whatever crashed between poll, enqueue and commit ("Commit Kafka offsets
\* after successful processing", consume_signals).
CommittedIsAccounted ==
  offset # NoOffset => 1 .. offset \subseteq Accounted

\* A signal triggers its pipelines again only when the partition was given again, to the
\* same dispatcher or to another one: no failing commit and no batch that raises brings
\* it back by itself, however late a dispatcher learns that the group has moved on.
RepeatedByAssignment ==
  \A i \in Instances, s \in Signals : times[i][s] <= given[i]

\* Every published signal is dealt with in the end, whatever crashes.
SignalsAreAccounted == \A s \in Signals : s <= topic ~> s \in Accounted

-------------------------------------------------------------------------------
(* A claim of the comments that the code does not keep                     *)

\* "Cross-pipeline symbol guard - prevent duplicate MONITORING for the same user+symbol
\* across ALL pipelines" (execute_pipeline): one row of the symbol is monitored at most.
SymbolMonitoredOnce ==
  \A r, other \in Rows :
    row[r] # Absent /\ row[other] # Absent =>
      (row[r].status = "MONITORING" /\ row[other].status = "MONITORING" => r = other)
===============================================================================
