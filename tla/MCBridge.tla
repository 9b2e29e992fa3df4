------------------------------ MODULE MCBridge ------------------------------
EXTENDS Bridge

\* All zones in the first area; one alert of the two has a name.
MCZoneArea == [z \in Zones |-> CHOOSE a \in Areas : \A b \in Areas : a <= b]
MCZoneClasses == [z \in {2} |-> "window"]
MCLabels == [m \in Modes |-> m]
\* A birth message and a use of a switch take as much room as two other events.
MCCost ==
  [panel |-> 1, session |-> 1, failures |-> 1, broker |-> 1, birth |-> 2, command |-> 2]
MCBudget ==
  [all |-> 4, panel |-> 2, session |-> 3, failures |-> 1, broker |-> 1, birth |-> 1, command |-> 1]

\* A second session with a query that fails, and an event.
MCDeletes ==
  [all |-> 5, panel |-> 1, session |-> 3, failures |-> 1, broker |-> 0, birth |-> 0, command |-> 0]
=============================================================================
