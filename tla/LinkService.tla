---------------------------- MODULE LinkService ----------------------------
(***************************************************************************)
(* What the bridge may rely on of its link events (src/src/edp/session.rs  *)
(* LinkEvent, src/src/bridge.rs on_link_event), without the connections,   *)
(* the slot and the queue that PanelLink models: it refines this           *)
(* specification.                                                          *)
(*                                                                         *)
(* A session comes up at most once and ends at most once.  The bridge      *)
(* learns of both, of the end last, while it awaits no query.  A session   *)
(* becomes the link when the bridge learns that it is up, and is dropped   *)
(* when it learns of that session's end.  Nothing is promised of the order *)
(* between sessions: the last to come up need not be the last to be learnt *)
(* of.  SIA events change none of this.                                    *)
(***************************************************************************)
CONSTANTS Sessions, NoSession

VARIABLES
  up,      \* sessions that have come up, also those that have ended since
  down,    \* sessions that have ended, also those that never came up
  known,   \* the bridge has learnt that they came up ...
  gone,    \* ... and that they ended
  link,    \* the bridge's link
  asking   \* the session it awaits a query on

service == <<up, down, known, gone, link, asking>>

Init ==
  /\ up = {} /\ down = {}
  /\ known = {} /\ gone = {}
  /\ link = NoSession /\ asking = NoSession

ComeUp(s) ==
  /\ s \notin up \cup down
  /\ up' = up \cup {s}
  /\ UNCHANGED <<down, known, gone, link, asking>>

End(s) ==
  /\ s \notin down
  /\ down' = down \cup {s}
  /\ UNCHANGED <<up, known, gone, link, asking>>

\* The initial refresh starts at once.
LearnUp(s) ==
  /\ asking = NoSession
  /\ s \in up \ (known \cup gone)
  /\ known' = known \cup {s}
  /\ link' = s /\ asking' = s
  /\ UNCHANGED <<up, down, gone>>

\* The end of a session is learnt of behind its start, and is its own only.
LearnEnd(s) ==
  /\ asking = NoSession
  /\ s \in down \ gone
  /\ s \in up => s \in known
  /\ gone' = gone \cup {s}
  /\ link' = IF link = s THEN NoSession ELSE link
  /\ UNCHANGED <<up, down, known, asking>>

Query ==
  /\ asking = NoSession /\ link # NoSession
  /\ asking' = link
  /\ UNCHANGED <<up, down, known, gone, link>>

QueryReturns ==
  /\ asking # NoSession
  /\ asking' = NoSession
  /\ UNCHANGED <<up, down, known, gone, link>>

Next ==
  \/ \E s \in Sessions : ComeUp(s) \/ End(s) \/ LearnUp(s) \/ LearnEnd(s)
  \/ Query \/ QueryReturns

Spec == Init /\ [][Next]_service
=============================================================================
