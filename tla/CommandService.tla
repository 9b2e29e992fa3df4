--------------------------- MODULE CommandService ---------------------------
(***************************************************************************)
(* What a task may rely on when it uses the SessionHandle                  *)
(* (src/src/edp/session.rs xml_query and binary_command), without the      *)
(* queues, the tasks and the wire that CommandChannel models: it refines   *)
(* this specification.                                                     *)
(*                                                                         *)
(* A caller asks for a command and waits for its turn.  In its turn, which *)
(* it shares with nobody, it puts requests to the panel: a binary command  *)
(* once, an XML query once for every fragment of the reply.  Then it is    *)
(* answered, and "ok" means that the panel has fulfilled the last request  *)
(* it put.  Once the connection is down no request is put any more.        *)
(***************************************************************************)
EXTENDS Naturals

CONSTANTS
  Callers,       \* tasks holding a clone of the session handle
  MaxFragments   \* MAX_XML_FRAGMENTS

VARIABLES
  phase,         \* "idle", "waiting" for its turn or "serving", for each caller
  kind,          \* "xml" or "binary": the caller's command
  asked,         \* how many requests of its command were put to the panel
  fulfilled,     \* the panel fulfilled the last of them
  answer,        \* what the caller's last command came to
  down,          \* the connection is closed
  ambiguous      \* two requests of the connection may have had one number

service == <<phase, kind, asked, fulfilled, answer, down, ambiguous>>

Kinds   == {"xml", "binary"}
Answers == {"none", "ok", "rejected", "protocol", "lost", "timeout"}

Init ==
  /\ phase = [c \in Callers |-> "idle"]
  /\ kind \in [Callers -> Kinds]
  /\ asked = [c \in Callers |-> 0]
  /\ fulfilled = [c \in Callers |-> FALSE]
  /\ answer = [c \in Callers |-> "none"]
  /\ ~down
  /\ ~ambiguous

Ask(c) ==
  /\ phase[c] = "idle"
  /\ phase' = [phase EXCEPT ![c] = "waiting"]
  /\ \E k \in Kinds : kind' = [kind EXCEPT ![c] = k]
  /\ UNCHANGED <<asked, fulfilled, answer, down, ambiguous>>

BeginTurn(c) ==
  /\ phase[c] = "waiting"
  /\ \A d \in Callers : phase[d] # "serving"
  /\ phase' = [phase EXCEPT ![c] = "serving"]
  /\ UNCHANGED <<kind, asked, fulfilled, answer, down, ambiguous>>

MayAsk(c) == IF kind[c] = "xml" THEN MaxFragments ELSE 1

\* A binary command is never repeated: a panel that is told twice to set an area,
\* or to inhibit a zone, may do more than the caller asked for.
PutRequest(c) ==
  /\ phase[c] = "serving"
  /\ ~down
  /\ asked[c] < MayAsk(c)
  /\ asked' = [asked EXCEPT ![c] = @ + 1]
  /\ fulfilled' = [fulfilled EXCEPT ![c] = FALSE]
  /\ ambiguous' \in {ambiguous, TRUE}
  /\ UNCHANGED <<phase, kind, answer, down>>

Fulfil(c) ==
  /\ phase[c] = "serving"
  /\ asked[c] > 0
  /\ fulfilled' = [fulfilled EXCEPT ![c] = TRUE]
  /\ UNCHANGED <<phase, kind, asked, answer, down, ambiguous>>

\* Success is never made up, and the panel's refusals need a question.
Answer(c, r) ==
  /\ phase[c] = "serving"
  /\ r \in {"ok", "rejected", "protocol"} => asked[c] > 0
  /\ r = "ok" => fulfilled[c] \/ ambiguous
  /\ phase' = [phase EXCEPT ![c] = "idle"]
  /\ asked' = [asked EXCEPT ![c] = 0]
  /\ fulfilled' = [fulfilled EXCEPT ![c] = FALSE]
  /\ answer' = [answer EXCEPT ![c] = r]
  /\ UNCHANGED <<kind, down, ambiguous>>

GoDown ==
  /\ down' = TRUE
  /\ UNCHANGED <<phase, kind, asked, fulfilled, answer, ambiguous>>

Next ==
  \/ \E c \in Callers :
       \/ Ask(c) \/ BeginTurn(c) \/ PutRequest(c) \/ Fulfil(c)
       \/ \E r \in Answers \ {"none"} : Answer(c, r)
  \/ GoDown

Spec == Init /\ [][Next]_service
=============================================================================
