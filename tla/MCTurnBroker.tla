---------------------------- MODULE MCTurnBroker ----------------------------
(* Small instances of TurnBroker for TLC, and of five parts beside it, Zero   *)
(* Risk turns, the lifecycle lock, the estimate of the usage, the             *)
(* terminal-managed services and the text of an answer: the turn kinds and the number of requests,      *)
(* observers, processes, sends and terminals are chosen in the configuration. *)
(* A behaviour is one of the parts, chosen at first; the others rest in an    *)
(* initial state.                                                             *)
EXTENDS TurnBroker, ManualTurns, LifecycleLock, Limits, TerminalService, AnswerStream, TLC

VARIABLE part

\* Requests and observers are interchangeable.
Interchangeable == Permutations(Requests) \cup Permutations(Observers)

\* ManualTurns: three turns of one thread that use the same model.
OneThread == [t \in 1 .. 3 |-> 1]
OneModel == [t \in 1 .. 3 |-> 1]

\* Paragraphs, one with a link, and a heading; some with one text.
Block(tag, text, link) == [tag |-> tag, text |-> text, link |-> link]
FourContents ==
  {Block("p", "x", "none"), Block("p", "y", "pending"), Block("p", "y", "to"),
   Block("h", "x", "none")}
ThreeLayouts == {{}, {1}, {1, 2}}

\* The initial state in which the answer's text rests.
PlainAnswer == layout = {} /\ fenced

PartsInit ==
  /\ part \in {"broker", "manual", "lock", "limits", "service", "answer"}
  /\ Init /\ ManualInit /\ LockInit /\ LimitsInit /\ ServiceInit /\ AnswerInit
  /\ part = "lock" \/ config = "missing"
  /\ part = "limits" \/ usage.account = CHOOSE a \in Accounts : TRUE
  /\ tunnelJob.loaded /\ client.binary = "old"
  /\ part = "answer" \/ PlainAnswer

besideVars == <<commandVars, limitsVars, serviceVars, answerVars>>
partsVars == <<part, vars, manualVars, besideVars>>

PartsNext ==
  /\ UNCHANGED part
  /\ \/ part = "broker" /\ Next /\ UNCHANGED <<manualVars, besideVars>>
     \/ part = "manual" /\ ManualNext /\ UNCHANGED <<vars, besideVars>>
     \/ /\ part = "lock" /\ LockNext
        /\ UNCHANGED <<vars, manualVars, limitsVars, serviceVars, answerVars>>
     \/ /\ part = "limits" /\ LimitsNext
        /\ UNCHANGED <<vars, manualVars, commandVars, serviceVars, answerVars>>
     \/ /\ part = "service" /\ ServiceNext
        /\ UNCHANGED <<vars, manualVars, commandVars, limitsVars, answerVars>>
     \/ /\ part = "answer" /\ AnswerNext
        /\ UNCHANGED <<vars, manualVars, commandVars, limitsVars, serviceVars>>

PartsSpec == PartsInit /\ [][PartsNext]_partsVars
=============================================================================
