------------------------ MODULE MCCompactionHandoff ------------------------
(* Every kind of compaction request, and of source, for TLC.                  *)
EXTENDS CompactionHandoff

AnyRequest == [manual : BOOLEAN, everyTurnFresh : BOOLEAN, complete : BOOLEAN]

\* At work, with calls at Codex or with the broker; answered; failed, or cancelled and not yet
\* released; or unknown.
AnySource ==
  [state : {"working"}, live : {TRUE}, tools : {TRUE}, out : 0..1, queued : 0..1]
  \cup [state : {"working"}, live : {TRUE}, tools : {FALSE}, out : {0}, queued : {0}]
  \cup [state : {"final"}, live : {FALSE}, tools : {TRUE}, out : {0}, queued : {0}]
  \cup [state : {"error"}, live : BOOLEAN, tools : {TRUE}, out : {0}, queued : {0}]
  \cup [state : {"none"}, live : {FALSE}, tools : {FALSE}, out : {0}, queued : {0}]
=============================================================================
