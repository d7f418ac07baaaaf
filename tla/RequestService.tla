---------------------------- MODULE RequestService ----------------------------
(***************************************************************************)
(* What the shared worker promises to the tabs: requests run in the order  *)
(* in which their tab posted them, and each is answered once, a success    *)
(* only if it has run.                                                     *)
(***************************************************************************)
EXTENDS Integers, Sequences

VARIABLES
  request,   \* what was posted, in order: by whom, and may it be answered unrun
  status,    \* pending, ok or failed
  ran        \* those that have run

vars == <<request, status, ran>>

Init == request = <<>> /\ status = <<>> /\ ran = {}

Ids == DOMAIN request

Post ==
  /\ Len(request') = Len(request) + 1
  /\ SubSeq(request', 1, Len(request)) = request

Earlier(i, j) == i < j /\ request'[i].tab = request'[j].tab

\* Requests that run do so behind those their tab posted before.
RunInOrder ==
  /\ ran \subseteq ran'
  /\ \A j \in ran' \ ran : \A i \in DOMAIN request' :
       Earlier(i, j) => i \in ran' \/ status[i] # "pending" \/ status'[i] # "pending"

AnswerOnce ==
  /\ \A i \in Ids : status[i] # "pending" => status'[i] = status[i]
  /\ \A i \in DOMAIN request' :
       status'[i] = "ok" => i \in ran' \/ request'[i].local

Next == /\ Post \/ UNCHANGED request
        /\ RunInOrder
        /\ AnswerOnce

Spec == Init /\ [][Next]_vars
=============================================================================
