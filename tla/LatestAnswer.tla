---------------------------- MODULE LatestAnswer ----------------------------
(***************************************************************************)
(* What a page that asks several sources promises of what it shows: it is  *)
(* replaced as a whole, by the answers to the latest question, the answer  *)
(* of a source that failed being empty.                                    *)
(***************************************************************************)
CONSTANTS
  Source,
  Question,
  Reply(_, _)  \* Reply(s, q): what source s has to say to question q

VARIABLES
  question,  \* the latest question
  due,       \* is it still to be answered
  shown

vars == <<question, due, shown>>

Init ==
  /\ question \in Question
  /\ due = TRUE
  /\ shown = {}

Ask ==
  /\ question' \in Question
  /\ due' = TRUE
  /\ UNCHANGED shown

Show ==
  /\ due
  /\ due' = FALSE
  /\ \E silent \in SUBSET Source :
       shown' = UNION {Reply(s, question) : s \in Source \ silent}
  /\ UNCHANGED question

Next == Ask \/ Show

Spec == Init /\ [][Next]_vars

=============================================================================
