------------------------------ MODULE Session -------------------------------
(***************************************************************************)
(* What usbsas promises its client: one of the dialogues of Dialogue, and  *)
(* the answers that the client has at each point of it.  Usbsas implements *)
(* this specification; the server is checked against the dialogue.         *)
(***************************************************************************)
EXTENDS Dialogue

VARIABLE
    answers     \* the non progress responses to the last request

sessionVars == <<state, doing, dest, answers>>

(* Responses that announce another one for the same request.               *)
Progress == {"CopyStart", "CopyStatus", "CopyStatusDone", "AnalyzeStatus",
             "AnalyzeDone", "FinalCopyStatus", "FinalCopyStatusDone",
             "Opened"}

(* Those of a step that are not: at most one announces, and it comes       *)
(* first.                                                                  *)
Final(says) == IF Head(says) \in Progress THEN Tail(says) ELSE says

SessionNext ==
    \/ \E a \in Accepts, d \in Destinations : Take(a, d) /\ answers' = <<>>
    \/ Refuse /\ answers' = <<"Error">>
    \/ \E w \in Steps[dest] : Work(w) /\ answers' = answers \o Final(w.says)

SessionSpec == Started /\ answers = <<>> /\ [][SessionNext]_sessionVars
============================================================================
