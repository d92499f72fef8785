----------------------------- MODULE MCMessages -----------------------------
(***************************************************************************)
(* Messages and History on a small instance.  The two share no variable:   *)
(* an interleaving of their steps shows nothing that one of them does not  *)
(* show alone, so a behaviour takes the steps of one `part` only.          *)
(***************************************************************************)
EXTENDS Messages, History, TLC

CONSTANTS a, b, c, m1, q1, q2

VARIABLE part

MCAuthorOf == [m \in {m1} |-> a]

Symmetry == Permutations(Requests) \cup Permutations(Texts)

Init ==
    /\ part \in {"messages", "history"}
    /\ MessagesInit
    /\ HistoryInit

Next ==
    \/ part = "messages" /\ MessagesNext /\ UNCHANGED <<part, historyVars>>
    \/ part = "history" /\ HistoryNext /\ UNCHANGED <<part, messagesVars>>

MCSpec == Init /\ [][Next]_<<part, messagesVars, historyVars>>

=============================================================================
