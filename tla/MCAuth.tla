------------------------------- MODULE MCAuth -------------------------------
(***************************************************************************)
(* Accounts and RateLimit on small instances.  The two share no variable:  *)
(* a behaviour takes the steps of one `part` only.                         *)
(***************************************************************************)
EXTENDS Accounts, RateLimit, TLC

VARIABLE part

Symmetry == Permutations(Requests) \cup Permutations(Tags) \cup Permutations(Keys)

Init ==
    /\ part \in {"accounts", "limiter"}
    /\ AccountsInit
    /\ LimiterInit

Next ==
    /\ UNCHANGED part
    /\ \/ part = "accounts" /\ AccountsNext /\ UNCHANGED limiterVars
       \/ part = "limiter" /\ LimiterNext /\ UNCHANGED accountsVars

MCSpec == Init /\ [][Next]_<<part, accountsVars, limiterVars>>

=============================================================================
