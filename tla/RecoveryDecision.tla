------------------------- MODULE RecoveryDecision -------------------------
(***************************************************************************)
(* What a vote of QpidR promises, without acceptors or messages: one voter *)
(* wins with one outcome, it carries the outcome out, and only then do     *)
(* other parties learn that outcome.  PaxosVote implements this            *)
(* specification as long as any two majorities share an acceptor that does *)
(* not forget.                                                             *)
(***************************************************************************)
CONSTANTS
    Voters,      \* who can win
    Parties,     \* who can hold an outcome: voters and acceptors
    Outcomes,
    NoOutcome    \* what a party holds before it learned the outcome

VARIABLES
    won,         \* {<<voter, outcome>>} once there is a winner
    done,        \* has the winner carried its outcome out?
    learned      \* learned[x]: the outcome party x holds

vars == <<won, done, learned>>

Init ==
    /\ won = {}
    /\ done = FALSE
    /\ learned = [x \in Parties |-> NoOutcome]

Win(v, o) ==
    /\ won = {}
    /\ won' = {<<v, o>>}
    /\ UNCHANGED <<done, learned>>

Finish(v, o) ==
    /\ ~done
    /\ won = {<<v, o>>}
    /\ done' = TRUE
    /\ learned' = [learned EXCEPT ![v] = o]
    /\ UNCHANGED won

Learn(x) ==
    /\ done
    /\ learned[x] = NoOutcome
    /\ \E w \in won : learned' = [learned EXCEPT ![x] = w[2]]
    /\ UNCHANGED <<won, done>>

Next ==
    \/ \E v \in Voters, o \in Outcomes : Win(v, o) \/ Finish(v, o)
    \/ \E x \in Parties : Learn(x)

Spec == Init /\ [][Next]_vars
=============================================================================
