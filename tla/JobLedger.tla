----------------------------- MODULE JobLedger -----------------------------
(***************************************************************************)
(* What the agent promises about each job the gateway gives it, with no    *)
(* queue, no goroutine and no lock in sight: a job is accepted at most     *)
(* once at a time, goes to paper at most once per acceptance, is settled   *)
(* as printed or failed, and stays settled until the bounded memory of     *)
(* finished jobs forgets it.  TicketQueue implements this module.          *)
(***************************************************************************)
EXTENDS Naturals

CONSTANT Jobs                    \* the jobs only the gateway hands out

VARIABLES
    phase,                       \* phase[i]: what the agent makes of job i
    copies                       \* copies[i]: tickets of job i on paper

vars == <<phase, copies>>

Phases == {"new", "pending", "onPaper", "printed", "failed"}

Settled == {i \in Jobs : phase[i] \in {"printed", "failed"}}

TypeOK ==
    /\ phase \in [Jobs -> Phases]
    /\ copies \in [Jobs -> Nat]

Init ==
    /\ phase = [i \in Jobs |-> "new"]
    /\ copies = [i \in Jobs |-> 0]

Accept(i) ==
    /\ phase[i] = "new"
    /\ phase' = [phase EXCEPT ![i] = "pending"]
    /\ UNCHANGED copies

Refuse(i) ==
    /\ phase[i] = "pending"
    /\ phase' = [phase EXCEPT ![i] = "new"]
    /\ UNCHANGED copies

PutOnPaper(i) ==
    /\ phase[i] = "pending"
    /\ phase' = [phase EXCEPT ![i] = "onPaper"]
    /\ copies' = [copies EXCEPT ![i] = @ + 1]

\* Job i is settled; the memory may forget some settled jobs to make room,
\* even the one it has just taken in.
Settle(i, outcome, forgotten) ==
    /\ phase[i] = (IF outcome = "printed" THEN "onPaper" ELSE "pending")
    /\ phase' = [j \in Jobs |-> IF j \in forgotten THEN "new"
                                ELSE IF j = i THEN outcome ELSE phase[j]]
    /\ UNCHANGED copies

Finish(i) ==
    \E outcome \in {"printed", "failed"}, forgotten \in SUBSET (Settled \union {i}) :
        Settle(i, outcome, forgotten)

\* Room is made for something that is not a job of the gateway.
Forget(forgotten) ==
    /\ phase' = [j \in Jobs |-> IF j \in forgotten THEN "new" ELSE phase[j]]
    /\ UNCHANGED copies

\* The process ends and is started again: the ledger is in memory only.
Restart ==
    /\ phase' = [i \in Jobs |-> "new"]
    /\ UNCHANGED copies

Progress(i) == Refuse(i) \/ PutOnPaper(i) \/ Finish(i)

Next ==
    \/ \E i \in Jobs : Accept(i) \/ Progress(i)
    \/ \E forgotten \in SUBSET Settled : Forget(forgotten)
    \/ Restart

Safety == Init /\ [][Next]_vars

Spec == Safety /\ \A i \in Jobs : WF_vars(Progress(i))

=============================================================================
