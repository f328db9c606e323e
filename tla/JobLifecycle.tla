---------------------------- MODULE JobLifecycle ----------------------------
(***************************************************************************)
(* What the job system promises about one job, leases, clocks, Workers and *)
(* the database left out: a job is attempted at most a fixed number of     *)
(* times, one attempt after another, and it ends once, at the same moment  *)
(* and in the same way as the Run or Recording it was made for.            *)
(***************************************************************************)
EXTENDS Naturals

CONSTANTS
    Job,     \* the jobs
    Budget   \* how often each job may be attempted

VARIABLES
    phase,    \* state of each job
    attempts, \* attempts begun
    outcome   \* how the execution target ended, "OPEN" before it did

avars == <<phase, attempts, outcome>>

Open == {"PENDING", "RETRY_WAIT", "RUNNING"}
Ends == {"SUCCEEDED", "FAILED", "CANCELLED"}

Init ==
    /\ phase = [j \in Job |-> "PENDING"]
    /\ attempts = [j \in Job |-> 0]
    /\ outcome = [j \in Job |-> "OPEN"]

\* An attempt begins while the budget lasts.
Begin(j) ==
    /\ phase[j] \in {"PENDING", "RETRY_WAIT"}
    /\ attempts[j] < Budget[j]
    /\ phase' = [phase EXCEPT ![j] = "RUNNING"]
    /\ attempts' = [attempts EXCEPT ![j] = @ + 1]
    /\ UNCHANGED outcome

\* The attempt is given up and another one is left.
PutBack(j) ==
    /\ phase[j] = "RUNNING"
    /\ attempts[j] < Budget[j]
    /\ phase' = [phase EXCEPT ![j] = "RETRY_WAIT"]
    /\ UNCHANGED <<attempts, outcome>>

\* The job ends; only an attempt under way can succeed.
End(j, how) ==
    /\ phase[j] \in Open
    /\ how = "SUCCEEDED" => phase[j] = "RUNNING"
    /\ phase' = [phase EXCEPT ![j] = how]
    /\ outcome' = [outcome EXCEPT ![j] = how]
    /\ UNCHANGED attempts

Next ==
    \E j \in Job : \/ Begin(j)
                   \/ PutBack(j)
                   \/ \E how \in Ends : End(j, how)

Spec == Init /\ [][Next]_avars
=============================================================================
