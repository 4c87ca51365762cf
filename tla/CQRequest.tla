--------------------------------- MODULE CQRequest ---------------------------------
(***************************************************************************)
(* What command queuing promises the client about a request: it is attached, *)
(* started and answered exactly once, and FINISHED is answered only for a  *)
(* request that was executed after it was attached (the comments of        *)
(* CSDD_CQReqStat in csdd_if.h).                                           *)
(***************************************************************************)
CONSTANTS Reqs,     \* the request objects
          Direct    \* those that are direct commands, started by their attach

VARIABLES stat,     \* the status each request shows
          ran       \* the requests executed since their attach

vars == <<stat, ran>>

Owned == {r \in Reqs : stat[r] \in {"ATTACHED", "PENDING"}}
Pending == {r \in Reqs : stat[r] = "PENDING"}

Answer(R, status) == [r \in Reqs |-> IF r \in R THEN status ELSE stat[r]]

Init == /\ stat = [r \in Reqs |-> "FINISHED"]
        /\ ran = {}

\* a free request is taken over, or refused with the status FAILED
Attach(r) ==
    /\ r \notin Owned
    /\ stat' = [stat EXCEPT ![r] = IF r \in Direct THEN "PENDING" ELSE "ATTACHED"]
    /\ ran' = ran \ {r}

Reject(r) ==
    /\ r \notin Owned
    /\ stat' = [stat EXCEPT ![r] = "FAILED"]
    /\ UNCHANGED ran

\* several requests may be started at once
Start(R) ==
    /\ R # {} /\ \A r \in R : stat[r] = "ATTACHED"
    /\ stat' = Answer(R, "PENDING")
    /\ UNCHANGED ran

Execute(r) ==
    /\ stat[r] = "PENDING"
    /\ ran' = ran \cup {r}
    /\ UNCHANGED stat

\* one interrupt may answer several requests
Succeed(R) ==
    /\ R # {} /\ R \subseteq Pending \cap ran
    /\ stat' = Answer(R, "FINISHED")
    /\ UNCHANGED ran

\* an error or a discard may also hit a request that was never started
Fail(R) ==
    /\ R # {} /\ R \subseteq Owned
    /\ stat' = Answer(R, "FAILED")
    /\ UNCHANGED ran

Next ==
    \/ \E r \in Reqs : Attach(r) \/ Reject(r) \/ Execute(r)
    \/ \E R \in SUBSET Reqs : Start(R) \/ Succeed(R) \/ Fail(R)

Spec == Init /\ [][Next]_vars
====
