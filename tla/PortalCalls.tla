---------------------------- MODULE PortalCalls ----------------------------
(***************************************************************************)
(* A call of the servers.com portal API (serverscom-go-client), as every   *)
(* manager sees it: it answers "ok", fails without effect ("fail"), or     *)
(* takes effect and its answer is lost ("lost").                           *)
(***************************************************************************)
EXTENDS Naturals

CONSTANTS
  FaultKinds,  \* <<call, "fail" or "lost">> pairs the portal may answer with
  MaxFaults    \* bound on the number of faults of a behavior

VARIABLE faults  \* faults so far

Answers(call) == {"ok"} \cup {a \in {"fail", "lost"} : <<call, a>> \in FaultKinds}

Performed(a) == a # "fail"

Cost(a) == IF a = "ok" THEN 0 ELSE 1

Spend(n) == faults + n <= MaxFaults /\ faults' = faults + n
=============================================================================
