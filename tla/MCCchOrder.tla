----------------------------- MODULE MCCchOrder -----------------------------
(* Instances of CchOrder for TLC: one fault at a time, in the cases where it *)
(* bites, with the deadlines that matter there.                              *)
EXTENDS CchOrder

AllDeadlines == {"Expiry", "Budget", "Prune"}

Scope(k, deadlines, requests, crashes, errors, cuts) ==
    [kind |-> k, deadlines |-> deadlines,
     requests |-> requests, crashes |-> crashes, errors |-> errors, cuts |-> cuts]

SendBTCCrash == Scope("SendBTC", AllDeadlines, 1, 1, 0, 0)

MCScopes ==
    { SendBTCCrash,
      Scope("SendBTC", AllDeadlines, 1, 0, 1, 0),
      Scope("SendBTC", {"Expiry"}, 2, 0, 1, 0),
      Scope("SendBTC", {}, 3, 0, 1, 0),
      Scope("ReceiveBTC", {}, 1, 1, 0, 0),
      Scope("ReceiveBTC", AllDeadlines, 1, 0, 1, 0),
      Scope("ReceiveBTC", {}, 2, 0, 1, 0),
      Scope("ReceiveBTC", AllDeadlines, 1, 0, 0, 1) }

MCAtomicityScopes == { SendBTCCrash }
=============================================================================
