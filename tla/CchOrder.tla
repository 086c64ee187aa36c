------------------------------ MODULE CchOrder ------------------------------
(***************************************************************************)
(* One order of the cross-chain hub (crates/fiber-lib/src/cch): the CchActor*)
(* and its order state machine, the send_btc creation worker, the          *)
(* receive_btc creation that runs inside the actor, the order scheduler,   *)
(* startup recovery, and the LND tracker of the order's payment hash.  The *)
(* two legs (an incoming invoice and an outgoing payment, one on Fiber and *)
(* one on LND) belong to other systems and are modelled by what the hub's  *)
(* calls do to them.                                                       *)
(*                                                                         *)
(* "SendBTC":    incoming on Fiber, outgoing on Lightning.                 *)
(* "ReceiveBTC": incoming on Lightning, outgoing on Fiber.                 *)
(*                                                                         *)
(* The actor record s keeps the two durable records (order, intent) and    *)
(* the volatile state that a crash clears.  A message is a pair <<type,    *)
(* argument>>; the mailbox is FIFO; timers is the bag of send_after        *)
(* messages.                                                               *)
(***************************************************************************)
EXTENDS Naturals, Sequences, Bags

CONSTANT
    Scopes          \* the cases explored: the kind of order, the deadlines that may pass, and
                    \* bounds on client requests for this payment hash, on crashes of the hub, on
                    \* transient errors (lost replies, broken LND streams), and on breaks of the
                    \* Fiber subscription (0: Fiber runs in the same process)

ASSUME ScopesAssumption ==
    Scopes \subseteq [kind : {"SendBTC", "ReceiveBTC"},
                      deadlines : SUBSET {"Expiry", "Budget", "Prune"},
                      requests : Nat, crashes : Nat, errors : Nat, cuts : Nat]

VARIABLES
    scope,          \* the case explored
    s,              \* the hub
    incoming,       \* the incoming invoice
    outgoing,       \* the outgoing payment
    calls,          \* requests on their way to the Fiber node (FIFO)
    passed,         \* the deadlines that have passed
    subscribed,     \* the hub receives the Fiber node's store changes
    used            \* how much of each bound is used up

vars == <<scope, s, incoming, outgoing, calls, passed, subscribed, used>>

-----------------------------------------------------------------------------
kind == scope.kind

(* Statuses. *)

NoOrder == [status |-> "None", preimage |-> FALSE]

FinalStatuses == {"Success", "Failed"}

OrderStatuses ==
    FinalStatuses \cup {"None", "Pending", "IncomingAccepted", "OutgoingInFlight", "OutgoingSuccess"}

IsFinal(o) == o.status \in FinalStatuses

IsActive(o) == o.status \notin FinalStatuses \cup {"None"}

InvoiceStatuses == {"Open", "Received", "Cancelled", "Paid"}

\* "Settling": received, and its preimage is in the Fiber store.
\* "Lapsed": received on Fiber, and the held TLCs have timed out since.
IncomingStates == InvoiceStatuses \cup {"Absent", "Settling", "Lapsed"}

PaymentStatuses == {"Created", "Inflight", "Success", "Failed"}

OutgoingStates == PaymentStatuses \cup {"Absent"}

\* What the Fiber node answers for the invoice's status.
FiberInvoiceStatus == IF incoming \in {"Settling", "Lapsed"} THEN "Received" ELSE incoming

\* Variant with a fault: the invoice's status is taken for the order's.
InvoiceOrderStatusUnmapped(st) == st

InvoiceOrderStatus(st) ==
    CASE st = "Open" -> "Pending"
      [] st = "Received" -> "IncomingAccepted"
      [] st = "Cancelled" -> "Failed"
      [] st = "Paid" -> "Success"

PaymentOrderStatus(st) ==
    CASE st = "Created" -> "IncomingAccepted"
      [] st = "Inflight" -> "OutgoingInFlight"
      [] st = "Success" -> "OutgoingSuccess"
      [] st = "Failed" -> "Failed"

-----------------------------------------------------------------------------
(* The order state machine. *)

\* Variant with a fault: an order that is not final takes any status.
AllowAnyTransition(from, to) == from \notin FinalStatuses

AllowTransition(from, to) ==
    \/ from = to
    \/ <<from, to>> \in { <<"Pending", "IncomingAccepted">>,
                          <<"IncomingAccepted", "OutgoingInFlight">>,
                          <<"IncomingAccepted", "OutgoingSuccess">>,
                          <<"OutgoingInFlight", "OutgoingSuccess">>,
                          <<"OutgoingSuccess", "Success">> }
    \/ to = "Failed" /\ from \notin {"Success", "OutgoingSuccess"}

Transit(o, to) == IF AllowTransition(o.status, to) THEN [o EXCEPT !.status = to] ELSE o

ApplyInvoice(o, st) ==
    LET to == InvoiceOrderStatus(st)
    IN  IF to = "Failed" /\ o.status \in {"OutgoingInFlight", "OutgoingSuccess"}
        THEN o
        ELSE Transit(o, to)

\* A Success event always carries the preimage here: the Fiber store holds it
\* before the session succeeds and LND reports both together.
ApplyPayment(o, st) ==
    LET n == Transit(o, PaymentOrderStatus(st))
    IN  IF \/ o.status = "Pending"
           \/ st = "Created" /\ o.status \in {"OutgoingInFlight", "OutgoingSuccess"}
        THEN o
        ELSE IF n.status # o.status /\ st = "Success" THEN [n EXCEPT !.preimage = TRUE] ELSE n

\* apply_tracking_event_to_order
ApplyEvent(o, m) ==
    IF m = <<"Invoice", "Received">> /\ o.status = "Pending" /\ "Expiry" \in passed
    THEN [o EXCEPT !.status = "Failed"]
    ELSE IF m[1] = "Invoice" THEN ApplyInvoice(o, m[2]) ELSE ApplyPayment(o, m[2])

OnEntering(o) ==
    CASE o.status = "Pending" -> <<"TrackIncomingInvoice">>
      [] o.status = "IncomingAccepted" -> <<"SendOutgoingPayment", "TrackOutgoingPayment">>
      [] o.status = "OutgoingInFlight" -> <<"TrackOutgoingPayment">>
      [] o.status = "OutgoingSuccess" -> <<"SettleIncomingInvoice">>
      [] o.status = "Failed" /\ ~o.preimage -> <<"CancelIncomingInvoice">>
      [] OTHER -> <<>>

\* Variant with a fault: a restart forgets the actions of the order's status.
OnStartingForgetful(o) ==
    IF o.status \in {"IncomingAccepted", "OutgoingInFlight", "OutgoingSuccess"}
    THEN <<"TrackIncomingInvoice">>
    ELSE OnEntering(o)

OnStarting(o) ==
    IF o.status \in {"IncomingAccepted", "OutgoingInFlight", "OutgoingSuccess"}
    THEN Append(OnEntering(o), "TrackIncomingInvoice")
    ELSE OnEntering(o)

\* Variant with a fault: no action runs for a final order.
OnlyActiveOrdersAct(o, action) == IsActive(o)

ActionCanStillRun(o, action) ==
    IF action = "CancelIncomingInvoice"
    THEN o.status = "Failed" /\ ~o.preimage
    ELSE IsActive(o)

-----------------------------------------------------------------------------
(* Effects of the handlers on the hub's state. *)

Post(st, messages) == [st EXCEPT !.mailbox = @ \o messages]

SendAfter(st, m) == [st EXCEPT !.timers = @ (+) SetToBag({m})]

AppendActions(st, actions) ==
    Post(st, [i \in 1..Len(actions) |-> <<"Execute", actions[i]>>])

\* The Fiber node's store change reaches the hub only while it is subscribed.
Notify(st, m) == IF subscribed THEN Post(st, <<m>>) ELSE st

\* LndTracker: the tracker of this payment hash, for the leg that is on LND.
StopTracking(st) == [st EXCEPT !.tracker = "None", !.seen = "None"]

StopTrackingPayment(st) == IF kind = "SendBTC" THEN StopTracking(st) ELSE st

StartTracking(st) ==
    IF st.tracker = "Active" THEN st ELSE [st EXCEPT !.tracker = "Active", !.seen = "None"]

ScheduleJobOnEntering(st) ==
    IF IsFinal(st.order)
    THEN [StopTrackingPayment(st) EXCEPT !.jobs = @ \cup {"Prune"}]
    ELSE [st EXCEPT !.jobs = @ \cup {"Expire"}]

InvoiceStatusRank(st) ==
    CASE st = "None" -> 0 [] st = "Open" -> 0 [] st = "Received" -> 1
      [] st = "Cancelled" -> 2 [] st = "Paid" -> 3

Merge(current, newer) ==
    IF InvoiceStatusRank(newer) >= InvoiceStatusRank(current) THEN newer ELSE current

\* The status of the incoming invoice is held back while the order is created.
Deferring(st) == kind = "SendBTC" /\ (st.active \/ st.pending)

HandleTrackingEvent(st, m) ==
    IF m[1] = "Invoice" /\ Deferring(st)
    THEN [st EXCEPT !.deferred = Merge(@, m[2])]
    ELSE LET o == ApplyEvent(st.order, m)
         IN  IF ~IsActive(st.order) \/ o.status = st.order.status
             THEN st
             ELSE AppendActions(ScheduleJobOnEntering([st EXCEPT !.order = o]), OnEntering(o))

DeferredAdvances(status, deferred) ==
    CASE deferred = "Received" -> status = "Pending"
      [] deferred = "Cancelled" -> status \in {"Pending", "IncomingAccepted"}
      [] deferred = "Paid" -> status = "OutgoingSuccess"
      [] OTHER -> FALSE

\* reconcile_deferred_send_btc_invoice_status
ReconcileDeferred(st) ==
    [st EXCEPT
        !.deferred = "None",
        !.order = IF DeferredAdvances(@.status, st.deferred)
                  THEN ApplyEvent(@, <<"Invoice", st.deferred>>)
                  ELSE @]

ExpireOrder(st) ==
    IF st.order.status # "Pending"
    THEN st
    ELSE LET o == [st.order EXCEPT !.status = "Failed"]
         IN  AppendActions(
                 [StopTrackingPayment(st) EXCEPT !.order = o, !.jobs = @ \cup {"Prune"}],
                 OnEntering(o))

RecoverPersistedOrder(st) ==
    CASE IsFinal(st.order) ->
            [AppendActions(st, OnStarting(st.order)) EXCEPT !.jobs = @ \cup {"Prune"}]
      [] st.order.status = "Pending" /\ "Expiry" \in passed ->
            LET o == [st.order EXCEPT !.status = "Failed"]
            IN  [AppendActions([st EXCEPT !.order = o], OnEntering(o)) EXCEPT !.jobs = @ \cup {"Prune"}]
      [] OTHER ->
            [AppendActions(st, OnStarting(st.order)) EXCEPT
                !.tracker = IF kind = "SendBTC" /\ @ = "None" THEN "Reserved" ELSE @,
                !.jobs = @ \cup {"Expire"}]

\* schedule_send_btc_creation_retry, schedule_receive_btc_creation_retry
ScheduleCreationRetry(st) ==
    IF st.pending THEN st ELSE SendAfter([st EXCEPT !.pending = TRUE], <<"Resume", "creation">>)

-----------------------------------------------------------------------------
(* Start and crash. *)

Idle == [pc |-> "Idle", from |-> "Request", status |-> "None"]

\* pre_start and post_start.  The key snapshot is loaded by a blocking task,
\* so the first continuation reaches the mailbox some time after the start.
Started(order, intent) ==
    [ order |-> order, intent |-> intent,
      mailbox |-> IF scope.cuts > 0 THEN << <<"Reconcile", "payments">> >> ELSE <<>>,
      timers |-> SetToBag({ <<"Continue", IF order.status # "None" THEN "order"
                                          ELSE IF intent THEN "creation" ELSE "none">> }),
      worker |-> Idle, active |-> FALSE, pending |-> FALSE, deferred |-> "None",
      tracker |-> "None", seen |-> "None", jobs |-> {}, recovering |-> TRUE ]

Init ==
    /\ scope \in Scopes
    /\ s = Started(NoOrder, FALSE)
    /\ incoming = "Absent"
    /\ outgoing = "Absent"
    /\ calls = <<>>
    /\ passed = {}
    /\ subscribed = TRUE
    /\ used = [requests |-> 0, crashes |-> 0, errors |-> 0, cuts |-> 0]

\* The process dies between any two steps; only the store survives.
Crash ==
    /\ used.crashes < scope.crashes
    /\ used' = [used EXCEPT !.crashes = @ + 1]
    /\ s' = Started(s.order, s.intent)
    /\ calls' = <<>>
    /\ subscribed' = TRUE
    /\ UNCHANGED <<scope, incoming, outgoing, passed>>

\* A step that meets a transient failure counts against scope.errors.
Error ==
    /\ used.errors < scope.errors
    /\ used' = [used EXCEPT !.errors = @ + 1]

NoError == UNCHANGED used

-----------------------------------------------------------------------------
(* Creating the order.                                                     *)
(*                                                                         *)
(* For "SendBTC" the worker is a task of its own: the actor goes on        *)
(* handling messages.  For "ReceiveBTC" the same steps run inside the      *)
(* actor's handler, which handles nothing else until they end.             *)

Request ==
    /\ used.requests < scope.requests
    /\ used' = [used EXCEPT !.requests = @ + 1]
    /\ s' = Post(s, << <<"Request", kind>> >>)
    /\ UNCHANGED <<scope, incoming, outgoing, calls, passed, subscribed>>

Blocked == kind = "ReceiveBTC" /\ s.worker.pc # "Idle"

\* The next message of the mailbox is m, and the rest stays.
Receive(type) == ~Blocked /\ s.mailbox # <<>> /\ Head(s.mailbox)[1] = type

Argument == Head(s.mailbox)[2]

Rest == [s EXCEPT !.mailbox = Tail(@)]

Begin(st, from) ==
    [st EXCEPT !.worker = [pc |-> "Begin", from |-> from, status |-> "None"],
               !.active = kind = "SendBTC"]

\* Variant with a fault: a request is refused only during startup recovery.
RefusedAtStartupOnly == s.recovering

\* A request is refused while the creation it asks for is under way.
Refused ==
    \/ s.recovering
    \/ s.active /\ s.worker.from = "Request"
    \/ (s.active \/ s.pending) /\ s.intent

HandleResume ==
    /\ Receive("Resume")
    /\ s' = IF s.active THEN [Rest EXCEPT !.pending = FALSE]
            ELSE Begin([Rest EXCEPT !.pending = FALSE], "Resume")
    /\ UNCHANGED <<scope, incoming, outgoing, calls, passed, subscribed, used>>

\* The worker stops with a result for the actor.
Finish(st, result) ==
    LET m == <<IF st.worker.from = "Request" THEN "Completed" ELSE "ResumeCompleted", result>>
        idle == [st EXCEPT !.worker = [@ EXCEPT !.pc = "Idle", !.status = "None"]]
    IN  IF kind = "SendBTC" THEN Post(idle, <<m>>) ELSE [idle EXCEPT !.mailbox = <<m>> \o @]

\* A creation is under way when another starts only if it is about to find
\* the order stored: it ends with nothing to do.
Superseded(st) ==
    IF st.worker.pc = "Idle" THEN st
    ELSE Finish(st, IF st.worker.from = "Request" THEN "Existing" ELSE "Nothing")

HandleRequest ==
    /\ Receive("Request")
    /\ s' = IF Refused THEN Rest
            ELSE Begin([Superseded(Rest) EXCEPT !.pending = @ /\ kind = "ReceiveBTC"], "Request")
    /\ UNCHANGED <<scope, incoming, outgoing, calls, passed, subscribed, used>>

\* An error gives the tracker reservation back.
Fail(st, result) == Finish(StopTracking(st), result)

\* Variant with a fault: the intent is not stored before the invoice is made.
ReserveOnly(st) == [st EXCEPT !.tracker = "Reserved", !.worker.pc = "Get"]

Reserve(st) == [st EXCEPT !.tracker = "Reserved", !.intent = TRUE, !.worker.pc = "Get"]

\* The durable record already exists, or the tracker slot is reserved and the
\* intent stored.
WorkerBegins ==
    /\ s.worker.pc = "Begin"
    /\ LET requested == s.worker.from = "Request"
       IN  \/ /\ s' = CASE s.order.status # "None" ->
                             Finish([s EXCEPT !.intent = @ /\ requested],
                                    IF requested THEN "Existing" ELSE "Nothing")
                        [] s.order.status = "None" /\ ~s.intent /\ ~requested -> Finish(s, "Nothing")
                        [] s.order.status = "None" /\ ~s.intent /\ requested /\ "Expiry" \in passed ->
                             Finish(s, "Expired")
                        [] OTHER ->
                             IF s.tracker # "None" THEN Finish(s, "AlreadyTracked")
                             ELSE Reserve(s)
              /\ NoError
           \/ /\ s.order.status = "None" /\ (s.intent \/ requested)
              /\ Error
              /\ s' = Finish(s, "Unreachable")
    /\ UNCHANGED <<scope, incoming, outgoing, calls, passed, subscribed>>

\* call_get_invoice or lookup_invoice: the invoice as the other node knows it.
Looked(st) ==
    IF kind = "SendBTC"
    THEN IF incoming = "Paid" THEN Fail(st, "Mismatch")
         ELSE [st EXCEPT !.worker.pc = "Commit", !.worker.status = InvoiceOrderStatus(FiberInvoiceStatus)]
    ELSE IF incoming \in {"Cancelled", "Paid"} THEN Fail(st, "Mismatch")
         ELSE [st EXCEPT !.worker.pc = "Commit",
                         !.worker.status = IF incoming = "Received" /\ st.worker.pc = "Get"
                                           THEN "IncomingAccepted" ELSE "Pending"]

WorkerGetsInvoice ==
    /\ s.worker.pc \in {"Get", "GetAgain"}
    /\ \/ /\ incoming # "Absent"
          /\ s' = Looked(s)
          /\ NoError
       \/ /\ incoming = "Absent" /\ s.worker.pc = "Get"
          /\ s' = IF "Expiry" \in passed THEN Fail(s, "Expired") ELSE [s EXCEPT !.worker.pc = "Add"]
          /\ NoError
       \/ /\ incoming = "Absent" /\ s.worker.pc = "GetAgain"
          /\ s' = Fail(s, "Unreachable")
          /\ NoError
       \/ Error /\ s' = Fail(s, "Unreachable")
    /\ UNCHANGED <<scope, incoming, outgoing, calls, passed, subscribed>>

\* call_add_invoice or add_hold_invoice: an error does not tell whether the
\* invoice was created.
WorkerAddsInvoice ==
    /\ s.worker.pc = "Add"
    /\ \/ /\ incoming' = "Open"
          /\ s' = [s EXCEPT !.worker.pc = "Commit", !.worker.status = "Pending"]
          /\ NoError
       \/ /\ Error
          /\ incoming' \in {"Absent", "Open"}
          /\ s' = [s EXCEPT !.worker.pc = "GetAgain"]
    /\ UNCHANGED <<scope, outgoing, calls, passed, subscribed>>

\* complete_send_btc_order_creation and complete_receive_btc_order_creation
\* of the store: the order replaces the intent in one batch.
WorkerCommits ==
    /\ s.worker.pc = "Commit"
    /\ s' = Finish([s EXCEPT !.order = [status |-> s.worker.status, preimage |-> FALSE],
                             !.intent = FALSE],
                   "New")
    /\ UNCHANGED <<scope, incoming, outgoing, calls, passed, subscribed, used>>

Retryable(result) == result = "Unreachable"

Ended(st) == [st EXCEPT !.active = FALSE]

\* SendBTCWorkerCompleted, and the end of ReceiveBTC
HandleCompleted ==
    /\ Receive("Completed")
    /\ LET r == ReconcileDeferred(Rest)
           st == [Rest EXCEPT !.pending = @ /\ kind = "ReceiveBTC"]
           applied == r.order.status # Rest.order.status
           done == [r EXCEPT !.pending = @ /\ kind = "ReceiveBTC" /\ Argument = "Existing"]
       IN  s' = Ended(
             CASE Argument = "New" ->
                    AppendActions(ScheduleJobOnEntering(done), OnStarting(done.order))
               [] Argument = "Existing" /\ applied ->
                    AppendActions(ScheduleJobOnEntering(done), OnEntering(done.order))
               [] Argument = "Existing" /\ ~applied -> done
               [] Retryable(Argument) /\ s.intent -> ScheduleCreationRetry(st)
               [] OTHER -> [st EXCEPT !.deferred = "None"])
    /\ UNCHANGED <<scope, incoming, outgoing, calls, passed, subscribed, used>>

\* ResumeSendBTCOrderCreationWorkerCompleted, and the end of
\* ResumeReceiveBTCOrderCreation
HandleResumeCompleted ==
    /\ Receive("ResumeCompleted")
    /\ s' = Ended(
          CASE Argument = "New" ->
                 LET r == ReconcileDeferred(Rest)
                 IN  AppendActions(ScheduleJobOnEntering(r), OnStarting(r.order))
            [] Retryable(Argument) -> ScheduleCreationRetry(Rest)
            [] OTHER -> [Rest EXCEPT !.deferred = "None"])
    /\ UNCHANGED <<scope, incoming, outgoing, calls, passed, subscribed, used>>

-----------------------------------------------------------------------------
(* The other messages of the actor. *)

HandleContinueStartupRecovery ==
    /\ Receive("Continue")
    /\ s' = CASE Argument = "order" ->
                   SendAfter(IF s.order.status = "None" THEN Rest ELSE RecoverPersistedOrder(Rest),
                             <<"Continue", "none">>)
              [] Argument = "creation" ->
                   SendAfter(IF s.pending THEN Rest
                             ELSE Post([Rest EXCEPT !.pending = TRUE], << <<"Resume", "creation">> >>),
                             <<"Continue", "none">>)
              [] Argument = "none" -> [Rest EXCEPT !.recovering = FALSE]
    /\ UNCHANGED <<scope, incoming, outgoing, calls, passed, subscribed, used>>

\* TrackingEvent and StoreChangeEvent
HandleEvent ==
    /\ Receive("Invoice") \/ Receive("Payment")
    /\ s' = HandleTrackingEvent(Rest, Head(s.mailbox))
    /\ UNCHANGED <<scope, incoming, outgoing, calls, passed, subscribed, used>>

HandleReconcileFiberPayments ==
    /\ Receive("Reconcile")
    /\ s' = IF s.order.status \in {"IncomingAccepted", "OutgoingInFlight"}
            THEN AppendActions(Rest, <<"TrackOutgoingPayment">>) ELSE Rest
    /\ UNCHANGED <<scope, incoming, outgoing, calls, passed, subscribed, used>>

HandleActionRetry ==
    /\ Receive("ActionRetry")
    /\ s' = IF ActionCanStillRun(s.order, Argument)
            THEN SendAfter(Rest, <<"Execute", Argument>>) ELSE Rest
    /\ UNCHANGED <<scope, incoming, outgoing, calls, passed, subscribed, used>>

HandleExpireOrder ==
    /\ Receive("Expire")
    /\ s' = ExpireOrder(Rest)
    /\ UNCHANGED <<scope, incoming, outgoing, calls, passed, subscribed, used>>

-----------------------------------------------------------------------------
(* ExecuteAction.  An error of the executor schedules a retry. *)

Executes(action) == Receive("Execute") /\ Argument = action

Retry(action) == s' = SendAfter(Rest, <<"Execute", action>>)

\* The order no longer wants the action, or has nothing to dispatch.
ExecuteNothing(action, dispatches) ==
    /\ Executes(action)
    /\ ~ActionCanStillRun(s.order, action) \/ ~dispatches
    /\ s' = Rest
    /\ UNCHANGED <<scope, incoming, outgoing, calls, passed, subscribed, used>>

SkipAction ==
    \/ ExecuteNothing("SendOutgoingPayment", s.order.status = "IncomingAccepted")
    \/ ExecuteNothing("TrackOutgoingPayment",
                      s.order.status \in {"IncomingAccepted", "OutgoingInFlight"})
    \/ ExecuteNothing("TrackIncomingInvoice", kind = "ReceiveBTC")
    \/ ExecuteNothing("SettleIncomingInvoice", s.order.status = "OutgoingSuccess" /\ s.order.preimage)
    \/ ExecuteNothing("CancelIncomingInvoice", TRUE)

SendGuard == Executes("SendOutgoingPayment") /\ s.order.status = "IncomingAccepted"

\* check_expiry_or_fail
SendTooLate ==
    /\ SendGuard
    /\ "Budget" \in passed
    /\ s' = Post(Rest, << <<"Payment", "Failed">> >>)
    /\ UNCHANGED <<scope, incoming, outgoing, calls, passed, subscribed, used>>

SendFiberPayment ==
    /\ SendGuard
    /\ "Budget" \notin passed
    /\ kind = "ReceiveBTC"
    /\ calls' = Append(calls, "SendPayment")
    /\ s' = Rest
    /\ UNCHANGED <<scope, incoming, outgoing, passed, subscribed, used>>

\* Variant with a fault: a payment the other node knows is taken as done.
KnownPaymentDone == <<"Payment", "Success">>

\* The event for a payment that the other node already knows.
KnownPayment == <<"Payment", "Inflight">>

\* send_payment_v2: LND knows the payment already, starts it (again, if an
\* earlier one failed), refuses it for good, or fails in a way to retry, the
\* payment started or not.
SendLightningPayment ==
    /\ SendGuard
    /\ "Budget" \notin passed
    /\ kind = "SendBTC"
    /\ \/ /\ outgoing \in {"Inflight", "Success"}
          /\ s' = Post(Rest, <<KnownPayment>>)
          /\ NoError /\ UNCHANGED outgoing
       \/ /\ outgoing \in {"Absent", "Failed"}
          /\ outgoing' = "Inflight"
          /\ s' = Post(Rest, << <<"Payment", "Inflight">> >>)
          /\ NoError
       \/ /\ outgoing \in {"Absent", "Failed"}
          /\ s' = Post(Rest, << <<"Payment", "Failed">> >>)
          /\ NoError /\ UNCHANGED outgoing
       \/ /\ Error
          /\ Retry("SendOutgoingPayment")
          /\ outgoing' \in {outgoing} \cup (IF outgoing \in {"Absent", "Failed"} THEN {"Inflight"} ELSE {})
    /\ UNCHANGED <<scope, incoming, calls, passed, subscribed>>

TrackOutgoingPayment ==
    /\ Executes("TrackOutgoingPayment")
    /\ s.order.status \in {"IncomingAccepted", "OutgoingInFlight"}
    /\ s' = IF kind = "SendBTC" THEN StartTracking(Rest) ELSE Rest
    /\ calls' = IF kind = "SendBTC" THEN calls ELSE Append(calls, "GetPayment")
    /\ UNCHANGED <<scope, incoming, outgoing, passed, subscribed, used>>

TrackIncomingInvoice ==
    /\ Executes("TrackIncomingInvoice")
    /\ IsActive(s.order) /\ kind = "ReceiveBTC"
    /\ s' = StartTracking(Rest)
    /\ UNCHANGED <<scope, incoming, outgoing, calls, passed, subscribed, used>>

SettleGuard ==
    Executes("SettleIncomingInvoice") /\ s.order.status = "OutgoingSuccess" /\ s.order.preimage

\* Variant with a fault: an accepted preimage is reported as a paid invoice.
SettleAnswerPaid ==
    IF incoming \in {"Absent", "Open", "Cancelled"}
    THEN << <<"Invoice", "Cancelled">> >> ELSE << <<"Invoice", "Paid">> >>

\* The event an error of settle_invoice is turned into.
SettleAnswer ==
    CASE incoming = "Paid" -> << <<"Invoice", "Paid">> >>
      [] incoming \in {"Absent", "Open", "Cancelled"} -> << <<"Invoice", "Cancelled">> >>
      [] OTHER -> <<>>

SettleFiberInvoice ==
    /\ SettleGuard /\ kind = "SendBTC"
    /\ \/ /\ incoming' = IF incoming = "Received" THEN "Settling" ELSE incoming
          /\ s' = Post(Rest, SettleAnswer)
          /\ NoError
       \/ Error /\ Retry("SettleIncomingInvoice") /\ UNCHANGED incoming
    /\ UNCHANGED <<scope, outgoing, calls, passed, subscribed>>

SettleLightningInvoice ==
    /\ SettleGuard /\ kind = "ReceiveBTC"
    /\ \/ /\ incoming \in {"Received", "Paid"}
          /\ incoming' = "Paid"
          /\ s' = Rest
          /\ NoError
       \/ /\ incoming \notin {"Received", "Paid"}
          /\ Retry("SettleIncomingInvoice")
          /\ NoError /\ UNCHANGED incoming
       \/ Error /\ Retry("SettleIncomingInvoice") /\ UNCHANGED incoming
    /\ UNCHANGED <<scope, outgoing, calls, passed, subscribed>>

CancelGuard == Executes("CancelIncomingInvoice") /\ s.order.status = "Failed" /\ ~s.order.preimage

\* A Fiber invoice with a stored preimage is not cancelled.
CancelFiberInvoice ==
    /\ CancelGuard /\ kind = "SendBTC"
    /\ \/ /\ incoming \in {"Open", "Received", "Lapsed"}
          /\ incoming' = "Cancelled"
          /\ s' = Notify(Rest, <<"Invoice", "Cancelled">>)
          /\ NoError
       \/ /\ incoming \notin {"Open", "Received", "Lapsed"}
          /\ s' = Rest
          /\ NoError /\ UNCHANGED incoming
       \/ Error /\ Retry("CancelIncomingInvoice") /\ UNCHANGED incoming
    /\ UNCHANGED <<scope, outgoing, calls, passed, subscribed>>

CancelLightningInvoice ==
    /\ CancelGuard /\ kind = "ReceiveBTC"
    /\ \/ /\ incoming # "Paid"
          /\ incoming' = IF incoming = "Absent" THEN "Absent" ELSE "Cancelled"
          /\ s' = Rest
          /\ NoError
       \/ /\ incoming = "Paid"
          /\ Retry("CancelIncomingInvoice")
          /\ NoError /\ UNCHANGED incoming
       \/ Error /\ Retry("CancelIncomingInvoice") /\ UNCHANGED incoming
    /\ UNCHANGED <<scope, outgoing, calls, passed, subscribed>>

-----------------------------------------------------------------------------
(* The Fiber node, LND, the payer and the payee. *)

\* SendPayment: a session that has not failed is not started again.
FiberSendsPayment ==
    /\ calls # <<>> /\ Head(calls) = "SendPayment"
    /\ calls' = Tail(calls)
    /\ \/ /\ outgoing \in {"Created", "Inflight", "Success"}
          /\ s' = Post(s, <<KnownPayment>>)
          /\ NoError /\ UNCHANGED outgoing
       \/ /\ outgoing \in {"Absent", "Failed"}
          /\ outgoing' = "Created"
          /\ s' = Post(Notify(s, <<"Payment", "Created">>), << <<"Payment", "Created">> >>)
          /\ NoError
       \/ /\ outgoing \in {"Absent", "Failed"}
          /\ s' = Post(s, << <<"Payment", "Failed">> >>)
          /\ NoError /\ UNCHANGED outgoing
       \/ /\ Error
          /\ s' = Post(s, << <<"ActionRetry", "SendOutgoingPayment">> >>)
          /\ UNCHANGED outgoing
    /\ UNCHANGED <<scope, incoming, passed, subscribed>>

FiberGetsPayment ==
    /\ calls # <<>> /\ Head(calls) = "GetPayment"
    /\ calls' = Tail(calls)
    /\ \/ /\ outgoing # "Absent"
          /\ s' = Post(s, << <<"Payment", outgoing>> >>)
          /\ NoError
       \/ /\ outgoing = "Absent"
          /\ s' = Post(s, << <<"ActionRetry", "TrackOutgoingPayment">> >>)
          /\ NoError
       \/ /\ Error
          /\ s' = Post(s, << <<"ActionRetry", "TrackOutgoingPayment">> >>)
    /\ UNCHANGED <<scope, incoming, outgoing, passed, subscribed>>

FiberCall == FiberSendsPayment \/ FiberGetsPayment

\* The leg on Fiber reports to the hub's subscription, the one on LND to the tracker.
PaymentProceeds ==
    /\ \/ outgoing = "Created" /\ outgoing' = "Inflight"
       \/ outgoing = "Inflight" /\ outgoing' \in {"Success", "Failed"}
    /\ s' = IF kind = "ReceiveBTC" THEN Notify(s, <<"Payment", outgoing'>>) ELSE s
    /\ UNCHANGED <<scope, incoming, calls, passed, subscribed, used>>

PayerPays ==
    /\ incoming = "Open"
    /\ incoming' = "Received"
    /\ s' = IF kind = "SendBTC" THEN Notify(s, <<"Invoice", "Received">>) ELSE s
    /\ UNCHANGED <<scope, outgoing, calls, passed, subscribed, used>>

\* SettleReceivedHoldTlcSet after settle_invoice stored the preimage
FiberInvoiceIsPaid ==
    /\ incoming = "Settling"
    /\ incoming' = "Paid"
    /\ s' = Notify(s, <<"Invoice", "Paid">>)
    /\ UNCHANGED <<scope, outgoing, calls, passed, subscribed, used>>

\* An unpaid invoice expires; no store change tells.
InvoiceExpires ==
    /\ incoming = "Open" /\ "Expiry" \in passed
    /\ incoming' = "Cancelled"
    /\ UNCHANGED <<scope, s, outgoing, calls, passed, subscribed, used>>

\* The held payment times out.  An outgoing route may take half of the time
\* that is left when it is dispatched, so the call to the node and the payment
\* end first, and the hub has the other half to settle.
PayerTimesOut ==
    /\ incoming = "Received" /\ "Budget" \in passed
    /\ outgoing \in {"Absent", "Failed"}
    /\ \A i \in 1..Len(calls) : calls[i] # "SendPayment"
    /\ incoming' = IF kind = "SendBTC" THEN "Lapsed" ELSE "Cancelled"
    /\ UNCHANGED <<scope, s, outgoing, calls, passed, subscribed, used>>

\* The status the LND stream of the order's leg reports.
Streamed == IF kind = "SendBTC" THEN outgoing ELSE incoming

LndTrackerReports ==
    /\ s.tracker = "Active" /\ Streamed \notin {"Absent", s.seen}
    /\ LET st == Post(s, << <<IF kind = "SendBTC" THEN "Payment" ELSE "Invoice", Streamed>> >>)
       IN  s' = IF Streamed \in {"Success", "Failed", "Paid", "Cancelled"}
                THEN StopTracking(st) ELSE [st EXCEPT !.seen = Streamed]
    /\ UNCHANGED <<scope, incoming, outgoing, calls, passed, subscribed, used>>

LndStreamBreaks ==
    /\ s.tracker = "Active" /\ s.seen # "None"
    /\ Error
    /\ s' = [s EXCEPT !.seen = "None"]
    /\ UNCHANGED <<scope, incoming, outgoing, calls, passed, subscribed>>

\* subscribe_store_changes_ws
SubscriptionBreaks ==
    /\ subscribed /\ used.cuts < scope.cuts
    /\ subscribed' = FALSE
    /\ used' = [used EXCEPT !.cuts = @ + 1]
    /\ UNCHANGED <<scope, s, incoming, outgoing, calls, passed>>

Resubscribe ==
    /\ ~subscribed
    /\ subscribed' = TRUE
    /\ s' = Post(s, << <<"Reconcile", "payments">> >>)
    /\ UNCHANGED <<scope, incoming, outgoing, calls, passed, used>>

-----------------------------------------------------------------------------
(* Time: retries and jobs of the scheduler. *)

TimerFires(m) ==
    /\ BagIn(m, s.timers)
    /\ s' = Post([s EXCEPT !.timers = @ (-) SetToBag({m})], <<m>>)
    /\ UNCHANGED <<scope, incoming, outgoing, calls, passed, subscribed, used>>

\* The prune delay (21 days after the expiry) outlasts the legs of the order
\* and every retry.
DeadlinePasses(d) ==
    /\ d \notin passed
    /\ d = "Prune" => /\ "Expiry" \in passed /\ IsFinal(s.order)
                      /\ s.mailbox = <<>> /\ s.timers = EmptyBag /\ s.worker.pc = "Idle" /\ calls = <<>>
    /\ passed' = passed \cup {d}
    /\ UNCHANGED <<scope, s, incoming, outgoing, calls, subscribed, used>>

ExpireJob ==
    /\ "Expire" \in s.jobs /\ "Expiry" \in passed
    /\ s' = Post([s EXCEPT !.jobs = @ \ {"Expire"}], << <<"Expire", "order">> >>)
    /\ UNCHANGED <<scope, incoming, outgoing, calls, passed, subscribed, used>>

\* prune_order: a final order is forgotten, with its trackers.
PruneJob ==
    /\ "Prune" \in s.jobs /\ "Prune" \in passed
    /\ LET st == [s EXCEPT !.jobs = @ \ {"Prune"}]
       IN  s' = IF IsFinal(s.order) THEN [StopTracking(st) EXCEPT !.order = NoOrder] ELSE st
    /\ UNCHANGED <<scope, incoming, outgoing, calls, passed, subscribed, used>>

-----------------------------------------------------------------------------
(* The specification. *)

TimerMessages ==
    ({"Execute"} \X {"SendOutgoingPayment", "TrackOutgoingPayment", "SettleIncomingInvoice",
                     "CancelIncomingInvoice"})
    \cup {<<"Resume", "creation">>}
    \cup ({"Continue"} \X {"order", "creation", "none"})

ExecuteAction ==
    \/ SkipAction
    \/ SendTooLate \/ SendFiberPayment \/ SendLightningPayment
    \/ TrackOutgoingPayment \/ TrackIncomingInvoice
    \/ SettleFiberInvoice \/ SettleLightningInvoice
    \/ CancelFiberInvoice \/ CancelLightningInvoice

Handle ==
    \/ HandleRequest \/ HandleResume \/ HandleCompleted \/ HandleResumeCompleted
    \/ HandleContinueStartupRecovery \/ HandleEvent \/ HandleReconcileFiberPayments
    \/ HandleActionRetry \/ HandleExpireOrder \/ ExecuteAction

Work == WorkerBegins \/ WorkerGetsInvoice \/ WorkerAddsInvoice \/ WorkerCommits

Jobs == ExpireJob \/ PruneJob

JobDue == \/ "Expire" \in s.jobs /\ "Expiry" \in passed
          \/ "Prune" \in s.jobs /\ "Prune" \in passed

Next ==
    \/ Handle \/ Work \/ FiberCall \/ PaymentProceeds \/ FiberInvoiceIsPaid
    \/ LndTrackerReports \/ Resubscribe \/ Jobs
    \/ \E m \in TimerMessages : TimerFires(m)
    \/ \E d \in scope.deadlines : DeadlinePasses(d)
    \/ Request \/ PayerPays \/ InvoiceExpires \/ PayerTimesOut
    \/ LndStreamBreaks \/ SubscriptionBreaks \/ Crash

\* The actor, its tasks, its timers and its jobs run; the two nodes answer;
\* payments in flight end; the order's deadline passes.  The client and the
\* payer owe nothing, and no fault has to happen.  Weak fairness, spelled out
\* with each action's guard in place of ENABLED.
Fairness ==
    /\ []<>(s.mailbox = <<>> \/ Blocked) \/ []<><<Handle>>_vars
    /\ []<>(s.worker.pc = "Idle") \/ []<><<Work>>_vars
    /\ []<>(calls = <<>>) \/ []<><<FiberCall>>_vars
    /\ []<>(outgoing \notin {"Created", "Inflight"}) \/ []<><<PaymentProceeds>>_vars
    /\ []<>(incoming # "Settling") \/ []<><<FiberInvoiceIsPaid>>_vars
    /\ []<>~(s.tracker = "Active" /\ Streamed \notin {"Absent", s.seen})
       \/ []<><<LndTrackerReports>>_vars
    /\ []<>subscribed \/ []<><<Resubscribe>>_vars
    /\ []<>~JobDue \/ []<><<Jobs>>_vars
    /\ \A m \in TimerMessages : []<>~BagIn(m, s.timers) \/ []<><<TimerFires(m)>>_vars
    /\ []<>("Expiry" \in passed \/ "Expiry" \notin scope.deadlines)
       \/ []<><<DeadlinePasses("Expiry")>>_vars

Spec == Init /\ [][Next]_vars /\ Fairness

-----------------------------------------------------------------------------
(* Properties. *)

Actions ==
    {"SendOutgoingPayment", "TrackOutgoingPayment", "TrackIncomingInvoice",
     "SettleIncomingInvoice", "CancelIncomingInvoice"}

Results == {"New", "Existing", "Nothing", "AlreadyTracked", "Expired", "Mismatch", "Unreachable"}

Messages ==
    TimerMessages
    \cup ({"Request"} \X {"SendBTC", "ReceiveBTC"})
    \cup ({"Execute"} \X Actions)
    \cup ({"ActionRetry"} \X {"SendOutgoingPayment", "TrackOutgoingPayment"})
    \cup ({"Invoice"} \X InvoiceStatuses) \cup ({"Payment"} \X PaymentStatuses)
    \cup ({"Completed", "ResumeCompleted"} \X Results)
    \cup {<<"Expire", "order">>, <<"Reconcile", "payments">>}

Orders == [status : OrderStatuses, preimage : BOOLEAN]

\* A creation stores the order with one of these statuses.
Workers ==
    [pc : {"Idle", "Begin", "Get", "Add", "GetAgain", "Commit"},
     from : {"Request", "Resume"},
     status : {"None", "Pending", "IncomingAccepted", "Failed"}]

\* The hub's fields, with the orders, messages and deferred statuses it may hold.
HubOK(st, orders, messages, deferred) ==
    /\ DOMAIN st = {"order", "intent", "mailbox", "timers", "worker", "active", "pending",
                    "deferred", "tracker", "seen", "jobs", "recovering"}
    /\ st.order \in orders
    /\ st.mailbox \in Seq(messages)
    /\ st.deferred \in deferred
    /\ BagToSet(st.timers) \subseteq TimerMessages
    /\ st.worker \in Workers
    /\ st.intent \in BOOLEAN /\ st.active \in BOOLEAN /\ st.pending \in BOOLEAN
    /\ st.recovering \in BOOLEAN
    /\ st.tracker \in {"None", "Reserved", "Active"}
    /\ st.seen \in {"None"} \cup IncomingStates \cup OutgoingStates
    /\ st.jobs \subseteq {"Expire", "Prune"}

\* Every variable has its type.
TypeOK ==
    /\ scope \in Scopes
    /\ HubOK(s, Orders, Messages, {"None"} \cup InvoiceStatuses)
    /\ incoming \in IncomingStates
    /\ outgoing \in OutgoingStates
    /\ calls \in Seq({"SendPayment", "GetPayment"})
    /\ passed \subseteq scope.deadlines
    /\ subscribed \in BOOLEAN
    /\ used \in [requests : Nat, crashes : Nat, errors : Nat, cuts : Nat]

\* The payer is charged only for a payment the hub has made: the preimage that
\* settles the incoming invoice comes from an outgoing success (the state
\* machine's preimage and SettleIncomingInvoice).
ChargedOnlyAfterPayout == incoming \in {"Settling", "Paid"} => outgoing = "Success"

\* An order reported as Success has both legs done: Paid events and outgoing
\* successes, however late or repeated, do not take it there alone.
SuccessMeansBothLegs == s.order.status = "Success" => incoming = "Paid" /\ outgoing = "Success"

\* No payable invoice without a durable record: from the moment the creation
\* has an effect on the other node, a crash leaves the intent or the order to
\* find it by ("The intent is the durable boundary").
InvoiceIsOnRecord ==
    incoming \in {"Open", "Received"} => s.intent \/ s.order.status # "None" \/ "Prune" \in passed

\* The all-or-nothing swap: a payout never meets a cancelled or lapsed
\* incoming invoice.
AtomicSwap == outgoing = "Success" => incoming \notin {"Open", "Cancelled", "Lapsed"}

Rank(o) ==
    CASE o.status = "None" -> 0 [] o.status = "Pending" -> 1 [] o.status = "IncomingAccepted" -> 2
      [] o.status = "OutgoingInFlight" -> 3 [] o.status = "OutgoingSuccess" -> 4
      [] o.status \in FinalStatuses -> 5

OrderStep ==
    \/ s'.order = s.order
    \/ Rank(s'.order) > Rank(s.order)
    \/ IsFinal(s.order) /\ "Prune" \in passed /\ s'.order = NoOrder

\* The stored order only moves forward: no late event, retry, recovery or
\* repeated creation takes it back, and only pruning removes a final one.
OrderMovesForward == [][OrderStep]_vars

\* Two creations of one order never both talk to the other node: a request
\* starts a creation beside a running one (its own message was overtaken by
\* the request) only where the running one will find the order stored.
OneCreation ==
    [][HandleRequest /\ s.worker.pc # "Idle" => s' = Rest \/ s.order.status # "None"]_vars

\* Every stored order reaches a final status: retries, trackers, startup
\* recovery and the expiry job leave none behind.
OrderResolves ==
    IsActive(s.order) /\ "Expiry" \in scope.deadlines ~> ~IsActive(s.order)

\* A failed order gives the payer's money back: the incoming invoice of a
\* failed order without preimage does not stay payable or held.
FailedOrderReleasesPayer ==
    (s.order.status = "Failed" /\ ~s.order.preimage) ~> incoming \notin {"Open", "Received"}
=============================================================================
