--------------------------- MODULE CchOrderProofs ---------------------------
(***************************************************************************)
(* Facts about an order of the cross-chain hub for every set of scopes: any *)
(* number of requests, crashes, transient errors and broken subscriptions, *)
(* and any deadlines.  What the hub stores and the messages it has still   *)
(* to handle never claim more than the two legs have done.                 *)
(***************************************************************************)
EXTENDS CchOrder, SequenceTheorems, TLAPS

-----------------------------------------------------------------------------
(* What the hub may hold while the legs are in and out. *)

SoundOrders(in, out) ==
    {o \in Orders : /\ o.status \in {"OutgoingSuccess", "Success"} \/ o.preimage => out = "Success"
                    /\ o.status = "Success" => in = "Paid"}

SoundMessages(in, out) ==
    {m \in Messages : /\ m = <<"Invoice", "Paid">> => in = "Paid"
                      /\ m = <<"Payment", "Success">> => out = "Success"}

SoundDeferred(in) == {d \in {"None"} \cup InvoiceStatuses : d = "Paid" => in = "Paid"}

SoundHub(st, in, out) ==
    HubOK(st, SoundOrders(in, out), SoundMessages(in, out), SoundDeferred(in))

\* A creation past its first step works on a stored intent without order.
CreationOK(st) ==
    /\ st.worker.pc \in {"Get", "Add", "GetAgain", "Commit"} => st.order.status = "None" /\ st.intent
    /\ st.worker.pc = "Commit" => st.worker.status # "None"

\* The invoice is added where there is none.
AddsOnce == s.worker.pc = "Add" => incoming = "Absent"

\* Only an invoice on Fiber is settled in two steps or lapses.
LapsesOnFiber == incoming \in {"Settling", "Lapsed"} => kind = "SendBTC"

\* The inductive invariant.
Inv ==
    /\ TypeOK
    /\ SoundHub(s, incoming, outgoing)
    /\ CreationOK(s)
    /\ ChargedOnlyAfterPayout
    /\ InvoiceIsOnRecord
    /\ LapsesOnFiber
    /\ AddsOnce

\* Handling a message: the creation is left alone and an active order may advance.
Handled(st, st2) ==
    /\ st2.worker = st.worker
    /\ st2.intent = st.intent
    /\ \/ st2.order = st.order
       \/ IsActive(st.order) /\ Rank(st2.order) > Rank(st.order)

Handles(st, st2, in, out) == SoundHub(st2, in, out) /\ Handled(st, st2)

-----------------------------------------------------------------------------
(* Posting messages. *)

(* A message alone is a sequence of messages. *)
LEMMA OneMessage ==
    ASSUME NEW S, NEW m \in S
    PROVE  <<m>> \in Seq(S)
  OBVIOUS

(* Posting sound messages is a step of a handler. *)
LEMMA PostOK ==
    ASSUME NEW st, NEW in, NEW out, SoundHub(st, in, out),
           NEW ms \in Seq(SoundMessages(in, out))
    PROVE  /\ Handles(st, Post(st, ms), in, out)
           /\ Post(st, ms).order = st.order
<1>1. st.mailbox \o ms \in Seq(SoundMessages(in, out))
  BY ConcatProperties DEF SoundHub, HubOK
<1> QED
  BY <1>1 DEF SoundHub, HubOK, Post, Handles, Handled

(* The actions of a status are posted for the actor to execute. *)
LEMMA AppendActionsOK ==
    ASSUME NEW st, NEW in, NEW out, SoundHub(st, in, out), NEW actions \in Seq(Actions)
    PROVE  /\ Handles(st, AppendActions(st, actions), in, out)
           /\ AppendActions(st, actions).order = st.order
<1> DEFINE ms == [i \in 1..Len(actions) |-> <<"Execute", actions[i]>>]
<1>1. \A a \in Actions : <<"Execute", a>> \in SoundMessages(in, out)
  BY DEF SoundMessages, Messages
<1>2. ms \in Seq(SoundMessages(in, out))
  BY <1>1
<1> QED
  BY <1>2, PostOK DEF AppendActions

(* on_entering and on_starting name actions of an order. *)
LEMMA ActionsOfStatus ==
    ASSUME NEW o \in Orders
    PROVE  OnEntering(o) \in Seq(Actions) /\ OnStarting(o) \in Seq(Actions)
<1>0. /\ <<>> \in Seq(Actions)
      /\ \A a, b \in Actions : <<a>> \in Seq(Actions) /\ <<a, b>> \in Seq(Actions)
  OBVIOUS
<1>a. /\ "SendOutgoingPayment" \in Actions /\ "TrackOutgoingPayment" \in Actions
      /\ "TrackIncomingInvoice" \in Actions /\ "SettleIncomingInvoice" \in Actions
      /\ "CancelIncomingInvoice" \in Actions
  BY DEF Actions
<1>1. OnEntering(o) \in Seq(Actions)
  BY <1>0, <1>a DEF OnEntering
<1>2. OnStarting(o) \in Seq(Actions)
  BY <1>1, <1>a DEF OnStarting
<1> QED
  BY <1>1, <1>2

(* A retry or a continuation is one of the timer messages. *)
LEMMA SendAfterOK ==
    ASSUME NEW st, NEW in, NEW out, SoundHub(st, in, out), NEW m \in TimerMessages
    PROVE  /\ Handles(st, SendAfter(st, m), in, out)
           /\ SendAfter(st, m).order = st.order
<1>1. BagToSet(st.timers (+) SetToBag({m})) \subseteq TimerMessages
  BY DEF SoundHub, HubOK, BagToSet, SetToBag, (+)
<1> QED
  BY Zenon, <1>1 DEF SoundHub, HubOK, SendAfter, Handles, Handled

-----------------------------------------------------------------------------
(* The state machine moves an order forward, to what the legs have done. *)

Advances(o, n) == n = o \/ Rank(n) > Rank(o)

(* A sound invoice event takes an active order forward or leaves it. *)
LEMMA ApplyInvoiceOK ==
    ASSUME NEW in, NEW out, NEW o \in SoundOrders(in, out), IsActive(o),
           NEW st \in InvoiceStatuses, st = "Paid" => in = "Paid"
    PROVE  /\ ApplyInvoice(o, st) \in SoundOrders(in, out)
           /\ Advances(o, ApplyInvoice(o, st))
  BY DEF ApplyInvoice, InvoiceOrderStatus, Transit, AllowTransition, SoundOrders, Orders,
         OrderStatuses, FinalStatuses, IsActive, Advances, Rank, InvoiceStatuses

(* A sound payment event takes an active order forward or leaves it. *)
LEMMA ApplyPaymentOK ==
    ASSUME NEW in, NEW out, NEW o \in SoundOrders(in, out), IsActive(o),
           NEW st \in PaymentStatuses, st = "Success" => out = "Success"
    PROVE  /\ ApplyPayment(o, st) \in SoundOrders(in, out)
           /\ Advances(o, ApplyPayment(o, st))
<1> DEFINE n == Transit(o, PaymentOrderStatus(st))
<1>1. n = o \/ n = [o EXCEPT !.status = PaymentOrderStatus(st)]
  BY DEF Transit
<1>2. n = o \/ Rank(n) > Rank(o)
  BY DEF ApplyPayment, PaymentOrderStatus, Transit, AllowTransition, SoundOrders, Orders,
         OrderStatuses, FinalStatuses, IsActive, Rank, PaymentStatuses
<1>3. n \in SoundOrders(in, out)
  BY DEF ApplyPayment, PaymentOrderStatus, Transit, AllowTransition, SoundOrders, Orders,
         OrderStatuses, FinalStatuses, IsActive, PaymentStatuses
<1>4. CASE ApplyPayment(o, st) \in {o, n}
  BY <1>2, <1>3, <1>4 DEF Advances
<1>5. CASE ApplyPayment(o, st) \notin {o, n}
  <2>1. st = "Success" /\ n.status # o.status /\ ApplyPayment(o, st) = [n EXCEPT !.preimage = TRUE]
    BY <1>5 DEF ApplyPayment
  <2>2. [n EXCEPT !.preimage = TRUE] \in SoundOrders(in, out)
    BY Zenon, <2>1, <1>3 DEF SoundOrders, Orders
  <2>3. Rank([n EXCEPT !.preimage = TRUE]) = Rank(n)
    BY Zenon, <1>3 DEF Rank, SoundOrders, Orders
  <2> QED
    BY Zenon, <2>1, <2>2, <2>3, <1>2 DEF Advances
<1> QED
  BY <1>4, <1>5

(* What a tracking event carries. *)
LEMMA EventParts ==
    ASSUME NEW in, NEW out, NEW m \in SoundMessages(in, out)
    PROVE  /\ m[1] = "Invoice" => m[2] \in InvoiceStatuses /\ (m[2] = "Paid" => in = "Paid")
           /\ m[1] = "Payment" => m[2] \in PaymentStatuses /\ (m[2] = "Success" => out = "Success")
  BY DEF SoundMessages, Messages, TimerMessages

(* So does apply_tracking_event_to_order, which may also expire the order. *)
LEMMA ApplyEventOK ==
    ASSUME NEW in, NEW out, NEW o \in SoundOrders(in, out), IsActive(o),
           NEW m \in SoundMessages(in, out), m[1] \in {"Invoice", "Payment"}
    PROVE  /\ ApplyEvent(o, m) \in SoundOrders(in, out)
           /\ Advances(o, ApplyEvent(o, m))
<1>1. /\ o.status = "Pending" => Rank([o EXCEPT !.status = "Failed"]) > Rank(o)
      /\ o.status = "Pending" => [o EXCEPT !.status = "Failed"] \in SoundOrders(in, out)
  BY DEF Rank, FinalStatuses, SoundOrders, Orders, OrderStatuses
<1>2. m[1] = "Invoice" => /\ ApplyInvoice(o, m[2]) \in SoundOrders(in, out)
                          /\ Advances(o, ApplyInvoice(o, m[2]))
  BY EventParts, ApplyInvoiceOK
<1>3. m[1] = "Payment" => /\ ApplyPayment(o, m[2]) \in SoundOrders(in, out)
                          /\ Advances(o, ApplyPayment(o, m[2]))
  BY EventParts, ApplyPaymentOK
<1> QED
  BY <1>1, <1>2, <1>3 DEF ApplyEvent, Advances

-----------------------------------------------------------------------------
(* The handlers of the actor. *)

(* One handler after another. *)
LEMMA HandlesTwice ==
    ASSUME NEW a, NEW b, NEW c, NEW in, NEW out,
           SoundHub(a, in, out), Handles(a, b, in, out), Handles(b, c, in, out)
    PROVE  Handles(a, c, in, out)
<1>1. /\ Rank(a.order) \in Nat /\ Rank(b.order) \in Nat /\ Rank(c.order) \in Nat
  BY DEF Handles, SoundHub, HubOK, SoundOrders, Orders, Rank, OrderStatuses, FinalStatuses
<1> QED
  BY <1>1 DEF Handles, Handled

(* Jobs and trackers are not part of the order. *)
LEMMA ScheduleJobOK ==
    ASSUME NEW st, NEW in, NEW out, SoundHub(st, in, out)
    PROVE  /\ Handles(st, ScheduleJobOnEntering(st), in, out)
           /\ Handles(st, StopTrackingPayment(st), in, out)
           /\ Handles(st, StopTracking(st), in, out)
           /\ Handles(st, StartTracking(st), in, out)
           /\ ScheduleJobOnEntering(st).order = st.order
           /\ StopTrackingPayment(st).order = st.order
  BY DEF SoundHub, HubOK, Handles, Handled, ScheduleJobOnEntering, StopTrackingPayment,
         StopTracking, StartTracking

(* The order is replaced by one it may advance to. *)
LEMMA AdvanceOK ==
    ASSUME NEW st, NEW in, NEW out, SoundHub(st, in, out), IsActive(st.order),
           NEW o \in SoundOrders(in, out), Advances(st.order, o)
    PROVE  Handles(st, [st EXCEPT !.order = o], in, out)
  BY DEF SoundHub, HubOK, Handles, Handled, Advances

(* handle_tracking_event: a sound event is held back or applied. *)
LEMMA HandleTrackingEventOK ==
    ASSUME NEW st, NEW in, NEW out, SoundHub(st, in, out),
           NEW m \in SoundMessages(in, out), m[1] \in {"Invoice", "Payment"}
    PROVE  Handles(st, HandleTrackingEvent(st, m), in, out)
<1> DEFINE o == ApplyEvent(st.order, m)
           a == [st EXCEPT !.order = o]
           b == ScheduleJobOnEntering(a)
           c == AppendActions(b, OnEntering(o))
<1>1. CASE m[1] = "Invoice" /\ Deferring(st)
  <2>1. Merge(st.deferred, m[2]) \in SoundDeferred(in)
    BY <1>1, EventParts DEF Merge, SoundHub, HubOK, SoundDeferred
  <2> QED
    BY <1>1, <2>1 DEF HandleTrackingEvent, SoundHub, HubOK, Handles, Handled
<1>2. CASE ~(m[1] = "Invoice" /\ Deferring(st)) /\ (~IsActive(st.order) \/ o.status = st.order.status)
  BY <1>2 DEF HandleTrackingEvent, Handles, Handled
<1>3. CASE ~(m[1] = "Invoice" /\ Deferring(st)) /\ ~(~IsActive(st.order) \/ o.status = st.order.status)
  <2>1. HandleTrackingEvent(st, m) = c
    BY <1>3 DEF HandleTrackingEvent
  <2>2. o \in SoundOrders(in, out) /\ Advances(st.order, o) /\ IsActive(st.order)
    BY <1>3, ApplyEventOK DEF SoundHub, HubOK
  <2>3. Handles(st, a, in, out)
    BY <2>2, AdvanceOK
  <2>4. Handles(a, b, in, out)
    BY <2>3, ScheduleJobOK DEF Handles
  <2>5. Handles(b, c, in, out)
    BY <2>2, <2>4, ActionsOfStatus, AppendActionsOK DEF Handles, SoundOrders
  <2> QED
    BY SMTT(30), <2>1, <2>3, <2>4, <2>5, HandlesTwice DEF Handles
<1> QED
  BY <1>1, <1>2, <1>3

(* The status held back during the creation is applied to the stored order. *)
LEMMA ReconcileDeferredOK ==
    ASSUME NEW st, NEW in, NEW out, SoundHub(st, in, out)
    PROVE  Handles(st, ReconcileDeferred(st), in, out)
<1> DEFINE m == <<"Invoice", st.deferred>>
           o == IF DeferredAdvances(st.order.status, st.deferred)
                THEN ApplyEvent(st.order, m) ELSE st.order
<1>1. CASE DeferredAdvances(st.order.status, st.deferred)
  <2>1. IsActive(st.order) /\ st.deferred # "None"
    BY <1>1 DEF DeferredAdvances, IsActive, FinalStatuses
  <2>2. m \in SoundMessages(in, out)
    BY <2>1 DEF SoundMessages, Messages, SoundHub, HubOK, SoundDeferred
  <2>3. o \in SoundOrders(in, out) /\ Advances(st.order, o)
    BY <1>1, <2>1, <2>2, ApplyEventOK DEF SoundHub, HubOK
  <2> QED
    BY <1>1, <2>1, <2>3
       DEF ReconcileDeferred, SoundHub, HubOK, SoundDeferred, Handles, Handled, Advances
<1>2. CASE ~DeferredAdvances(st.order.status, st.deferred)
  BY <1>2 DEF ReconcileDeferred, SoundHub, HubOK, SoundDeferred, Handles, Handled
<1> QED
  BY <1>1, <1>2

(* Failing an order that is still Pending. *)
LEMMA PendingFails ==
    ASSUME NEW in, NEW out, NEW o \in SoundOrders(in, out), o.status = "Pending"
    PROVE  /\ [o EXCEPT !.status = "Failed"] \in SoundOrders(in, out)
           /\ Advances(o, [o EXCEPT !.status = "Failed"])
           /\ IsActive(o)
           /\ OnEntering([o EXCEPT !.status = "Failed"]) \in Seq(Actions)
<1>1. [o EXCEPT !.status = "Failed"] \in SoundOrders(in, out)
  BY DEF SoundOrders, Orders, OrderStatuses, FinalStatuses
<1> QED
  BY <1>1, ActionsOfStatus DEF SoundOrders, Orders, IsActive, Advances, Rank, FinalStatuses

(* expire_order fails an order that is Pending and leaves the others alone. *)
LEMMA ExpireOrderOK ==
    ASSUME NEW st, NEW in, NEW out, SoundHub(st, in, out)
    PROVE  Handles(st, ExpireOrder(st), in, out)
<1> DEFINE o == [st.order EXCEPT !.status = "Failed"]
           a == StopTrackingPayment(st)
           b == [a EXCEPT !.order = o, !.jobs = @ \cup {"Prune"}]
<1>1. CASE st.order.status # "Pending"
  BY <1>1 DEF ExpireOrder, Handles, Handled
<1>2. CASE st.order.status = "Pending"
  <2>1. Handles(st, a, in, out) /\ a.order = st.order
    BY ScheduleJobOK
  <2>2. /\ o \in SoundOrders(in, out) /\ Advances(st.order, o)
        /\ IsActive(st.order) /\ OnEntering(o) \in Seq(Actions)
    BY <1>2, PendingFails DEF SoundHub, HubOK
  <2>3. Handles(st, b, in, out)
    BY <2>1, <2>2 DEF SoundHub, HubOK, Handles, Handled, Advances
  <2>4. Handles(b, AppendActions(b, OnEntering(o)), in, out)
    BY <2>2, <2>3, AppendActionsOK DEF Handles
  <2>5. ExpireOrder(st) = AppendActions(b, OnEntering(o))
    BY <1>2 DEF ExpireOrder
  <2> QED
    BY <2>3, <2>4, <2>5, HandlesTwice
<1> QED
  BY <1>1, <1>2

(* A prune job is scheduled. *)
LEMMA PruneScheduledOK ==
    ASSUME NEW st, NEW b, NEW in, NEW out, Handles(st, b, in, out)
    PROVE  Handles(st, [b EXCEPT !.jobs = @ \cup {"Prune"}], in, out)
  BY DEF SoundHub, HubOK, Handles, Handled

(* recover_persisted_order: the order stays or, when it is too old, fails. *)
LEMMA RecoverPersistedOrderOK ==
    ASSUME NEW st, NEW in, NEW out, SoundHub(st, in, out)
    PROVE  Handles(st, RecoverPersistedOrder(st), in, out)
<1> DEFINE o == [st.order EXCEPT !.status = "Failed"]
           a == [st EXCEPT !.order = o]
           b == AppendActions(a, OnEntering(o))
           c == AppendActions(st, OnStarting(st.order))
<1>1. Handles(st, c, in, out)
  BY ActionsOfStatus, AppendActionsOK DEF SoundHub, HubOK, SoundOrders
<1>2. CASE IsFinal(st.order)
  <2>1. RecoverPersistedOrder(st) = [c EXCEPT !.jobs = @ \cup {"Prune"}]
    BY <1>2 DEF RecoverPersistedOrder, IsFinal, FinalStatuses
  <2> QED
    BY <1>1, <2>1, PruneScheduledOK
<1>3. CASE ~IsFinal(st.order) /\ st.order.status = "Pending" /\ "Expiry" \in passed
  <2>1. /\ o \in SoundOrders(in, out) /\ Advances(st.order, o)
        /\ IsActive(st.order) /\ OnEntering(o) \in Seq(Actions)
    BY <1>3, PendingFails DEF SoundHub, HubOK
  <2>2. Handles(st, a, in, out)
    BY <2>1, AdvanceOK
  <2>3. Handles(a, b, in, out)
    BY <2>1, <2>2, AppendActionsOK DEF Handles
  <2>4. Handles(st, b, in, out)
    BY <2>2, <2>3, HandlesTwice
  <2>5. RecoverPersistedOrder(st) = [b EXCEPT !.jobs = @ \cup {"Prune"}]
    BY <1>3 DEF RecoverPersistedOrder
  <2> QED
    BY <2>4, <2>5, PruneScheduledOK
<1>4. CASE ~IsFinal(st.order) /\ ~(st.order.status = "Pending" /\ "Expiry" \in passed)
  BY <1>1, <1>4 DEF RecoverPersistedOrder, SoundHub, HubOK, Handles, Handled
<1> QED
  BY <1>2, <1>3, <1>4

(* A creation is tried again later, once. *)
LEMMA ScheduleCreationRetryOK ==
    ASSUME NEW st, NEW in, NEW out, SoundHub(st, in, out)
    PROVE  Handles(st, ScheduleCreationRetry(st), in, out)
<1>1. SoundHub([st EXCEPT !.pending = TRUE], in, out) /\ Handles(st, [st EXCEPT !.pending = TRUE], in, out)
  BY DEF SoundHub, HubOK, Handles, Handled
<1>2. <<"Resume", "creation">> \in TimerMessages
  BY DEF TimerMessages
<1>3. Handles(st, SendAfter([st EXCEPT !.pending = TRUE], <<"Resume", "creation">>), in, out)
  BY <1>1, <1>2, SendAfterOK, HandlesTwice
<1> QED
  BY <1>3 DEF ScheduleCreationRetry, Handles, Handled

-----------------------------------------------------------------------------
(* Steps that leave the creation alone. *)

CallNames == {"SendPayment", "GetPayment"}

Bounds == [requests : Nat, crashes : Nat, errors : Nat, cuts : Nat]

(* A leg that moves on does not take back what the hub knows of it. *)
LEMMA LegsMoveOn ==
    ASSUME NEW st, NEW in, NEW out, NEW in2, NEW out2, SoundHub(st, in, out),
           in = "Paid" => in2 = "Paid", out = "Success" => out2 = "Success"
    PROVE  SoundHub(st, in2, out2)
<1>1. /\ SoundOrders(in, out) \subseteq SoundOrders(in2, out2)
      /\ SoundMessages(in, out) \subseteq SoundMessages(in2, out2)
      /\ SoundDeferred(in) \subseteq SoundDeferred(in2)
  BY DEF SoundOrders, SoundMessages, SoundDeferred
<1>2. Seq(SoundMessages(in, out)) \subseteq Seq(SoundMessages(in2, out2))
  BY <1>1
<1> QED
  BY <1>1, <1>2 DEF SoundHub, HubOK

(* The hub's types follow from the soundness of what it holds. *)
LEMMA SoundHubIsTyped ==
    ASSUME NEW st, NEW in, NEW out, SoundHub(st, in, out)
    PROVE  HubOK(st, Orders, Messages, {"None"} \cup InvoiceStatuses)
<1>1. /\ SoundOrders(in, out) \subseteq Orders
      /\ SoundMessages(in, out) \subseteq Messages
      /\ SoundDeferred(in) \subseteq {"None"} \cup InvoiceStatuses
  BY DEF SoundOrders, SoundMessages, SoundDeferred
<1>2. Seq(SoundMessages(in, out)) \subseteq Seq(Messages)
  BY <1>1
<1> QED
  BY <1>1, <1>2 DEF SoundHub, HubOK

(* What a step that only handles a message, or moves a leg, has to show. *)
LEMMA HandlingStep ==
    ASSUME Inv, Handles(s, s', incoming', outgoing'), scope' = scope,
           incoming' \in IncomingStates, outgoing' \in OutgoingStates,
           calls' \in Seq(CallNames), passed' \subseteq scope.deadlines, passed \subseteq passed',
           subscribed' \in BOOLEAN, used' \in Bounds,
           incoming' \in {"Settling", "Paid"} => outgoing' = "Success",
           incoming' \in {"Settling", "Lapsed"} => kind = "SendBTC",
           incoming = "Absent" => incoming' = "Absent",
           incoming' \in {"Open", "Received"} => incoming \in {"Open", "Received"}
    PROVE  Inv' /\ OrderStep
<1>1. TypeOK'
  BY Zenon, SoundHubIsTyped DEF TypeOK, Inv, Handles, CallNames, Bounds
<1>2. SoundHub(s, incoming, outgoing)' /\ OrderStep
  BY DEF Handles, Handled, OrderStep
<1>3. s.order.status = "None" => s'.order = s.order
  BY DEF Handles, Handled, IsActive
<1>4. CreationOK(s)'
  BY <1>3 DEF Inv, CreationOK, Handles, Handled
<1>5. ChargedOnlyAfterPayout'
  BY DEF ChargedOnlyAfterPayout
<1>6. s.order.status # "None" => s'.order.status # "None"
  BY DEF Inv, Handles, Handled, SoundHub, HubOK, SoundOrders, Orders, OrderStatuses, FinalStatuses, Rank
<1>7. InvoiceIsOnRecord'
  BY <1>6 DEF Inv, InvoiceIsOnRecord, Handles, Handled
<1>8. LapsesOnFiber' /\ AddsOnce'
  BY DEF Inv, LapsesOnFiber, AddsOnce, kind, Handles, Handled
<1> QED
  BY <1>1, <1>2, <1>4, <1>5, <1>7, <1>8 DEF Inv

(* The message at hand is taken from the mailbox. *)
LEMMA RestOK ==
    ASSUME Inv, s.mailbox # <<>>
    PROVE  /\ Handles(s, Rest, incoming, outgoing)
           /\ Rest.order = s.order
           /\ Head(s.mailbox) \in SoundMessages(incoming, outgoing)
<1>1. /\ Tail(s.mailbox) \in Seq(SoundMessages(incoming, outgoing))
      /\ Head(s.mailbox) \in SoundMessages(incoming, outgoing)
  BY HeadTailProperties DEF Inv, SoundHub, HubOK
<1> QED
  BY <1>1 DEF Inv, SoundHub, HubOK, Rest, Handles, Handled

(* A step of the hub alone. *)
LEMMA HubStep ==
    ASSUME Inv, Handles(s, s', incoming, outgoing),
           UNCHANGED <<scope, incoming, outgoing, passed, subscribed>>,
           calls' \in Seq(CallNames), used' \in Bounds
    PROVE  Inv' /\ OrderStep
<1>1. /\ incoming \in IncomingStates /\ outgoing \in OutgoingStates
      /\ passed \subseteq scope.deadlines /\ subscribed \in BOOLEAN
      /\ incoming \in {"Settling", "Paid"} => outgoing = "Success"
      /\ incoming \in {"Settling", "Lapsed"} => kind = "SendBTC"
  BY DEF Inv, TypeOK, ChargedOnlyAfterPayout, LapsesOnFiber
<1> QED
  BY <1>1, HandlingStep

(* A step that handles the message at hand. *)
LEMMA MailboxStep ==
    ASSUME Inv, s.mailbox # <<>>, Handles(Rest, s', incoming, outgoing),
           UNCHANGED <<scope, incoming, outgoing, calls, passed, subscribed, used>>
    PROVE  Inv' /\ OrderStep
<1>1. Handles(s, s', incoming, outgoing)
  BY RestOK, HandlesTwice DEF Inv
<1>2. calls' \in Seq(CallNames) /\ used' \in Bounds
  BY DEF Inv, TypeOK, CallNames, Bounds
<1> QED
  BY <1>1, <1>2, HubStep

(* TrackingEvent and StoreChangeEvent keep the invariant. *)
LEMMA HandleEventOK ==
    ASSUME Inv, HandleEvent
    PROVE  Inv' /\ OrderStep
<1>1. s.mailbox # <<>> /\ Head(s.mailbox)[1] \in {"Invoice", "Payment"}
  BY DEF HandleEvent, Receive
<1>2. SoundHub(Rest, incoming, outgoing) /\ Head(s.mailbox) \in SoundMessages(incoming, outgoing)
  BY <1>1, RestOK DEF Handles
<1>3. Handles(Rest, HandleTrackingEvent(Rest, Head(s.mailbox)), incoming, outgoing)
  BY <1>1, <1>2, HandleTrackingEventOK
<1> QED
  BY <1>1, <1>3, MailboxStep DEF HandleEvent

(* ReconcileFiberPayments keeps the invariant. *)
LEMMA HandleReconcileOK ==
    ASSUME Inv, HandleReconcileFiberPayments
    PROVE  Inv' /\ OrderStep
<1>1. s.mailbox # <<>>
  BY DEF HandleReconcileFiberPayments, Receive
<1>2. SoundHub(Rest, incoming, outgoing)
  BY <1>1, RestOK DEF Handles
<1>3. <<"TrackOutgoingPayment">> \in Seq(Actions)
  BY DEF Actions
<1>4. Handles(Rest, s', incoming, outgoing)
  BY Zenon, <1>2, <1>3, AppendActionsOK DEF HandleReconcileFiberPayments, Handles, Handled
<1> QED
  BY <1>1, <1>4, MailboxStep DEF HandleReconcileFiberPayments

(* ActionRetry keeps the invariant. *)
LEMMA HandleActionRetryOK ==
    ASSUME Inv, HandleActionRetry
    PROVE  Inv' /\ OrderStep
<1>1. s.mailbox # <<>> /\ Head(s.mailbox)[1] = "ActionRetry"
  BY DEF HandleActionRetry, Receive
<1>2. SoundHub(Rest, incoming, outgoing) /\ Head(s.mailbox) \in Messages
  BY <1>1, RestOK DEF Handles, SoundMessages
<1>3. <<"Execute", Argument>> \in TimerMessages
  BY <1>1, <1>2 DEF Messages, TimerMessages, Argument
<1>4. Handles(Rest, s', incoming, outgoing)
  BY <1>2, <1>3, SendAfterOK DEF HandleActionRetry, Handles, Handled
<1> QED
  BY <1>1, <1>4, MailboxStep DEF HandleActionRetry

(* ExpireOrder keeps the invariant. *)
LEMMA HandleExpireOrderOK ==
    ASSUME Inv, HandleExpireOrder
    PROVE  Inv' /\ OrderStep
<1>1. s.mailbox # <<>>
  BY DEF HandleExpireOrder, Receive
<1>2. Handles(Rest, s', incoming, outgoing)
  BY <1>1, RestOK, ExpireOrderOK DEF HandleExpireOrder, Handles
<1> QED
  BY <1>1, <1>2, MailboxStep DEF HandleExpireOrder

(* ContinueStartupRecovery keeps the invariant. *)
LEMMA HandleContinueOK ==
    ASSUME Inv, HandleContinueStartupRecovery
    PROVE  Inv' /\ OrderStep
<1> DEFINE next == <<"Continue", "none">>
           resume == << <<"Resume", "creation">> >>
           a == [Rest EXCEPT !.pending = TRUE]
<1>1. s.mailbox # <<>> /\ Head(s.mailbox)[1] = "Continue"
  BY DEF HandleContinueStartupRecovery, Receive
<1>2. SoundHub(Rest, incoming, outgoing) /\ Head(s.mailbox) \in Messages
  BY <1>1, RestOK DEF Handles, SoundMessages
<1>3. Argument \in {"order", "creation", "none"}
  BY <1>1, <1>2 DEF Messages, TimerMessages, Argument
<1>4. next \in TimerMessages /\ resume \in Seq(SoundMessages(incoming, outgoing))
  BY DEF TimerMessages, SoundMessages, Messages
<1>5. \A st : Handles(Rest, st, incoming, outgoing) => Handles(Rest, SendAfter(st, next), incoming, outgoing)
  BY <1>2, <1>4, SendAfterOK, HandlesTwice DEF Handles
<1>6. Handles(Rest, Rest, incoming, outgoing)
  BY <1>2 DEF Handles, Handled
<1>7. Handles(Rest, a, incoming, outgoing)
  BY <1>2 DEF SoundHub, HubOK, Handles, Handled
<1>8. Handles(Rest, Post(a, resume), incoming, outgoing)
  BY SMTT(30), <1>2, <1>4, <1>7, PostOK, HandlesTwice DEF Handles
<1>9. Handles(Rest, s', incoming, outgoing)
  <2>1. CASE Argument = "order"
    BY <2>1, <1>2, <1>5, <1>6, RecoverPersistedOrderOK DEF HandleContinueStartupRecovery
  <2>2. CASE Argument = "creation"
    BY <2>2, <1>5, <1>6, <1>8 DEF HandleContinueStartupRecovery
  <2>3. CASE Argument = "none"
    <3>1. s' = [Rest EXCEPT !.recovering = FALSE]
      BY <2>3 DEF HandleContinueStartupRecovery
    <3> QED
      BY <1>2, <3>1 DEF SoundHub, HubOK, Handles, Handled
  <2> QED
    BY <1>3, <2>1, <2>2, <2>3
<1> QED
  BY ZenonT(30), <1>1, <1>9, MailboxStep DEF HandleContinueStartupRecovery

-----------------------------------------------------------------------------
(* The end of a creation. *)

(* Jobs and actions for the order as it is. *)
LEMMA StartsOrderOK ==
    ASSUME NEW a, NEW st, NEW in, NEW out, SoundHub(a, in, out), Handles(a, st, in, out),
           NEW actions \in Seq(Actions)
    PROVE  Handles(a, Ended(AppendActions(ScheduleJobOnEntering(st), actions)), in, out)
<1> DEFINE b == ScheduleJobOnEntering(st)
           c == AppendActions(b, actions)
<1>1. Handles(a, b, in, out)
  BY ScheduleJobOK, HandlesTwice DEF Handles
<1>2. Handles(a, c, in, out)
  BY <1>1, AppendActionsOK, HandlesTwice DEF Handles
<1> HIDE DEF c
<1>3. Handles(a, Ended(c), in, out)
  BY <1>2 DEF Ended, SoundHub, HubOK, Handles, Handled
<1> QED
  BY <1>3 DEF c

(* The worker is gone; a retry may be pending, and nothing is held back. *)
LEMMA EndedOK ==
    ASSUME NEW a, NEW st, NEW in, NEW out, Handles(a, st, in, out)
    PROVE  /\ Handles(a, Ended(st), in, out)
           /\ Handles(a, [st EXCEPT !.deferred = "None"], in, out)
           /\ \A p \in BOOLEAN : Handles(a, [st EXCEPT !.pending = p], in, out)
  BY DEF Ended, SoundHub, HubOK, SoundDeferred, Handles, Handled

(* The end of a resumed creation keeps the invariant. *)
LEMMA HandleResumeCompletedOK ==
    ASSUME Inv, HandleResumeCompleted
    PROVE  Inv' /\ OrderStep
<1> DEFINE r == ReconcileDeferred(Rest)
<1>1. s.mailbox # <<>>
  BY DEF HandleResumeCompleted, Receive
<1>2. SoundHub(Rest, incoming, outgoing)
  BY <1>1, RestOK DEF Handles
<1>3. Handles(Rest, Rest, incoming, outgoing)
  BY <1>2 DEF Handles, Handled
<1>4. CASE Argument = "New"
  <2>1. Handles(Rest, r, incoming, outgoing)
    BY <1>2, ReconcileDeferredOK
  <2>2. OnStarting(r.order) \in Seq(Actions)
    BY <2>1, ActionsOfStatus DEF Handles, SoundHub, HubOK, SoundOrders
  <2>3. s' = Ended(AppendActions(ScheduleJobOnEntering(r), OnStarting(r.order)))
    BY <1>4 DEF HandleResumeCompleted, Retryable
  <2>4. Handles(Rest, s', incoming, outgoing)
    BY <1>2, <2>1, <2>2, <2>3, StartsOrderOK
  <2> QED
    BY <1>1, <2>4, MailboxStep DEF HandleResumeCompleted
<1>5. CASE Argument # "New"
  <2>1. Handles(Rest, ScheduleCreationRetry(Rest), incoming, outgoing)
    BY <1>2, ScheduleCreationRetryOK
  <2>2. Handles(Rest, [Rest EXCEPT !.deferred = "None"], incoming, outgoing)
    BY <1>3, EndedOK
  <2>3. CASE Retryable(Argument)
    <3>1. s' = Ended(ScheduleCreationRetry(Rest))
      BY <1>5, <2>3 DEF HandleResumeCompleted
    <3>2. Handles(Rest, Ended(ScheduleCreationRetry(Rest)), incoming, outgoing)
      BY ZenonT(30), <2>1, EndedOK
    <3> QED
      BY <1>1, <3>1, <3>2, MailboxStep DEF HandleResumeCompleted
  <2>4. CASE ~Retryable(Argument)
    <3>1. s' = Ended([Rest EXCEPT !.deferred = "None"])
      BY <1>5, <2>4 DEF HandleResumeCompleted
    <3> QED
      BY <1>1, <2>2, <3>1, EndedOK, MailboxStep DEF HandleResumeCompleted
  <2> QED
    BY <2>3, <2>4
<1> QED
  BY <1>4, <1>5

(* The end of a requested creation keeps the invariant. *)
LEMMA HandleCompletedOK ==
    ASSUME Inv, HandleCompleted
    PROVE  Inv' /\ OrderStep
<1> DEFINE r == ReconcileDeferred(Rest)
           st == [Rest EXCEPT !.pending = Rest.pending /\ kind = "ReceiveBTC"]
           done == [r EXCEPT !.pending = r.pending /\ kind = "ReceiveBTC" /\ Argument = "Existing"]
<1>1. s.mailbox # <<>>
  BY DEF HandleCompleted, Receive
<1>2. SoundHub(Rest, incoming, outgoing)
  BY <1>1, RestOK DEF Handles
<1>3. Handles(Rest, Rest, incoming, outgoing)
  BY <1>2 DEF Handles, Handled
<1>4. Handles(Rest, st, incoming, outgoing)
  BY Zenon, <1>3, EndedOK
<1>5. Handles(Rest, r, incoming, outgoing)
  BY <1>2, ReconcileDeferredOK
<1>6. Handles(Rest, done, incoming, outgoing)
  BY ZenonT(30), <1>5, EndedOK
<1>7. OnStarting(done.order) \in Seq(Actions) /\ OnEntering(done.order) \in Seq(Actions)
  BY <1>6, ActionsOfStatus DEF Handles, SoundHub, HubOK, SoundOrders
<1>8. s' \in {Ended(AppendActions(ScheduleJobOnEntering(done), OnStarting(done.order))),
              Ended(AppendActions(ScheduleJobOnEntering(done), OnEntering(done.order))),
              Ended(done), Ended(ScheduleCreationRetry(st)), Ended([st EXCEPT !.deferred = "None"])}
  <2>1. CASE Argument = "New"
    <3>1. s' = Ended(AppendActions(ScheduleJobOnEntering(done), OnStarting(done.order)))
      BY <2>1 DEF HandleCompleted, Retryable
    <3> QED
      BY <3>1
  <2>2. CASE Argument = "Existing" /\ r.order.status # Rest.order.status
    <3>1. s' = Ended(AppendActions(ScheduleJobOnEntering(done), OnEntering(done.order)))
      BY <2>2 DEF HandleCompleted, Retryable
    <3> QED
      BY <3>1
  <2>3. CASE Argument = "Existing" /\ ~(r.order.status # Rest.order.status)
    <3>1. s' = Ended(done)
      BY <2>3 DEF HandleCompleted, Retryable
    <3> QED
      BY <3>1
  <2>4. CASE Argument \notin {"New", "Existing"} /\ Retryable(Argument) /\ s.intent
    <3>1. s' = Ended(ScheduleCreationRetry(st))
      BY <2>4 DEF HandleCompleted
    <3> QED
      BY <3>1
  <2>5. CASE Argument \notin {"New", "Existing"} /\ ~(Retryable(Argument) /\ s.intent)
    <3>1. s' = Ended([st EXCEPT !.deferred = "None"])
      BY <2>5 DEF HandleCompleted
    <3> QED
      BY <3>1
  <2> QED
    BY <2>1, <2>2, <2>3, <2>4, <2>5
<1> HIDE DEF r, st, done
<1>9. /\ Handles(Rest, Ended(AppendActions(ScheduleJobOnEntering(done), OnStarting(done.order))), incoming, outgoing)
      /\ Handles(Rest, Ended(AppendActions(ScheduleJobOnEntering(done), OnEntering(done.order))), incoming, outgoing)
  BY <1>2, <1>6, <1>7, StartsOrderOK
<1>10. Handles(Rest, Ended(done), incoming, outgoing)
  BY ZenonT(30), <1>6, EndedOK
<1>11. Handles(Rest, ScheduleCreationRetry(st), incoming, outgoing)
  BY <1>2, <1>4, ScheduleCreationRetryOK, HandlesTwice DEF Handles
<1>12. Handles(Rest, [st EXCEPT !.deferred = "None"], incoming, outgoing)
  BY <1>4, EndedOK
<1>13. Handles(Rest, Ended(ScheduleCreationRetry(st)), incoming, outgoing)
  BY Zenon, <1>11, EndedOK
<1>14. Handles(Rest, Ended([st EXCEPT !.deferred = "None"]), incoming, outgoing)
  BY <1>12, EndedOK
<1>15. Handles(Rest, s', incoming, outgoing)
  BY <1>8, <1>9, <1>10, <1>13, <1>14
<1> QED
  BY <1>1, <1>15, MailboxStep DEF HandleCompleted

-----------------------------------------------------------------------------
(* Executing actions, and the steps of the two legs. *)

\* A leg only moves on, and the payer is charged after the payout.
LegsMove ==
    /\ incoming' \in IncomingStates /\ outgoing' \in OutgoingStates
    /\ incoming = "Paid" => incoming' = "Paid"
    /\ incoming = "Absent" => incoming' = "Absent"
    /\ outgoing = "Success" => outgoing' = "Success"
    /\ incoming' \in {"Settling", "Paid"} => outgoing' = "Success"
    /\ incoming' \in {"Settling", "Lapsed"} => kind = "SendBTC"
    /\ incoming' \in {"Open", "Received"} => incoming \in {"Open", "Received"}

(* The message at hand and the hub, seen from the legs after the step. *)
LEMMA MovedHub ==
    ASSUME Inv, LegsMove
    PROVE  /\ SoundHub(s, incoming', outgoing')
           /\ s.mailbox # <<>> => /\ SoundHub(Rest, incoming', outgoing')
                                 /\ Handles(s, Rest, incoming', outgoing')
  BY RestOK, LegsMoveOn DEF Inv, LegsMove, Handles

(* The legs that stay as they are also move on. *)
LEMMA LegsStay ==
    ASSUME Inv, UNCHANGED <<incoming, outgoing>>
    PROVE  LegsMove
  BY DEF Inv, TypeOK, LegsMove, ChargedOnlyAfterPayout, LapsesOnFiber

(* Messages the hub may always be sent. *)
LEMMA HarmlessMessages ==
    ASSUME NEW in, NEW out
    PROVE  /\ << <<"Payment", "Failed">> >> \in Seq(SoundMessages(in, out))
           /\ << <<"Payment", "Inflight">> >> \in Seq(SoundMessages(in, out))
           /\ << <<"Payment", "Created">> >> \in Seq(SoundMessages(in, out))
           /\ << <<"Invoice", "Cancelled">> >> \in Seq(SoundMessages(in, out))
           /\ << <<"Invoice", "Received">> >> \in Seq(SoundMessages(in, out))
           /\ << <<"ActionRetry", "SendOutgoingPayment">> >> \in Seq(SoundMessages(in, out))
           /\ << <<"ActionRetry", "TrackOutgoingPayment">> >> \in Seq(SoundMessages(in, out))
           /\ << <<"Reconcile", "payments">> >> \in Seq(SoundMessages(in, out))
           /\ << <<"Expire", "order">> >> \in Seq(SoundMessages(in, out))
           /\ \A m \in TimerMessages : <<m>> \in Seq(SoundMessages(in, out))
  BY OneMessage DEF SoundMessages, Messages, PaymentStatuses, InvoiceStatuses, TimerMessages

(* The actor's steps on the message at hand, whatever the legs do. *)
LEMMA ActorStep ==
    ASSUME Inv, LegsMove, s.mailbox # <<>>,
           \/ s' = Rest
           \/ \E ms \in Seq(SoundMessages(incoming', outgoing')) : s' = Post(Rest, ms)
           \/ \E m \in TimerMessages : s' = SendAfter(Rest, m)
           \/ s' = StartTracking(Rest),
           UNCHANGED <<scope, passed, subscribed>>, calls' \in Seq(CallNames), used' \in Bounds
    PROVE  Inv' /\ OrderStep
<1>1. SoundHub(s, incoming', outgoing') /\ SoundHub(Rest, incoming', outgoing')
      /\ Handles(s, Rest, incoming', outgoing')
  BY MovedHub
<1>2. Handles(Rest, Rest, incoming', outgoing')
  BY <1>1 DEF Handles, Handled
<1>3. Handles(Rest, s', incoming', outgoing')
  BY SMTT(30), <1>1, <1>2, PostOK, SendAfterOK, ScheduleJobOK
<1>4. Handles(s, s', incoming', outgoing')
  BY <1>1, <1>3, HandlesTwice
<1>5. passed \subseteq scope.deadlines /\ subscribed \in BOOLEAN
  BY DEF Inv, TypeOK
<1> QED
  BY <1>4, <1>5, HandlingStep DEF LegsMove

(* The counters and the calls keep their types. *)
LEMMA FramesTyped ==
    ASSUME Inv
    PROVE  /\ calls \in Seq(CallNames) /\ used \in Bounds
           /\ Error => used' \in Bounds
           /\ NoError => used' \in Bounds
           /\ \A c \in CallNames : Append(calls, c) \in Seq(CallNames)
           /\ calls # <<>> => Tail(calls) \in Seq(CallNames)
  BY AppendProperties, HeadTailProperties DEF Inv, TypeOK, CallNames, Bounds, Error, NoError

(* The retries that executors ask for are timer messages. *)
LEMMA RetryMessages ==
    /\ <<"Execute", "SendOutgoingPayment">> \in TimerMessages
    /\ <<"Execute", "SettleIncomingInvoice">> \in TimerMessages
    /\ <<"Execute", "CancelIncomingInvoice">> \in TimerMessages
  BY DEF TimerMessages

(* An action the order no longer wants keeps the invariant. *)
LEMMA SkipActionOK ==
    ASSUME Inv, SkipAction
    PROVE  Inv' /\ OrderStep
<1>1. /\ s.mailbox # <<>> /\ s' = Rest
      /\ UNCHANGED <<scope, incoming, outgoing, calls, passed, subscribed, used>>
  BY DEF SkipAction, ExecuteNothing, Executes, Receive
<1> QED
  BY SMTT(30), <1>1, LegsStay, FramesTyped, ActorStep

(* SendOutgoingPayment, on Fiber, on LND or too late, keeps the invariant. *)
LEMMA SendOutgoingPaymentOK ==
    ASSUME Inv, SendTooLate \/ SendFiberPayment \/ SendLightningPayment
    PROVE  Inv' /\ OrderStep
<1>1. s.mailbox # <<>>
  BY DEF SendTooLate, SendFiberPayment, SendLightningPayment, SendGuard, Executes, Receive
<1>2. CASE SendTooLate
  <2>1. LegsMove
    BY <1>2, LegsStay DEF SendTooLate
  <2> QED
    BY ZenonT(30), <1>1, <1>2, <2>1, HarmlessMessages, FramesTyped, ActorStep DEF SendTooLate
<1>3. CASE SendFiberPayment
  <2>1. LegsMove
    BY <1>3, LegsStay DEF SendFiberPayment
  <2>2. calls' \in Seq(CallNames)
    BY <1>3, FramesTyped DEF SendFiberPayment, CallNames
  <2> QED
    BY SMTT(30), <1>1, <1>3, <2>1, <2>2, FramesTyped, ActorStep DEF SendFiberPayment
<1>4. CASE SendLightningPayment
  <2>1. LegsMove
    BY <1>4 DEF SendLightningPayment, LegsMove, Inv, TypeOK, OutgoingStates, PaymentStatuses,
                ChargedOnlyAfterPayout, LapsesOnFiber
  <2>2. \/ \E ms \in Seq(SoundMessages(incoming', outgoing')) : s' = Post(Rest, ms)
        \/ \E m \in TimerMessages : s' = SendAfter(Rest, m)
    BY <1>4, HarmlessMessages, RetryMessages DEF SendLightningPayment, KnownPayment, Retry
  <2>3. used' \in Bounds
    BY <1>4, FramesTyped DEF SendLightningPayment
  <2> QED
    BY SMTT(30), <1>1, <1>4, <2>1, <2>2, <2>3, FramesTyped, ActorStep DEF SendLightningPayment
<1> QED
  BY <1>2, <1>3, <1>4

(* The two tracking actions keep the invariant. *)
LEMMA TrackOK ==
    ASSUME Inv, TrackOutgoingPayment \/ TrackIncomingInvoice
    PROVE  Inv' /\ OrderStep
<1>1. /\ s.mailbox # <<>> /\ s' \in {Rest, StartTracking(Rest)}
      /\ UNCHANGED <<scope, incoming, outgoing, passed, subscribed, used>>
  BY DEF TrackOutgoingPayment, TrackIncomingInvoice, Executes, Receive
<1>2. calls' \in Seq(CallNames)
  BY FramesTyped DEF TrackOutgoingPayment, TrackIncomingInvoice, CallNames
<1> QED
  BY SMTT(30), <1>1, <1>2, LegsStay, FramesTyped, ActorStep

(* Only the preimage of a completed payout settles the incoming invoice. *)
LEMMA SettleOK ==
    ASSUME Inv, SettleFiberInvoice \/ SettleLightningInvoice
    PROVE  Inv' /\ OrderStep
<1>1. s.mailbox # <<>> /\ s.order.preimage
  BY DEF SettleFiberInvoice, SettleLightningInvoice, SettleGuard, Executes, Receive
<1>2. outgoing = "Success"
  BY <1>1 DEF Inv, SoundHub, HubOK, SoundOrders
<1>3. LegsMove
  BY <1>2 DEF SettleFiberInvoice, SettleLightningInvoice, LegsMove, Inv, TypeOK,
              IncomingStates, InvoiceStatuses, LapsesOnFiber
<1>4. used' \in Bounds
  BY FramesTyped DEF SettleFiberInvoice, SettleLightningInvoice
<1>5. SettleAnswer \in Seq(SoundMessages(incoming', outgoing'))
  <2>1. incoming = "Paid" => << <<"Invoice", "Paid">> >> \in Seq(SoundMessages(incoming', outgoing'))
    BY <1>3, OneMessage DEF LegsMove, SoundMessages, Messages, InvoiceStatuses
  <2> QED
    BY <2>1, HarmlessMessages DEF SettleAnswer
<1>6. \/ s' = Rest
      \/ \E ms \in Seq(SoundMessages(incoming', outgoing')) : s' = Post(Rest, ms)
      \/ \E m \in TimerMessages : s' = SendAfter(Rest, m)
  BY <1>5, RetryMessages DEF SettleFiberInvoice, SettleLightningInvoice, Retry
<1> QED
  BY <1>1, <1>3, <1>4, <1>6, FramesTyped, ActorStep DEF SettleFiberInvoice, SettleLightningInvoice

(* CancelIncomingInvoice keeps the invariant. *)
LEMMA CancelOK ==
    ASSUME Inv, CancelFiberInvoice \/ CancelLightningInvoice
    PROVE  Inv' /\ OrderStep
<1>1. s.mailbox # <<>>
  BY DEF CancelFiberInvoice, CancelLightningInvoice, CancelGuard, Executes, Receive
<1>2. LegsMove
  BY DEF CancelFiberInvoice, CancelLightningInvoice, LegsMove, Inv, TypeOK,
         IncomingStates, InvoiceStatuses, ChargedOnlyAfterPayout, LapsesOnFiber
<1>3. used' \in Bounds
  BY FramesTyped DEF CancelFiberInvoice, CancelLightningInvoice
<1>4. \/ s' = Rest
      \/ \E ms \in Seq(SoundMessages(incoming', outgoing')) : s' = Post(Rest, ms)
      \/ \E m \in TimerMessages : s' = SendAfter(Rest, m)
  BY SMTT(30), HarmlessMessages, RetryMessages DEF CancelFiberInvoice, CancelLightningInvoice, Retry, Notify
<1> QED
  BY <1>1, <1>2, <1>3, <1>4, FramesTyped, ActorStep DEF CancelFiberInvoice, CancelLightningInvoice

(* The steps of the two nodes, the payer and the subscription: at most a   *)
(* message reaches the hub.                                                *)
LEMMA OutsideStep ==
    ASSUME Inv, LegsMove,
           \/ s' = s
           \/ \E ms \in Seq(SoundMessages(incoming', outgoing')) : s' = Post(s, ms)
           \/ \E n, m \in Seq(SoundMessages(incoming', outgoing')) : s' = Post(Post(s, n), m),
           scope' = scope, calls' \in Seq(CallNames), used' \in Bounds,
           passed \subseteq passed', passed' \subseteq scope.deadlines, subscribed' \in BOOLEAN
    PROVE  Inv' /\ OrderStep
<1>1. SoundHub(s, incoming', outgoing')
  BY MovedHub
<1>2. Handles(s, s, incoming', outgoing')
  BY <1>1 DEF Handles, Handled
<1>3. \A st : \A ms \in Seq(SoundMessages(incoming', outgoing')) :
         Handles(s, st, incoming', outgoing') => Handles(s, Post(st, ms), incoming', outgoing')
  BY SMTT(30), <1>1, PostOK, HandlesTwice DEF Handles
<1>4. Handles(s, s', incoming', outgoing')
  BY <1>2, <1>3
<1> QED
  BY <1>4, HandlingStep DEF LegsMove

(* The answers of the Fiber node to forwarded calls keep the invariant. *)
LEMMA FiberCallOK ==
    ASSUME Inv, FiberCall
    PROVE  Inv' /\ OrderStep
<1>1. /\ scope' = scope /\ passed' = passed /\ subscribed' = subscribed
      /\ passed \subseteq scope.deadlines /\ subscribed \in BOOLEAN
  BY DEF FiberCall, FiberSendsPayment, FiberGetsPayment, Inv, TypeOK
<1>2. calls' \in Seq(CallNames) /\ used' \in Bounds
  BY ZenonT(30), FramesTyped DEF FiberCall, FiberSendsPayment, FiberGetsPayment
<1>3. CASE FiberSendsPayment
  <2>1. LegsMove
    BY <1>3 DEF FiberSendsPayment, LegsMove, Inv, TypeOK, OutgoingStates, PaymentStatuses,
                ChargedOnlyAfterPayout, LapsesOnFiber
  <2>2. \/ \E ms \in Seq(SoundMessages(incoming', outgoing')) : s' = Post(s, ms)
        \/ \E n, m \in Seq(SoundMessages(incoming', outgoing')) : s' = Post(Post(s, n), m)
    BY <1>3, HarmlessMessages DEF FiberSendsPayment, KnownPayment, Notify
  <2> QED
    BY <1>1, <1>2, <2>1, <2>2, OutsideStep
<1>4. CASE FiberGetsPayment
  <2>1. LegsMove
    BY <1>4, LegsStay DEF FiberGetsPayment
  <2>2. outgoing # "Absent" => <<"Payment", outgoing>> \in SoundMessages(incoming', outgoing')
    BY <2>1 DEF LegsMove, Inv, TypeOK, OutgoingStates, SoundMessages, Messages
  <2>3. \E ms \in Seq(SoundMessages(incoming', outgoing')) : s' = Post(s, ms)
    BY SMTT(30), <1>4, <2>2, OneMessage, HarmlessMessages DEF FiberGetsPayment
  <2> QED
    BY <1>1, <1>2, <2>1, <2>3, OutsideStep
<1> QED
  BY SMTT(30), <1>3, <1>4 DEF FiberCall

(* What the two payments do by themselves keeps the invariant. *)
LEMMA LegOK ==
    ASSUME Inv, PaymentProceeds \/ PayerPays \/ FiberInvoiceIsPaid \/ InvoiceExpires \/ PayerTimesOut
    PROVE  Inv' /\ OrderStep
<1>1. /\ scope' = scope /\ passed' = passed /\ subscribed' = subscribed
      /\ passed \subseteq scope.deadlines /\ subscribed \in BOOLEAN
  BY DEF PaymentProceeds, PayerPays, FiberInvoiceIsPaid, InvoiceExpires, PayerTimesOut, Inv, TypeOK
<1>2. calls' \in Seq(CallNames) /\ used' \in Bounds
  BY FramesTyped DEF PaymentProceeds, PayerPays, FiberInvoiceIsPaid, InvoiceExpires, PayerTimesOut
<1>3. LegsMove
  BY DEF PaymentProceeds, PayerPays, FiberInvoiceIsPaid, InvoiceExpires, PayerTimesOut, LegsMove,
         Inv, TypeOK, ChargedOnlyAfterPayout, IncomingStates, InvoiceStatuses, OutgoingStates,
         PaymentStatuses, LapsesOnFiber, kind
<1>4. PaymentProceeds => <<"Payment", outgoing'>> \in SoundMessages(incoming', outgoing')
  BY <1>3 DEF PaymentProceeds, SoundMessages, Messages, PaymentStatuses
<1>5. FiberInvoiceIsPaid => <<"Invoice", "Paid">> \in SoundMessages(incoming', outgoing')
  BY DEF FiberInvoiceIsPaid, SoundMessages, Messages, InvoiceStatuses
<1>6. s' = s \/ \E ms \in Seq(SoundMessages(incoming', outgoing')) : s' = Post(s, ms)
  BY <1>4, <1>5, OneMessage, HarmlessMessages
     DEF PaymentProceeds, PayerPays, FiberInvoiceIsPaid, InvoiceExpires, PayerTimesOut, Notify
<1> QED
  BY <1>1, <1>2, <1>3, <1>6, OutsideStep

-----------------------------------------------------------------------------
(* Trackers, subscription, time, requests. *)

(* What the LND tracker reports, and its broken streams, keep the invariant. *)
LEMMA LndTrackerOK ==
    ASSUME Inv, LndTrackerReports \/ LndStreamBreaks
    PROVE  Inv' /\ OrderStep
<1>1. /\ UNCHANGED <<scope, incoming, outgoing, calls, passed, subscribed>>
      /\ calls' \in Seq(CallNames) /\ used' \in Bounds
  BY FramesTyped DEF LndTrackerReports, LndStreamBreaks
<1>2. CASE LndStreamBreaks
  <2>1. Handles(s, s', incoming, outgoing)
    BY <1>2 DEF LndStreamBreaks, Inv, SoundHub, HubOK, Handles, Handled
  <2> QED
    BY <1>1, <2>1, HubStep
<1>3. CASE LndTrackerReports
  <2> DEFINE m == <<IF kind = "SendBTC" THEN "Payment" ELSE "Invoice", Streamed>>
             st == Post(s, <<m>>)
  <2>1. m \in SoundMessages(incoming, outgoing)
    <3>1. kind = "SendBTC" => <<"Payment", outgoing>> \in SoundMessages(incoming, outgoing)
      BY <1>3 DEF LndTrackerReports, Streamed, SoundMessages, Messages, Inv, TypeOK, OutgoingStates
    <3>2. kind # "SendBTC" => <<"Invoice", incoming>> \in SoundMessages(incoming, outgoing)
      BY <1>3 DEF LndTrackerReports, Streamed, SoundMessages, Messages, Inv, TypeOK, IncomingStates,
                  LapsesOnFiber
    <3> QED
      BY <3>1, <3>2 DEF Streamed
  <2>2. SoundHub(s, incoming, outgoing) /\ <<m>> \in Seq(SoundMessages(incoming, outgoing))
    BY <2>1, OneMessage DEF Inv
  <2>3. Handles(s, st, incoming, outgoing)
    BY <2>2, PostOK
  <2> HIDE DEF st
  <2>4. Handles(s, StopTracking(st), incoming, outgoing)
    BY ZenonT(30), <2>2, <2>3, ScheduleJobOK, HandlesTwice DEF Handles
  <2>5. Streamed \in IncomingStates \cup OutgoingStates
    BY DEF Streamed, Inv, TypeOK
  <2>6. Handles(s, [st EXCEPT !.seen = Streamed], incoming, outgoing)
    BY <2>3, <2>5 DEF SoundHub, HubOK, Handles, Handled
  <2>7. s' \in {StopTracking(st), [st EXCEPT !.seen = Streamed]}
    BY <1>3 DEF LndTrackerReports, st
  <2> QED
    BY <1>1, <2>4, <2>6, <2>7, HubStep
<1> QED
  BY <1>2, <1>3

(* Losing and renewing the subscription keeps the invariant. *)
LEMMA SubscriptionOK ==
    ASSUME Inv, SubscriptionBreaks \/ Resubscribe
    PROVE  Inv' /\ OrderStep
<1>1. /\ UNCHANGED <<scope, incoming, outgoing, calls, passed>> /\ subscribed' \in BOOLEAN
      /\ passed \subseteq scope.deadlines
  BY ZenonT(30) DEF SubscriptionBreaks, Resubscribe, Inv, TypeOK
<1>2. used' \in Bounds
  BY FramesTyped DEF SubscriptionBreaks, Resubscribe, Bounds
<1>3. s' = s \/ \E ms \in Seq(SoundMessages(incoming', outgoing')) : s' = Post(s, ms)
  BY HarmlessMessages DEF SubscriptionBreaks, Resubscribe
<1> QED
  BY <1>1, <1>2, <1>3, FramesTyped, LegsStay, OutsideStep

(* A deadline that passes keeps the invariant. *)
LEMMA DeadlinePassesOK ==
    ASSUME Inv, NEW d \in scope.deadlines, DeadlinePasses(d)
    PROVE  Inv' /\ OrderStep
<1>1. /\ s' = s /\ UNCHANGED <<scope, incoming, outgoing, calls, used>>
      /\ subscribed' \in BOOLEAN /\ passed \subseteq passed' /\ passed' \subseteq scope.deadlines
  BY DEF DeadlinePasses, Inv, TypeOK
<1> QED
  BY <1>1, FramesTyped, LegsStay, OutsideStep

(* A request of the client keeps the invariant. *)
LEMMA RequestOK ==
    ASSUME Inv, Request
    PROVE  Inv' /\ OrderStep
<1>1. /\ UNCHANGED <<scope, incoming, outgoing, calls, passed, subscribed>>
      /\ subscribed \in BOOLEAN /\ passed \subseteq scope.deadlines
  BY DEF Request, Inv, TypeOK
<1>2. used' \in Bounds
  BY FramesTyped DEF Request, Bounds
<1>3. kind \in {"SendBTC", "ReceiveBTC"}
  BY ScopesAssumption DEF Inv, TypeOK, kind
<1>4. << <<"Request", kind>> >> \in Seq(SoundMessages(incoming', outgoing'))
  BY <1>3, OneMessage DEF SoundMessages, Messages
<1> QED
  BY Zenon, <1>1, <1>2, <1>4, FramesTyped, LegsStay, OutsideStep DEF Request

(* A timer that fires keeps the invariant. *)
LEMMA TimerFiresOK ==
    ASSUME Inv, NEW m \in TimerMessages, TimerFires(m)
    PROVE  Inv' /\ OrderStep
<1> DEFINE timers == s.timers (-) SetToBag({m})
           st == [s EXCEPT !.timers = timers]
<1>1. BagToSet(timers) \subseteq TimerMessages
  BY DEF Inv, SoundHub, HubOK, BagToSet, (-)
<1> HIDE DEF timers
<1>2. SoundHub(s, incoming, outgoing) /\ Handles(s, st, incoming, outgoing)
  BY <1>1 DEF Inv, SoundHub, HubOK, Handles, Handled
<1>3. Handles(st, Post(st, <<m>>), incoming, outgoing)
  BY <1>2, HarmlessMessages, PostOK DEF Handles
<1>4. s' = Post(st, <<m>>)
  BY DEF TimerFires, timers
<1>5. Handles(s, s', incoming, outgoing)
  BY SMTT(30), <1>2, <1>3, <1>4, HandlesTwice
<1> QED
  BY SMTT(30), <1>5, FramesTyped, HubStep DEF TimerFires

(* The jobs of the scheduler keep the invariant; pruning forgets a final order. *)
LEMMA JobsOK ==
    ASSUME Inv, Jobs
    PROVE  Inv' /\ OrderStep
<1>1. CASE ExpireJob
  <2> DEFINE st == [s EXCEPT !.jobs = @ \ {"Expire"}]
  <2>1. SoundHub(s, incoming, outgoing) /\ Handles(s, st, incoming, outgoing)
    BY DEF Inv, SoundHub, HubOK, Handles, Handled
  <2>2. Handles(st, Post(st, << <<"Expire", "order">> >>), incoming, outgoing)
    BY <2>1, HarmlessMessages, PostOK DEF Handles
  <2>3. Handles(s, s', incoming, outgoing)
    BY SMTT(30), <1>1, <2>1, <2>2, HandlesTwice DEF ExpireJob
  <2> QED
    BY SMTT(30), <1>1, <2>3, FramesTyped, HubStep DEF ExpireJob
<1>2. CASE PruneJob /\ ~IsFinal(s.order)
  <2>1. Handles(s, s', incoming, outgoing)
    BY <1>2 DEF PruneJob, Inv, SoundHub, HubOK, Handles, Handled
  <2> QED
    BY SMTT(30), <1>2, <2>1, FramesTyped, HubStep DEF PruneJob
<1>3. CASE PruneJob /\ IsFinal(s.order)
  <2>1. NoOrder \in SoundOrders(incoming, outgoing)
    BY DEF NoOrder, SoundOrders, Orders, OrderStatuses
  <2>2. /\ SoundHub(s', incoming, outgoing) /\ s'.order = NoOrder
        /\ s'.worker = s.worker
        /\ UNCHANGED <<scope, incoming, outgoing, calls, passed, subscribed, used>>
    BY <1>3, <2>1 DEF PruneJob, StopTracking, Inv, SoundHub, HubOK
  <2>3. CreationOK(s')
    BY <1>3, <2>2 DEF Inv, CreationOK, IsFinal, FinalStatuses
  <2>4. "Prune" \in passed
    BY <1>3 DEF PruneJob
  <2>5. TypeOK'
    BY ZenonT(30), <2>2, SoundHubIsTyped DEF Inv, TypeOK
  <2> QED
    BY <1>3, <2>2, <2>3, <2>4, <2>5
       DEF Inv, OrderStep, ChargedOnlyAfterPayout, InvoiceIsOnRecord, LapsesOnFiber, AddsOnce, kind
<1> QED
  BY SMTT(30), <1>1, <1>2, <1>3 DEF Jobs

-----------------------------------------------------------------------------
(* Start, crash and the creation of the order. *)

(* The hub that starts on sound records is sound. *)
LEMMA StartedOK ==
    ASSUME NEW in, NEW out, NEW o \in SoundOrders(in, out), NEW i \in BOOLEAN
    PROVE  SoundHub(Started(o, i), in, out)
<1> DEFINE m == <<"Continue", IF o.status # "None" THEN "order" ELSE IF i THEN "creation" ELSE "none">>
           mailbox == IF scope.cuts > 0 THEN << <<"Reconcile", "payments">> >> ELSE <<>>
           timers == SetToBag({m})
<1>1. m \in TimerMessages
  BY DEF TimerMessages
<1>2. BagToSet(timers) \subseteq TimerMessages
  BY <1>1 DEF BagToSet, SetToBag
<1>3. mailbox \in Seq(SoundMessages(in, out))
  BY HarmlessMessages
<1>4. Idle \in Workers
  BY DEF Idle, Workers
<1> HIDE DEF timers, mailbox
<1>5. Started(o, i) = [order |-> o, intent |-> i, mailbox |-> mailbox, timers |-> timers,
                       worker |-> Idle, active |-> FALSE, pending |-> FALSE, deferred |-> "None",
                       tracker |-> "None", seen |-> "None", jobs |-> {}, recovering |-> TRUE]
  BY DEF Started, timers, mailbox
<1>6. "None" \in SoundDeferred(in)
  BY DEF SoundDeferred
<1> QED
  BY <1>2, <1>3, <1>4, <1>5, <1>6 DEF SoundHub, HubOK

(* The hub starts with the stored records and no creation under way. *)
LEMMA StartedFields ==
    ASSUME NEW o, NEW i
    PROVE  /\ Started(o, i).order = o /\ Started(o, i).intent = i
           /\ Started(o, i).worker.pc = "Idle"
  BY DEF Started, Idle

(* What a step of the creation, or a crash, has to show. *)
LEMMA CreationStep ==
    ASSUME Inv, SoundHub(s', incoming', outgoing), CreationOK(s'), OrderStep,
           UNCHANGED <<scope, outgoing, passed>>, incoming' \in IncomingStates,
           incoming' \in {incoming, "Open"},
           s'.worker.pc = "Add" => incoming' = "Absent",
           incoming' \in {"Open", "Received"} => s'.intent \/ s'.order.status # "None" \/ "Prune" \in passed,
           calls' \in Seq(CallNames), subscribed' \in BOOLEAN, used' \in Bounds
    PROVE  Inv' /\ OrderStep
<1>1. TypeOK'
  BY ZenonT(30), SoundHubIsTyped DEF TypeOK, Inv, CallNames, Bounds
<1>2. ChargedOnlyAfterPayout' /\ InvoiceIsOnRecord' /\ LapsesOnFiber' /\ AddsOnce'
  BY DEF Inv, ChargedOnlyAfterPayout, InvoiceIsOnRecord, LapsesOnFiber, AddsOnce, kind
<1> QED
  BY <1>1, <1>2 DEF Inv

(* A crash and the restart on the stored records keep the invariant. *)
LEMMA CrashOK ==
    ASSUME Inv, Crash
    PROVE  Inv' /\ OrderStep
<1>1. s.order \in SoundOrders(incoming, outgoing) /\ s.intent \in BOOLEAN
  BY DEF Inv, SoundHub, HubOK
<1>2. /\ SoundHub(s', incoming, outgoing) /\ s'.order = s.order /\ s'.intent = s.intent
      /\ s'.worker.pc = "Idle"
  BY <1>1, StartedOK, StartedFields DEF Crash
<1>3. CreationOK(s') /\ OrderStep
  BY <1>2 DEF CreationOK, OrderStep
<1>4. /\ UNCHANGED <<scope, incoming, outgoing, passed>> /\ subscribed' \in BOOLEAN
      /\ calls' \in Seq(CallNames) /\ incoming \in IncomingStates
  BY DEF Crash, Inv, TypeOK
<1>5. used' \in Bounds
  BY FramesTyped DEF Crash, Bounds
<1>6. incoming \in {"Open", "Received"} => s'.intent \/ s'.order.status # "None" \/ "Prune" \in passed
  BY <1>2 DEF Inv, InvoiceIsOnRecord
<1> QED
  BY <1>2, <1>3, <1>4, <1>5, <1>6, CreationStep

(* The invariant holds initially. *)
LEMMA InitOK ==
    ASSUME Init
    PROVE  Inv
<1>1. NoOrder \in SoundOrders("Absent", "Absent")
  BY DEF NoOrder, SoundOrders, Orders, OrderStatuses
<1>2. /\ SoundHub(s, incoming, outgoing) /\ s.worker.pc = "Idle"
  BY ZenonT(30), <1>1, StartedOK, StartedFields DEF Init
<1>3. HubOK(s, Orders, Messages, {"None"} \cup InvoiceStatuses)
  BY <1>2, SoundHubIsTyped
<1>4. /\ scope \in Scopes /\ incoming \in IncomingStates /\ outgoing \in OutgoingStates
      /\ passed \subseteq scope.deadlines /\ subscribed \in BOOLEAN
      /\ calls \in Seq({"SendPayment", "GetPayment"})
      /\ used \in [requests : Nat, crashes : Nat, errors : Nat, cuts : Nat]
  BY DEF Init, IncomingStates, OutgoingStates
<1>5. TypeOK
  BY <1>3, <1>4 DEF TypeOK
<1> QED
  BY Zenon, <1>2, <1>5
     DEF Init, Inv, CreationOK, ChargedOnlyAfterPayout, InvoiceIsOnRecord, LapsesOnFiber, AddsOnce

(* The worker ends with a result for the actor. *)
LEMMA FinishOK ==
    ASSUME NEW st, NEW in, NEW out, SoundHub(st, in, out), NEW result \in Results
    PROVE  /\ SoundHub(Finish(st, result), in, out) /\ SoundHub(Fail(st, result), in, out)
           /\ Finish(st, result).order = st.order /\ Finish(st, result).intent = st.intent
           /\ Fail(st, result).order = st.order /\ Fail(st, result).intent = st.intent
           /\ Finish(st, result).worker.pc = "Idle" /\ Fail(st, result).worker.pc = "Idle"
<1>1. \A x : SoundHub(x, in, out) =>
            /\ SoundHub(Finish(x, result), in, out)
            /\ Finish(x, result).order = x.order /\ Finish(x, result).intent = x.intent
            /\ Finish(x, result).worker.pc = "Idle"
  <2> SUFFICES ASSUME NEW x, SoundHub(x, in, out)
               PROVE  /\ SoundHub(Finish(x, result), in, out)
                      /\ Finish(x, result).order = x.order /\ Finish(x, result).intent = x.intent
                      /\ Finish(x, result).worker.pc = "Idle"
    OBVIOUS
  <2> DEFINE m == <<IF x.worker.from = "Request" THEN "Completed" ELSE "ResumeCompleted", result>>
             idle == [x EXCEPT !.worker = [x.worker EXCEPT !.pc = "Idle", !.status = "None"]]
             front == [idle EXCEPT !.mailbox = <<m>> \o idle.mailbox]
  <2>1. <<m>> \in Seq(SoundMessages(in, out))
    BY OneMessage DEF SoundMessages, Messages
  <2> HIDE DEF m
  <2>2. [x.worker EXCEPT !.pc = "Idle", !.status = "None"] \in Workers
    BY Zenon DEF SoundHub, HubOK, Workers
  <2>3. /\ SoundHub(idle, in, out) /\ idle.order = x.order /\ idle.intent = x.intent
        /\ idle.worker.pc = "Idle"
    BY ZenonT(30), <2>2 DEF SoundHub, HubOK, Workers
  <2> HIDE DEF idle
  <2>4. /\ SoundHub(Post(idle, <<m>>), in, out) /\ Post(idle, <<m>>).order = x.order
        /\ Post(idle, <<m>>).intent = x.intent /\ Post(idle, <<m>>).worker.pc = "Idle"
    <3>1. Handles(idle, Post(idle, <<m>>), in, out) /\ Post(idle, <<m>>).order = idle.order
      BY ZenonT(30), <2>1, <2>3, PostOK
    <3> QED
      BY <2>3, <3>1 DEF Handles, Handled
  <2>5. <<m>> \o idle.mailbox \in Seq(SoundMessages(in, out))
    BY <2>1, <2>3, ConcatProperties DEF SoundHub, HubOK
  <2>6. /\ SoundHub(front, in, out) /\ front.order = x.order
        /\ front.intent = x.intent /\ front.worker.pc = "Idle"
    BY <2>3, <2>5 DEF SoundHub, HubOK
  <2>7. Finish(x, result) \in {Post(idle, <<m>>), front}
    BY SMTT(30) DEF Finish, m, idle
  <2> QED
    BY ZenonT(30), <2>4, <2>6, <2>7
<1>2. Handles(st, StopTracking(st), in, out) /\ StopTracking(st).order = st.order
  BY ZenonT(30), ScheduleJobOK DEF StopTracking, SoundHub, HubOK
<1> QED
  BY <1>1, <1>2 DEF Fail, Handles, Handled

(* A creation starts: from a request, or from a retry or startup recovery. *)
LEMMA BeginsOK ==
    ASSUME Inv, HandleRequest \/ HandleResume
    PROVE  Inv' /\ OrderStep
<1>1. /\ s.mailbox # <<>> /\ UNCHANGED <<scope, incoming, outgoing, calls, passed, subscribed, used>>
  BY DEF HandleRequest, HandleResume, Receive
<1>2. /\ SoundHub(Rest, incoming, outgoing) /\ Handles(s, Rest, incoming, outgoing)
      /\ Rest.order = s.order /\ Rest.intent = s.intent /\ Rest.worker = s.worker
  BY <1>1, RestOK DEF Handles, Handled
<1>3. \A st : \A f \in {"Request", "Resume"} : \A p \in BOOLEAN :
         SoundHub(st, incoming, outgoing) =>
            /\ SoundHub(Begin([st EXCEPT !.pending = p], f), incoming, outgoing)
            /\ Begin([st EXCEPT !.pending = p], f).order = st.order
            /\ Begin([st EXCEPT !.pending = p], f).intent = st.intent
            /\ Begin([st EXCEPT !.pending = p], f).worker.pc = "Begin"
  BY DEF Begin, SoundHub, HubOK, Workers
<1>4. /\ SoundHub(Superseded(Rest), incoming, outgoing)
      /\ Superseded(Rest).order = s.order /\ Superseded(Rest).intent = s.intent
  BY <1>2, FinishOK DEF Superseded, Results
<1>5. \/ s' = Rest
      \/ s' = [Rest EXCEPT !.pending = FALSE]
      \/ SoundHub(s', incoming, outgoing) /\ s'.order = s.order /\ s'.intent = s.intent
         /\ s'.worker.pc = "Begin"
  <2>1. CASE HandleRequest
    BY Zenon, <2>1, <1>3, <1>4 DEF HandleRequest
  <2>2. CASE HandleResume
    BY Zenon, <2>2, <1>2, <1>3 DEF HandleResume
  <2> QED
    BY <2>1, <2>2
<1>6. CASE s' = Rest \/ s' = [Rest EXCEPT !.pending = FALSE]
  <2>1. Handles(s, [Rest EXCEPT !.pending = FALSE], incoming, outgoing)
    BY Zenon, <1>2, EndedOK
  <2>2. Handles(s, s', incoming, outgoing)
    BY ZenonT(30), <1>2, <1>6, <2>1
  <2> QED
    BY SMTT(30), <1>1, <2>2, FramesTyped, HubStep
<1>7. CASE SoundHub(s', incoming, outgoing) /\ s'.order = s.order /\ s'.intent = s.intent
           /\ s'.worker.pc = "Begin"
  <2>1. CreationOK(s') /\ OrderStep
    BY <1>7 DEF CreationOK, OrderStep
  <2>2. /\ subscribed \in BOOLEAN /\ incoming \in IncomingStates
        /\ incoming \in {"Open", "Received"} => s'.intent \/ s'.order.status # "None" \/ "Prune" \in passed
    BY <1>7 DEF Inv, TypeOK, InvoiceIsOnRecord
  <2> QED
    BY <1>1, <1>7, <2>1, <2>2, FramesTyped, CreationStep
<1> QED
  BY <1>5, <1>6, <1>7

(* A creation that ends without a new order. *)
LEMMA NoNewOrder ==
    ASSUME Inv, UNCHANGED <<scope, incoming, outgoing, calls, passed, subscribed>>, used' \in Bounds,
           NEW result \in Results, s' \in {Finish(s, result), Fail(s, result)}
    PROVE  Inv' /\ OrderStep
<1>1. SoundHub(s, incoming, outgoing)
  BY DEF Inv
<1>2. /\ SoundHub(s', incoming, outgoing) /\ s'.order = s.order /\ s'.intent = s.intent
      /\ s'.worker.pc = "Idle"
  BY SMTT(30), <1>1, FinishOK
<1>3. CreationOK(s') /\ OrderStep
  BY SMTT(30), <1>2 DEF CreationOK, OrderStep
<1>4. /\ subscribed \in BOOLEAN /\ incoming \in IncomingStates
      /\ incoming \in {"Open", "Received"} => s'.intent \/ s'.order.status # "None" \/ "Prune" \in passed
  BY <1>2 DEF Inv, TypeOK, InvoiceIsOnRecord
<1> QED
  BY <1>2, <1>3, <1>4, FramesTyped, CreationStep

(* A creation that goes on: its worker has the intent and no order. *)
LEMMA GoesOn ==
    ASSUME Inv, UNCHANGED <<scope, outgoing, calls, passed, subscribed>>, used' \in Bounds,
           SoundHub(s', incoming', outgoing), s'.order = s.order, s.order.status = "None", s'.intent,
           incoming' \in {incoming, "Open"},
           s'.worker.pc = "Commit" => s'.worker.status # "None",
           s'.worker.pc = "Add" => incoming' = "Absent"
    PROVE  Inv' /\ OrderStep
<1>1. CreationOK(s') /\ OrderStep
  BY DEF CreationOK, OrderStep
<1>2. subscribed \in BOOLEAN /\ incoming' \in IncomingStates
  BY DEF Inv, TypeOK, IncomingStates, InvoiceStatuses
<1> QED
  BY <1>1, <1>2, FramesTyped, CreationStep

(* The first step of a creation keeps the invariant. *)
LEMMA WorkerBeginsOK ==
    ASSUME Inv, WorkerBegins
    PROVE  Inv' /\ OrderStep
<1> DEFINE requested == s.worker.from = "Request"
           cleared == [s EXCEPT !.intent = @ /\ requested]
           result == IF requested THEN "Existing" ELSE "Nothing"
<1>1. UNCHANGED <<scope, incoming, outgoing, calls, passed, subscribed>> /\ used' \in Bounds
  BY FramesTyped DEF WorkerBegins
<1>2. CASE s.order.status # "None" /\ s' = Finish(cleared, result)
  <2>1. /\ SoundHub(cleared, incoming, outgoing) /\ cleared.order = s.order
    BY DEF Inv, SoundHub, HubOK
  <2>2. result \in Results
    BY DEF Results
  <2> HIDE DEF cleared, result
  <2>3. SoundHub(s', incoming, outgoing) /\ s'.order = s.order /\ s'.worker.pc = "Idle"
    BY SMTT(30), <1>2, <2>1, <2>2, FinishOK
  <2>4. CreationOK(s') /\ OrderStep
    BY <2>3 DEF CreationOK, OrderStep
  <2>5. subscribed \in BOOLEAN /\ incoming \in IncomingStates
    BY DEF Inv, TypeOK
  <2> QED
    BY SMTT(30), <1>1, <1>2, <2>3, <2>4, <2>5, FramesTyped, CreationStep
<1>3. CASE s' \in {Finish(s, "Nothing"), Finish(s, "Expired"), Finish(s, "AlreadyTracked"),
                   Finish(s, "Unreachable")}
  BY SMTT(30), <1>1, <1>3, NoNewOrder DEF Results
<1>4. CASE s.order.status = "None" /\ s' = Reserve(s)
  <2>1. /\ SoundHub(s', incoming, outgoing) /\ s'.order = s.order /\ s'.intent
        /\ s'.worker.pc = "Get"
    BY <1>4 DEF Reserve, Inv, SoundHub, HubOK, Workers
  <2> QED
    BY <1>1, <1>4, <2>1, GoesOn
<1>5. \/ s.order.status # "None" /\ s' = Finish(cleared, result)
      \/ s' \in {Finish(s, "Nothing"), Finish(s, "Expired"), Finish(s, "AlreadyTracked"),
                Finish(s, "Unreachable")}
      \/ s.order.status = "None" /\ s' = Reserve(s)
  BY DEF WorkerBegins
<1> QED
  BY SMTT(30), <1>2, <1>3, <1>4, <1>5

(* Looking for the invoice on the other node keeps the invariant. *)
LEMMA WorkerGetsInvoiceOK ==
    ASSUME Inv, WorkerGetsInvoice
    PROVE  Inv' /\ OrderStep
<1>1. UNCHANGED <<scope, incoming, outgoing, calls, passed, subscribed>> /\ used' \in Bounds
  BY FramesTyped DEF WorkerGetsInvoice
<1>2. s.order.status = "None" /\ s.intent
  BY DEF WorkerGetsInvoice, Inv, CreationOK
<1>3. CASE s' \in {Fail(s, "Mismatch"), Fail(s, "Expired"), Fail(s, "Unreachable")}
  BY SMTT(30), <1>1, <1>3, NoNewOrder DEF Results
<1>4. CASE incoming = "Absent" /\ s' = [s EXCEPT !.worker.pc = "Add"]
  <2>1. SoundHub(s', incoming, outgoing) /\ s'.order = s.order /\ s'.intent /\ s'.worker.pc = "Add"
    BY ZenonT(30), <1>2, <1>4 DEF Inv, SoundHub, HubOK, Workers
  <2> QED
    BY SMTT(30), <1>1, <1>2, <1>4, <2>1, GoesOn
<1>5. CASE \E st \in {"Pending", "IncomingAccepted", "Failed"} :
             s' = [s EXCEPT !.worker.pc = "Commit", !.worker.status = st]
  <2>1. PICK st \in {"Pending", "IncomingAccepted", "Failed"} :
             s' = [s EXCEPT !.worker.pc = "Commit", !.worker.status = st]
    BY Zenon, <1>5
  <2>2. /\ SoundHub(s', incoming, outgoing) /\ s'.order = s.order /\ s'.intent
        /\ s'.worker.pc = "Commit" /\ s'.worker.status = st
    BY ZenonT(30), <1>2, <2>1 DEF Inv, SoundHub, HubOK, Workers
  <2> QED
    BY <1>1, <1>2, <2>2, GoesOn
<1>6. CASE s' = Looked(s) /\ incoming # "Absent"
  <2>1. incoming # "Paid" => InvoiceOrderStatus(FiberInvoiceStatus) \in {"Pending", "IncomingAccepted", "Failed"}
    BY <1>6 DEF InvoiceOrderStatus, FiberInvoiceStatus, Inv, TypeOK, IncomingStates, InvoiceStatuses
  <2>2. \/ s' = Fail(s, "Mismatch")
        \/ \E st \in {"Pending", "IncomingAccepted", "Failed"} :
             s' = [s EXCEPT !.worker.pc = "Commit", !.worker.status = st]
    BY ZenonT(30), <1>6, <2>1 DEF Looked
  <2> QED
    BY <1>3, <1>5, <2>2
<1>7. \/ s' \in {Fail(s, "Expired"), Fail(s, "Unreachable")}
      \/ incoming = "Absent" /\ s' = [s EXCEPT !.worker.pc = "Add"]
      \/ s' = Looked(s) /\ incoming # "Absent"
  BY DEF WorkerGetsInvoice
<1> QED
  BY SMTT(30), <1>3, <1>4, <1>6, <1>7

(* Adding the invoice, with or without its reply, keeps the invariant. *)
LEMMA WorkerAddsInvoiceOK ==
    ASSUME Inv, WorkerAddsInvoice
    PROVE  Inv' /\ OrderStep
<1>1. UNCHANGED <<scope, outgoing, calls, passed, subscribed>> /\ used' \in Bounds
  BY FramesTyped DEF WorkerAddsInvoice
<1>2. s.order.status = "None" /\ s.intent /\ incoming = "Absent" /\ incoming' \in {incoming, "Open"}
  BY DEF WorkerAddsInvoice, Inv, CreationOK, AddsOnce
<1>3. SoundHub(s, incoming', outgoing)
  BY SMTT(30), <1>2, LegsMoveOn DEF Inv
<1>4. /\ SoundHub(s', incoming', outgoing) /\ s'.order = s.order /\ s'.intent
      /\ \/ s'.worker.pc = "Commit" /\ s'.worker.status = "Pending"
         \/ s'.worker.pc = "GetAgain"
  <2>1. CASE s' = [s EXCEPT !.worker.pc = "Commit", !.worker.status = "Pending"]
    BY Zenon, <1>2, <1>3, <2>1 DEF SoundHub, HubOK, Workers
  <2>2. CASE s' = [s EXCEPT !.worker.pc = "GetAgain"]
    BY ZenonT(30), <1>2, <1>3, <2>2 DEF SoundHub, HubOK, Workers
  <2> QED
    BY SMTT(30), <2>1, <2>2 DEF WorkerAddsInvoice
<1> QED
  BY SMTT(30), <1>1, <1>2, <1>4, GoesOn

(* Storing the order in place of the intent keeps the invariant. *)
LEMMA WorkerCommitsOK ==
    ASSUME Inv, WorkerCommits
    PROVE  Inv' /\ OrderStep
<1> DEFINE o == [status |-> s.worker.status, preimage |-> FALSE]
           st == [s EXCEPT !.order = o, !.intent = FALSE]
<1>1. /\ s.order.status = "None" /\ s.worker.status \in {"Pending", "IncomingAccepted", "Failed"}
  BY DEF WorkerCommits, Inv, CreationOK, SoundHub, HubOK, Workers
<1>2. o \in SoundOrders(incoming, outgoing) /\ o.status # "None" /\ Rank(o) > Rank(s.order)
  BY <1>1 DEF SoundOrders, Orders, OrderStatuses, FinalStatuses, Rank
<1>3. SoundHub(st, incoming, outgoing) /\ st.order = o
  BY <1>2 DEF Inv, SoundHub, HubOK
<1>4. s' = Finish(st, "New") /\ "New" \in Results
  BY DEF WorkerCommits, Results
<1> HIDE DEF st, o
<1>5. SoundHub(s', incoming, outgoing) /\ s'.order = o /\ s'.worker.pc = "Idle"
  BY SMTT(30), <1>3, <1>4, FinishOK
<1>6. CreationOK(s') /\ OrderStep
  BY SMTT(30), <1>2, <1>5 DEF CreationOK, OrderStep
<1>7. /\ UNCHANGED <<scope, incoming, outgoing, calls, passed, subscribed, used>>
      /\ subscribed \in BOOLEAN /\ incoming \in IncomingStates
  BY DEF WorkerCommits, Inv, TypeOK
<1> QED
  BY <1>2, <1>5, <1>6, <1>7, FramesTyped, CreationStep

-----------------------------------------------------------------------------
(* The theorems. *)

(* Every step keeps the invariant and moves the order forward. *)
LEMMA StepOK ==
    ASSUME Inv, [Next]_vars
    PROVE  Inv' /\ (OrderStep \/ UNCHANGED vars)
<1>1. CASE Handle
  BY SMTT(30), <1>1, BeginsOK, HandleCompletedOK, HandleResumeCompletedOK, HandleContinueOK, HandleEventOK,
     HandleReconcileOK, HandleActionRetryOK, HandleExpireOrderOK, SkipActionOK,
     SendOutgoingPaymentOK, TrackOK, SettleOK, CancelOK DEF Handle, ExecuteAction
<1>2. CASE Work
  BY SMTT(30), <1>2, WorkerBeginsOK, WorkerGetsInvoiceOK, WorkerAddsInvoiceOK, WorkerCommitsOK DEF Work
<1>3. CASE FiberCall \/ PaymentProceeds \/ PayerPays \/ FiberInvoiceIsPaid \/ InvoiceExpires
           \/ PayerTimesOut
  BY SMTT(30), <1>3, FiberCallOK, LegOK
<1>4. CASE LndTrackerReports \/ LndStreamBreaks \/ SubscriptionBreaks \/ Resubscribe
  BY SMTT(30), <1>4, LndTrackerOK, SubscriptionOK
<1>5. CASE Jobs \/ Request \/ Crash
  BY <1>5, JobsOK, RequestOK, CrashOK
<1>6. CASE \E m \in TimerMessages : TimerFires(m)
  BY <1>6, TimerFiresOK
<1>7. CASE \E d \in scope.deadlines : DeadlinePasses(d)
  BY SMTT(30), <1>7, DeadlinePassesOK
<1>8. CASE UNCHANGED vars
  BY <1>8 DEF vars, Inv, TypeOK, SoundHub, HubOK, CreationOK, ChargedOnlyAfterPayout,
              InvoiceIsOnRecord, LapsesOnFiber, AddsOnce, kind
<1> QED
  BY SMTT(30), <1>1, <1>2, <1>3, <1>4, <1>5, <1>6, <1>7, <1>8 DEF Next

(* The hub never holds a claim its legs have not earned, for every scope. *)
THEOREM Soundness == Spec => []Inv
<1>1. Init => Inv
  BY InitOK
<1>2. Inv /\ [Next]_vars => Inv'
  BY StepOK
<1> QED
  BY <1>1, <1>2, PTL DEF Spec

(* Every variable keeps its type. *)
THEOREM OrderTypes == Spec => []TypeOK
<1>1. Inv => TypeOK
  BY SMTT(30) DEF Inv
<1> QED
  BY <1>1, Soundness, PTL

(* The payer is charged only after the payout: however many crashes, lost   *)
(* replies and retries, SettleIncomingInvoice acts on the preimage of a     *)
(* completed outgoing payment.                                              *)
THEOREM PayerProtected == Spec => []ChargedOnlyAfterPayout
<1>1. Inv => ChargedOnlyAfterPayout
  BY SMTT(30) DEF Inv
<1> QED
  BY <1>1, Soundness, PTL

(* An order reported as Success has both legs done. *)
THEOREM SuccessIsReal == Spec => []SuccessMeansBothLegs
<1>1. Inv => SuccessMeansBothLegs
  BY DEF Inv, SoundHub, HubOK, SoundOrders, SuccessMeansBothLegs
<1> QED
  BY <1>1, Soundness, PTL

(* A payable invoice can always be found again by its intent or order. *)
THEOREM DurableRecord == Spec => []InvoiceIsOnRecord
<1>1. Inv => InvoiceIsOnRecord
  BY DEF Inv
<1> QED
  BY <1>1, Soundness, PTL

(* The stored order only moves forward. *)
THEOREM Forward == Spec => OrderMovesForward
<1>1. Inv /\ [Next]_vars => [OrderStep]_vars
  BY StepOK
<1> QED
  BY <1>1, Soundness, PTL DEF Spec, OrderMovesForward

=============================================================================
