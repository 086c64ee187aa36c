--------------------------- MODULE ChannelV1Proofs ---------------------------
(***************************************************************************)
(* Facts about the V1 channel for every pair of peers, every balance and   *)
(* every bound: type correctness, the conservation of funds, and that the  *)
(* CommitDiff kept for a replay is always the current one.  The handlers   *)
(* preserve ChannelInv (here and in ChannelV1Handlers); the actions only   *)
(* store and send what the handlers return.                                *)
(***************************************************************************)
EXTENDS ChannelV1Handlers

-----------------------------------------------------------------------------
(* Receiving a commitment and its acknowledgement.                         *)

(* Moving an amount between the two shares keeps the invariant. *)
LEMMA SettledOK ==
    ASSUME NEW s, ChannelInv(s), NEW a \in Nat, NEW b \in Nat, a + b = Total,
           NEW tlcs \in [TlcIds -> Tlc]
    PROVE  /\ ChannelInv([s EXCEPT !.to_local = a, !.to_remote = b,
                                  !.received = tlcs, !.offered = @])
           /\ ChannelInv([s EXCEPT !.to_local = a, !.to_remote = b,
                                  !.received = @, !.offered = tlcs])
<1> DEFINE t == [s EXCEPT !.to_local = a, !.to_remote = b, !.received = tlcs, !.offered = @]
           u == [s EXCEPT !.to_local = a, !.to_remote = b, !.received = @, !.offered = tlcs]
<1>0. ChannelOK(s)
  BY DEF ChannelInv
<1>1. ChannelOK(t)
  BY SMTT(60), <1>0, FieldNames DEF ChannelOK
<1>2. ChannelOK(u)
  BY SMTT(60), <1>0, FieldNames DEF ChannelOK
<1>3. t.to_local + t.to_remote = Total /\ u.to_local + u.to_remote = Total
  BY SMTT(60), FieldNames DEF ChannelInv, ChannelOK
<1>4. DiffIsCurrent(t)
  BY SMTT(60), FieldNames DEF ChannelInv, ChannelOK, DiffIsCurrent
<1>5. DiffIsCurrent(u)
  BY SMTT(60), FieldNames DEF ChannelInv, ChannelOK, DiffIsCurrent
<1> QED
  BY <1>1, <1>2, <1>3, <1>4, <1>5 DEF ChannelInv

(* Asking for a forced close keeps the invariant. *)
LEMMA ForceCloseOK ==
    ASSUME NEW s, ChannelInv(s),
           NEW cause \in {"None", "Balance", "Commitment", "PeerSilent", "Stalled"}
    PROVE  ChannelInv([s EXCEPT !.force_close = cause])
  BY SMTT(60), FieldNames DEF ChannelInv, ChannelOK, DiffIsCurrent

(* apply_settled_remove_tlcs moves the fulfilled amounts from one share    *)
(* to the other.                                                           *)
LEMMA ApplySettledOK ==
    ASSUME NEW s, ChannelInv(s), NEW inbound \in BOOLEAN
    PROVE  ChannelInv(apply_settled_remove_tlcs(s, inbound))
<1> DEFINE tlcs == IF inbound THEN s.received ELSE s.offered
           settled == {i \in TlcIds : /\ tlcs[i].status = "RemoveAckConfirmed"
                                      /\ tlcs[i].reason # "None"
                                      /\ "REMOVE" \notin tlcs[i].applied}
           fulfilled == {i \in settled : tlcs[i].reason = "Fulfill"}
           sum == SumAmounts(tlcs, fulfilled)
           shares == settled_balances(s, inbound, sum)
           left == [i \in TlcIds |->
                       IF i \in fulfilled THEN NoTlc
                       ELSE IF i \in settled THEN [tlcs[i] EXCEPT !.applied = @ \cup {"REMOVE"}]
                       ELSE tlcs[i]]
           moved == [s EXCEPT !.to_local = shares.local, !.to_remote = shares.remote,
                              !.received = IF inbound THEN left ELSE @,
                              !.offered = IF inbound THEN @ ELSE left]
           fits == {sum, shares.local, shares.remote} \subseteq 0..MaxU128
           given_up == [s EXCEPT !.force_close = "Balance"]
<1>1. tlcs \in [TlcIds -> Tlc]
  BY DEF ChannelInv, ChannelOK, DiffIsCurrent
<1>2. \A t \in Tlc : [t EXCEPT !.applied = @ \cup {"REMOVE"}] \in Tlc
  BY DEF Tlc
<1>3. left \in [TlcIds -> Tlc]
  <2> HIDE DEF tlcs, settled, fulfilled
  <2> QED
    BY <1>1, <1>2, TlcType
<1>4. ASSUME fits PROVE ChannelInv(moved)
  <2> HIDE DEF left, sum, tlcs
  <2>1. shares.local \in Nat /\ shares.remote \in Nat /\ sum \in Nat
    <3> HIDE DEF shares
    <3> QED
      BY <1>4, ChannelAssumption
  <2>2. s.to_local \in Nat /\ s.to_remote \in Nat /\ s.to_local + s.to_remote = Total
    BY DEF ChannelInv, ChannelOK
  <2>3. shares.local + shares.remote = Total
    BY <2>1, <2>2 DEF settled_balances
  <2> HIDE DEF shares
  <2> QED
    BY <1>3, <2>1, <2>3, SettledOK
<1>5. ChannelInv(given_up)
  BY ForceCloseOK
<1>6. apply_settled_remove_tlcs(s, inbound)
          = IF ~fits THEN given_up
            ELSE IF fulfilled # {} THEN prune_remote_commitment_points(moved) ELSE moved
  BY Zenon DEF apply_settled_remove_tlcs
<1> HIDE DEF given_up, fits, moved, sum, shares, left, fulfilled, settled, tlcs
<1>7. ASSUME fits
      PROVE  ChannelInv(moved) /\ ChannelInv(prune_remote_commitment_points(moved))
  BY <1>4, <1>7, PruneOK
<1> QED
  BY <1>5, <1>6, <1>7

(* Recording the nonce of the next commitment keeps the invariant. *)
LEMMA CommittedNonceOK ==
    ASSUME NEW s, ChannelInv(s), NEW n \in Nat
    PROVE  ChannelInv([s EXCEPT !.committed_nonce = n])
  BY SMTT(60), FieldNames DEF ChannelInv, ChannelOK, DiffIsCurrent

(* verify_commitment_signed_and_send_ack keeps the invariant, whether it   *)
(* verifies or not.                                                        *)
LEMMA VerifyOK ==
    ASSUME NEW s, ChannelInv(s), NEW m \in CommitmentSigned
    PROVE  ChannelInv(verify_commitment_signed_and_send_ack(s, m))
<1> DEFINE a == send_revoke_and_ack_message(clean_up_failed_tlcs(s), FALSE)
<1>1. ChannelInv(a)
  BY CleanUpOK, RevokeAndAckOK
<1>2. ChannelInv([s EXCEPT !.force_close = "Commitment", !.err = "BadCommitment"])
  BY SMTT(60), FieldNames DEF ChannelInv, ChannelOK, DiffIsCurrent, Errors
<1>3. m.next \in Nat
  BY DEF CommitmentSigned
<1> HIDE DEF a
<1>4. ChannelInv([a EXCEPT !.force_close = "Commitment"])
  BY <1>1, ForceCloseOK
<1>5. ChannelInv([a EXCEPT !.committed_nonce = m.next])
  BY <1>1, <1>3, CommittedNonceOK
<1> QED
  BY <1>2, <1>4, <1>5, Zenon
  DEF verify_commitment_signed_and_send_ack, commit_remote_nonce, a

(* Rewriting the TLC ledgers keeps the invariant. *)
LEMMA LedgerOK ==
    ASSUME NEW s, ChannelInv(s), NEW offered \in [TlcIds -> Tlc], NEW received \in [TlcIds -> Tlc]
    PROVE  ChannelInv([s EXCEPT !.offered = offered, !.received = received])
  BY SMTT(60), FieldNames DEF ChannelInv, ChannelOK, DiffIsCurrent

(* The ladder step of a received commitment keeps the invariant. *)
LEMMA UpdateForCommitmentOK ==
    ASSUME NEW s, ChannelInv(s)
    PROVE  ChannelInv(update_for_commitment_signed(s))
<1> DEFINE o == [i \in TlcIds |-> offered_on_commitment_signed(s.offered[i], s.waiting_ack)]
           r == [i \in TlcIds |-> received_on_commitment_signed(s.received[i], s.waiting_ack)]
<1>1. s.waiting_ack \in BOOLEAN /\ \A i \in TlcIds : s.offered[i] \in Tlc /\ s.received[i] \in Tlc
  BY DEF ChannelInv, ChannelOK, DiffIsCurrent
<1>2. o \in [TlcIds -> Tlc] /\ r \in [TlcIds -> Tlc]
  BY <1>1, LadderType
<1>3. ChannelInv([s EXCEPT !.offered = o, !.received = r])
  <2> HIDE DEF o, r
  <2> QED
    BY <1>2, LedgerOK
<1> QED
  BY <1>3 DEF update_for_commitment_signed

(* The replay hint may change: the rest of the diff stays current. *)
LEMMA HintOK ==
    ASSUME NEW s, ChannelInv(s), NEW b \in BOOLEAN
    PROVE  /\ ChannelInv([s EXCEPT !.diff.hint = "CommitThenRevoke"])
           /\ ChannelInv([s EXCEPT !.deferring = b])
<1> DEFINE d == [s.diff EXCEPT !.hint = "CommitThenRevoke"]
           t == [s EXCEPT !.diff.hint = "CommitThenRevoke"]
<1>1. d \in CommitDiff /\ d.local = s.diff.local /\ d.signed = s.diff.signed
  BY DEF ChannelInv, ChannelOK, CommitDiff
<1>2. ChannelInv(t)
  <2>1. ChannelOK(t)
    BY SMTT(60), <1>1, FieldNames DEF ChannelInv, ChannelOK
  <2>2. t.to_local + t.to_remote = Total
    BY SMTT(60), FieldNames DEF ChannelInv, ChannelOK
  <2>3. t.diff = d /\ t.local = s.local /\ t.waiting_ack = s.waiting_ack
    BY SMTT(60), FieldNames DEF ChannelInv, ChannelOK
  <2>4. DiffIsCurrent(t)
    BY <1>1, <2>3 DEF ChannelInv, DiffIsCurrent
  <2> QED
    BY <2>1, <2>2, <2>4 DEF ChannelInv
<1>3. ChannelInv([s EXCEPT !.deferring = b])
  BY SMTT(60), FieldNames DEF ChannelInv, ChannelOK, DiffIsCurrent
<1> QED
  BY <1>2, <1>3

(* The answer to a commitment keeps the invariant. *)
LEMMA AnswerCommitmentOK ==
    ASSUME NEW s, ChannelInv(s)
    PROVE  ChannelInv(answer_commitment_signed(s))
<1> DEFINE settled == maybe_transfer_to_shutdown(apply_settled_remove_tlcs(s, TRUE))
<1>1. ChannelInv(settled)
  BY ApplySettledOK, TransferToShutdownOK
<1> HIDE DEF settled
<1>2. ChannelInv(handle_commitment_signed_command(settled, <<>>))
  <2>1. <<>> \in Seq(TlcUpdate)
    OBVIOUS
  <2> QED
    BY <1>1, <2>1, CommitmentSignedCommandOK
<1> QED
  BY <1>1, <1>2, Zenon DEF answer_commitment_signed, AndThen, settled

(* handle_commitment_signed_peer_message keeps the invariant. *)
LEMMA CommitmentSignedOK ==
    ASSUME NEW s, ChannelInv(s), NEW m \in CommitmentSigned
    PROVE  ChannelInv(handle_commitment_signed_peer_message(s, m))
<1> DEFINE flushed == flush_for_commitment_signed(s)
           acked == AndThen(flushed, LAMBDA f : verify_commitment_signed_and_send_ack(f, m))
           hinted == hint_replay_order(acked)
           answered == AndThen(acked, LAMBDA a : answer_commitment_signed(
                                          update_for_commitment_signed(hint_replay_order(a))))
<1>1. ChannelInv(flushed)
  BY HintOK, FlushDeferredOK DEF flush_for_commitment_signed
<1> HIDE DEF flushed
<1>2. ChannelInv(acked)
  <2>1. ChannelInv(verify_commitment_signed_and_send_ack(flushed, m))
    BY <1>1, VerifyOK
  <2> QED
    BY <1>1, <2>1, Zenon DEF AndThen
<1> HIDE DEF acked
<1>3. ChannelInv(hinted)
  BY <1>2, HintOK DEF hint_replay_order
<1> HIDE DEF hinted
<1>4. ChannelInv(answer_commitment_signed(update_for_commitment_signed(hinted)))
  BY <1>3, UpdateForCommitmentOK, AnswerCommitmentOK
<1>5. ChannelInv(answered)
  BY <1>2, <1>4, Zenon DEF AndThen, hinted
<1> HIDE DEF answered
<1>6. ChannelInv(stop_deferring(answered))
  BY <1>5, HintOK DEF stop_deferring
<1> QED
  BY <1>5, <1>6, Zenon
  DEF handle_commitment_signed_peer_message, AndThen, flushed, acked, answered

(* The ladder and nonce step of an acknowledgement keeps the invariant. *)
LEMMA AcknowledgedOK ==
    ASSUME NEW s, ChannelInv(s), NEW offered \in [TlcIds -> Tlc], NEW received \in [TlcIds -> Tlc],
           NEW next \in Nat, NEW send \in Nat, NEW verify \in Nat
    PROVE  ChannelInv([s EXCEPT !.offered = offered, !.received = received,
                               !.rev_next = next, !.rev_send = send, !.rev_verify = verify])
  BY SMTT(60), FieldNames DEF ChannelInv, ChannelOK, DiffIsCurrent

(* handle_revoke_and_ack_peer_message ends the wait in the step that       *)
(* counts up.                                                              *)
LEMMA RevokeAndAckMessageOK ==
    ASSUME NEW s, ChannelInv(s), NEW m \in RevokeAndAck
    PROVE  ChannelInv(handle_revoke_and_ack_peer_message(s, m))
<1> DEFINE first == s.rev_send = None
           next == [s EXCEPT !.local = @ + 1, !.points = @ \cup {s.local + 1},
                             !.waiting_ack = FALSE, !.ack_wait = FALSE]
           p == prune_remote_commitment_points(next)
           o == [i \in TlcIds |-> offered_on_revoke_and_ack(p.offered[i])]
           r == [i \in TlcIds |-> received_on_revoke_and_ack(p.received[i])]
           send == IF first THEN m.next ELSE p.rev_send
           verify == IF first THEN m.next ELSE None
           t == [p EXCEPT !.offered = o, !.received = r,
                          !.rev_next = m.next, !.rev_send = send, !.rev_verify = verify]
<1>1. ChannelInv(next)
  BY SMTT(60), FieldNames DEF ChannelInv, ChannelOK, DiffIsCurrent
<1>2. ChannelInv(p)
  <2> HIDE DEF next
  <2> QED
    BY <1>1, PruneOK
<1> HIDE DEF p
<1>3. \A i \in TlcIds : p.offered[i] \in Tlc /\ p.received[i] \in Tlc
  BY <1>2 DEF ChannelInv, ChannelOK, DiffIsCurrent
<1>4. o \in [TlcIds -> Tlc] /\ r \in [TlcIds -> Tlc]
  BY <1>3, LadderType
<1>5. m.next \in Nat /\ send \in Nat /\ verify \in Nat
  BY <1>2 DEF ChannelInv, ChannelOK, DiffIsCurrent, RevokeAndAck, None
<1>6. ChannelInv(t)
  <2> HIDE DEF o, r, send, verify
  <2> QED
    BY <1>2, <1>4, <1>5, AcknowledgedOK
<1>7. /\ ChannelInv(Fail(s, "UnexpectedRevokeAndAck")) /\ ChannelInv(Fail(s, "NoRevocationNonce"))
      /\ ChannelInv(Fail(s, "BadRevocation")) /\ ChannelInv(Fail(s, "CannotBuild"))
  BY FailOK DEF Errors
<1> QED
  BY <1>6, <1>7, Zenon DEF handle_revoke_and_ack_peer_message, p

(* Marking a TLC applied keeps the invariant. *)
LEMMA AppliedOK ==
    ASSUME NEW s, ChannelInv(s), NEW received \in [TlcIds -> Tlc],
           NEW q \in Seq(TlcUpdate), NEW b \in BOOLEAN
    PROVE  ChannelInv([s EXCEPT !.received = received, !.retry = q, !.retry_timer = b])
  BY SMTT(60), FieldNames DEF ChannelInv, ChannelOK, DiffIsCurrent

(* update_tlc_status_on_ack keeps the invariant. *)
LEMMA UpdateOnAckOK ==
    ASSUME NEW s, ChannelInv(s), NEW refused \in SUBSET TlcIds
    PROVE  ChannelInv(update_tlc_status_on_ack(s, refused))
<1> DEFINE queued == {i \in refused : \E k \in DOMAIN s.retry : s.retry[k] = RemoveTlc(i, "Fail")}
           ids == InOrder(refused \ queued)
           removals == [k \in DOMAIN ids |-> RemoveTlc(ids[k], "Fail")]
           received == [i \in TlcIds |-> IF i \in newly_committed(s) \ refused
                                         THEN [s.received[i] EXCEPT !.applied = {"ADD"}]
                                         ELSE s.received[i]]
           timer == s.retry_timer \/ (s.retry = <<>> /\ removals # <<>>)
           t == [s EXCEPT !.received = received, !.retry = @ \o removals, !.retry_timer = timer]
<1>1. removals \in Seq(TlcUpdate)
  <2> DEFINE n == Cardinality(refused \ queued)
  <2>1. n \in Nat /\ DOMAIN ids = 1..n /\ \A k \in 1..n : ids[k] \in TlcIds
    <3>1. refused \ queued \subseteq TlcIds
      OBVIOUS
    <3> HIDE DEF queued
    <3> QED
      BY <3>1, InOrderType
  <2> HIDE DEF ids, n
  <2>2. \A k \in 1..n : RemoveTlc(ids[k], "Fail") \in TlcUpdate
    BY <2>1, UpdateType, TlcIdsFinite DEF RemoveTlcReason
  <2> QED
    BY <2>1, <2>2
<1>2. received \in [TlcIds -> Tlc]
  <2>1. \A tlc \in Tlc : [tlc EXCEPT !.applied = {"ADD"}] \in Tlc
    BY DEF Tlc
  <2>2. s.received \in [TlcIds -> Tlc]
    BY DEF ChannelInv, ChannelOK, DiffIsCurrent
  <2> QED
    BY <2>1, <2>2
<1>3. timer \in BOOLEAN
  BY DEF ChannelInv, ChannelOK, DiffIsCurrent
<1> HIDE DEF removals, received, timer
<1>4. s.retry \o removals \in Seq(TlcUpdate)
  BY <1>1 DEF ChannelInv, ChannelOK, DiffIsCurrent
<1>5. ChannelInv(t)
  BY <1>2, <1>3, <1>4, AppliedOK
<1>6. ChannelInv(apply_settled_remove_tlcs(t, FALSE))
  <2> HIDE DEF t
  <2> QED
    BY <1>5, ApplySettledOK
<1> QED
  BY <1>6, Zenon DEF update_tlc_status_on_ack, removals, received, timer

(* The answer to an acknowledgement keeps the invariant. *)
LEMMA AnswerRevokeAndAckOK ==
    ASSUME NEW s, ChannelInv(s)
    PROVE  ChannelInv(answer_revoke_and_ack(s))
<1> DEFINE answered == IF need_another_commitment_signed(s.offered, s.received)
                       THEN handle_commitment_signed_command(s, <<>>) ELSE s
           retried == apply_retryable_tlc_operations(answered)
<1>1. ChannelInv(answered)
  <2>1. <<>> \in Seq(TlcUpdate)
    OBVIOUS
  <2> QED
    BY <2>1, CommitmentSignedCommandOK
<1> HIDE DEF answered
<1>2. ChannelInv(retried)
  BY <1>1, ApplyRetryableOK
<1> HIDE DEF retried
<1>3. ChannelInv(finish_pending_ready(retried))
  BY <1>2, ConnectionOK DEF finish_pending_ready
<1> QED
  BY <1>1, <1>3, Zenon DEF answer_revoke_and_ack, AndThen, answered, retried

(* So does all that receiving a RevokeAndAck does. *)
LEMMA ReceiveRevokeAndAckOK ==
    ASSUME NEW s, ChannelInv(s), NEW m \in RevokeAndAck, NEW refused \in SUBSET TlcIds
    PROVE  ChannelInv(receive_revoke_and_ack(s, m, refused))
<1> DEFINE acked == handle_revoke_and_ack_peer_message(s, m)
<1>1. ChannelInv(acked)
  BY RevokeAndAckMessageOK
<1> HIDE DEF acked
<1>2. ChannelInv(answer_revoke_and_ack(update_tlc_status_on_ack(acked, refused)))
  BY <1>1, UpdateOnAckOK, AnswerRevokeAndAckOK
<1> QED
  BY <1>1, <1>2, Zenon DEF receive_revoke_and_ack, AndThen, acked

-----------------------------------------------------------------------------
(* Reconnection.                                                           *)

(* on_peer_reconnected keeps the invariant. *)
LEMMA ReconnectedOK ==
    ASSUME NEW s, ChannelInv(s)
    PROVE  ChannelInv(on_peer_reconnected(s))
<1> DEFINE t == [s EXCEPT !.connectivity = "Syncing", !.handshake_wait = TRUE]
<1>1. ChannelInv(t)
  BY SMTT(60), FieldNames DEF ChannelInv, ChannelOK, DiffIsCurrent
<1>2. ReestablishChannel(s) \in Message
  BY DEF ReestablishChannel, Message, ChannelInv, ChannelOK, DiffIsCurrent
<1>3. ChannelInv(Send(t, ReestablishChannel(s)))
  <2> HIDE DEF t
  <2> QED
    BY <1>1, <1>2, SendOK
<1> QED
  BY <1>3 DEF on_peer_reconnected

(* What a stored diff replays are messages. *)
LEMMA ResendCommitmentOK ==
    ASSUME NEW s, ChannelInv(s)
    PROVE  ChannelInv(resend_commitment_from_diff(s))
<1>1. s.diff.updates \in Seq(TlcUpdate) /\ s.diff.signed \in Seq(CommitmentSigned)
  BY DEF ChannelInv, ChannelOK, DiffIsCurrent, CommitDiff
<1>2. s.diff.updates \in Seq(Message) /\ s.diff.signed \in Seq(Message)
  BY <1>1, MessageKinds, SeqMonotonic
<1>3. s.diff.updates \o s.diff.signed \in Seq(Message)
  BY <1>2
<1> QED
  BY <1>3, SendAllOK DEF resend_commitment_from_diff

(* Asking for a CommitmentSigned command keeps the invariant. *)
LEMMA CommandOK ==
    ASSUME NEW s, ChannelInv(s), NEW b \in BOOLEAN
    PROVE  ChannelInv([s EXCEPT !.command = b])
  BY SMTT(60), FieldNames DEF ChannelInv, ChannelOK, DiffIsCurrent

(* resend_tlcs_on_reestablish keeps the invariant. *)
LEMMA ResendTlcsOK ==
    ASSUME NEW s, ChannelInv(s)
    PROVE  ChannelInv(resend_tlcs_on_reestablish(s))
<1> DEFINE adds == {i \in TlcIds : s.offered[i].status = "LocalAnnounced"}
           removes == {i \in TlcIds : s.received[i].status = "LocalRemoved"}
           a == InOrder(adds)
           r == InOrder(removes)
           as == [k \in DOMAIN a |-> AddTlc(a[k], s.offered[a[k]].amount)]
           rs == [k \in DOMAIN r |-> RemoveTlc(r[k], s.received[r[k]].reason)]
           command == \/ adds \cup removes # {}
                      \/ need_another_commitment_signed(s.offered, s.received)
           t == SendAll(SendAll(s, as), rs)
<1>1. \A i \in TlcIds : /\ AddTlc(i, s.offered[i].amount) \in Message
                        /\ RemoveTlc(i, s.received[i].reason) \in Message
  <2>1. \A i \in TlcIds : /\ i \in Nat /\ s.offered[i].amount \in Nat
                          /\ s.received[i].reason \in RemoveTlcReason \cup {"None"}
    BY TlcIdsFinite DEF ChannelInv, ChannelOK, DiffIsCurrent, Tlc
  <2> QED
    BY <2>1, UpdateType, MessageKinds
<1>2. as \in Seq(Message)
  <2> DEFINE n == Cardinality(adds)
  <2>1. n \in Nat /\ DOMAIN a = 1..n /\ \A k \in 1..n : a[k] \in TlcIds
    BY InOrderType
  <2> HIDE DEF a, n
  <2> QED
    BY <1>1, <2>1
<1>3. rs \in Seq(Message)
  <2> DEFINE n == Cardinality(removes)
  <2>1. n \in Nat /\ DOMAIN r = 1..n /\ \A k \in 1..n : r[k] \in TlcIds
    BY InOrderType
  <2> HIDE DEF r, n
  <2> QED
    BY <1>1, <2>1
<1>4. command \in BOOLEAN
  BY DEF need_another_commitment_signed
<1> HIDE DEF as, rs, command
<1>5. ChannelInv(t)
  BY <1>2, <1>3, SendAllOK
<1> HIDE DEF t
<1>6. ChannelInv([t EXCEPT !.command = command])
  BY <1>4, <1>5, CommandOK
<1> QED
  BY <1>6, Zenon DEF resend_tlcs_on_reestablish, t, as, rs, command

(* The order of the last two messages may be recorded. *)
LEMMA LastWasRevokeOK ==
    ASSUME NEW s, ChannelInv(s), NEW b \in BOOLEAN
    PROVE  ChannelInv([s EXCEPT !.last_was_revoke = b])
  BY SMTT(60), FieldNames DEF ChannelInv, ChannelOK, DiffIsCurrent

(* Replaying both messages owed keeps the invariant, in either order. *)
LEMMA ReplayDualOwedOK ==
    ASSUME NEW s, ChannelInv(s)
    PROVE  ChannelInv(replay_dual_owed(s))
<1> DEFINE d == [s EXCEPT !.deferring = TRUE]
           a == send_revoke_and_ack_message(d, TRUE)
           c == resend_commitment_from_diff(a)
<1>1. ChannelInv(d)
  BY HintOK
<1> HIDE DEF d
<1>2. ChannelInv(a) /\ ChannelInv(send_revoke_and_ack_message(resend_commitment_from_diff(d), TRUE))
  BY <1>1, RevokeAndAckOK, ResendCommitmentOK
<1> HIDE DEF a
<1>3. ChannelInv(c)
  BY <1>2, ResendCommitmentOK
<1> HIDE DEF c
<1>4. ChannelInv([c EXCEPT !.last_was_revoke = FALSE])
  BY <1>3, LastWasRevokeOK
<1> QED
  BY <1>2, <1>4, Zenon DEF replay_dual_owed, a, c, d

(* Waiting for the replayed commitment to be acknowledged keeps the        *)
(* invariant.                                                              *)
LEMMA PendingReadyOK ==
    ASSUME NEW s, ChannelInv(s)
    PROVE  /\ ChannelInv([s EXCEPT !.reestablishing = FALSE, !.pending_ready = TRUE])
           /\ ChannelInv([s EXCEPT !.pending_ready = FALSE, !.ack_wait = FALSE])
<1>1. ChannelInv([s EXCEPT !.reestablishing = FALSE, !.pending_ready = TRUE])
  BY SMTT(60), FieldNames DEF ChannelInv, ChannelOK, DiffIsCurrent
<1>2. ChannelInv([s EXCEPT !.pending_ready = FALSE, !.ack_wait = FALSE])
  BY SMTT(60), FieldNames DEF ChannelInv, ChannelOK, DiffIsCurrent
<1> QED
  BY <1>1, <1>2

(* The reestablishment of a ready channel keeps the invariant, on every    *)
(* branch.                                                                 *)
LEMMA ReestablishReadyOK ==
    ASSUME NEW t, ChannelInv(t), NEW m
    PROVE  ChannelInv(reestablish_ready_channel(t, m))
<1> DEFINE u == [t EXCEPT !.pending_ready = FALSE, !.ack_wait = FALSE]
           s == restore_missing_revocation_send_nonce(u)
           Pending(x) == [x EXCEPT !.reestablishing = FALSE, !.pending_ready = TRUE]
           Complete(x) == IF Ok(x) THEN on_reestablished_channel_ready(x) ELSE x
           resent == resend_commitment_from_diff(s)
           replayed == [resent EXCEPT !.last_was_revoke = FALSE]
<1>1. ChannelInv(u)
  BY PendingReadyOK
<1> HIDE DEF u
<1>2. ChannelInv(s)
  BY <1>1, ConnectionOK
<1> HIDE DEF s
<1>3. ChannelInv(resent)
  BY <1>2, ResendCommitmentOK
<1> HIDE DEF resent
<1>4. ChannelInv(replayed)
  BY <1>3, LastWasRevokeOK
<1> HIDE DEF replayed
<1>5. \A x : ChannelInv(x) => ChannelInv(Pending(x)) /\ ChannelInv(Complete(x))
  BY PendingReadyOK, ConnectionOK
<1> HIDE DEF Pending, Complete
<1>6. /\ ChannelInv(Complete(resend_tlcs_on_reestablish(s)))
      /\ ChannelInv(Complete(replay_dual_owed(s)))
      /\ ChannelInv(Complete(send_revoke_and_ack_message(s, TRUE)))
      /\ ChannelInv(Complete(replayed))
      /\ ChannelInv(Pending(replayed))
      /\ ChannelInv(Pending(s))
  BY <1>2, <1>4, <1>5, ResendTlcsOK, ReplayDualOwedOK, RevokeAndAckOK
<1>7. ChannelInv(Fail(s, "BadReestablish")) /\ ChannelInv(Fail(s, "StaleCommitDiff"))
  BY <1>2, FailOK DEF Errors
<1> QED
  BY <1>6, <1>7, Zenon DEF reestablish_ready_channel, Pending, Complete, replayed, resent, s, u

(* The answer to our handshake keeps the invariant. *)
LEMMA HandshakeAnsweredOK ==
    ASSUME NEW s, ChannelInv(s)
    PROVE  ChannelInv([s EXCEPT !.handshake_wait = FALSE])
  BY SMTT(60), FieldNames DEF ChannelInv, ChannelOK, DiffIsCurrent

(* Receiving ReestablishChannel keeps the invariant. *)
LEMMA ReceiveReestablishOK ==
    ASSUME NEW s, ChannelInv(s), NEW m
    PROVE  ChannelInv(receive_reestablish_channel(s, m))
<1>1. ASSUME NEW t, ChannelInv(t) PROVE ChannelInv(handle_reestablish_channel_message(t, m))
  <2> DEFINE a == [t EXCEPT !.handshake_wait = FALSE]
  <2>1. ChannelInv(a)
    BY <1>1, HandshakeAnsweredOK
  <2> HIDE DEF a
  <2>2. ChannelInv(reestablish_ready_channel(a, m))
    BY <2>1, ReestablishReadyOK
  <2>3. ChannelInv(reestablish_closing_channel(a))
    <3>1. Shutdown("Default") \in Message
      BY MessageKinds DEF ShutdownTerms
    <3>2. a.flags \in SUBSET {"OUR", "THEIR", "DROPPING", "WAITING"}
      BY <2>1 DEF ChannelInv, ChannelOK, DiffIsCurrent
    <3>3. ChannelInv(Send(a, Shutdown("Default")))
      BY <2>1, <3>1, SendOK
    <3> QED
      BY <2>1, <3>2, <3>3, StepShuttingDownOK DEF reestablish_closing_channel
  <2> QED
    BY <2>2, <2>3 DEF handle_reestablish_channel_message, a
<1>2. ChannelInv(handle_reestablish_channel_message(on_peer_reconnected(s), m))
  BY <1>1, ReconnectedOK
<1>3. ChannelInv(schedule_next_retry_task(
          handle_reestablish_channel_message(on_peer_reconnected(s), m)))
  BY <1>2, ConnectionOK
<1> QED
  BY <1>1, <1>2, <1>3 DEF receive_reestablish_channel, schedule_if_reestablished

-----------------------------------------------------------------------------
(* The actions.                                                            *)

(* There is exactly one other peer. *)
LEMMA OtherPeer ==
    ASSUME NEW p \in Peers
    PROVE  Other(p) \in Peers /\ Other(p) # p /\ \A q \in Peers : q = p \/ q = Other(p)
<1>1. \E q \in Peers : q # p
  BY ChannelAssumption
<1>2. Other(p) \in Peers /\ Other(p) # p
  BY <1>1 DEF Other
<1> QED
  BY <1>2, ChannelAssumption

(* What Commit stores keeps the invariant and has nothing left to send. *)
LEMMA StoredOK ==
    ASSUME NEW s, ChannelInv(s)
    PROVE  LET t == [s EXCEPT !.out = <<>>, !.command = FALSE, !.err = "None"]
           IN  ChannelInv(t) /\ t.out = <<>> /\ ~t.command /\ Ok(t)
<1> DEFINE t == [s EXCEPT !.out = <<>>, !.command = FALSE, !.err = "None"]
<1>1. <<>> \in Seq(Message)
  OBVIOUS
<1>2. ChannelInv(t)
  BY SMTT(60), <1>1, FieldNames DEF ChannelInv, ChannelOK, DiffIsCurrent, Errors
<1>3. t.out = <<>> /\ ~t.command /\ Ok(t)
  BY SMTT(60), FieldNames DEF ChannelInv, ChannelOK, DiffIsCurrent, Ok
<1> QED
  BY <1>2, <1>3

(* The inductive invariant: every stored channel state is sound. *)
IInv == TypeOK /\ \A p \in Peers : ChannelInv(ch[p])

(* Replacing one sound channel state by another keeps the inductive        *)
(* invariant.                                                              *)
LEMMA StoredChannels ==
    ASSUME IInv, NEW p \in Peers, NEW t, ChannelInv(t), t.out = <<>>, ~t.command, Ok(t),
           ch' = [ch EXCEPT ![p] = t],
           link' \in [Peers -> Seq(Message)], up' \in [Peers -> BOOLEAN],
           issued' \in [Peers -> Nat], drops' \in Nat, errors' \in [Peers -> SUBSET Errors]
    PROVE  IInv'
<1>1. ChannelOK(t)
  BY DEF ChannelInv
<1>2. DOMAIN ch' = Peers
  BY DEF IInv, TypeOK
<1>3. \A q \in Peers : /\ ChannelOK(ch'[q]) /\ ChannelInv(ch'[q])
                       /\ ch'[q].out = <<>> /\ ~ch'[q].command /\ Ok(ch'[q])
  BY <1>1 DEF IInv, TypeOK
<1> QED
  BY <1>2, <1>3 DEF IInv, TypeOK

(* What a handler leaves is stored and sent. *)
LEMMA CommitInv ==
    ASSUME IInv, NEW p \in Peers, NEW s, ChannelInv(s), NEW queue \in Seq(Message),
           Commit(p, s, queue),
           up' \in [Peers -> BOOLEAN], issued' \in [Peers -> Nat], drops' \in Nat
    PROVE  IInv'
<1> DEFINE t == [s EXCEPT !.out = <<>>, !.command = FALSE, !.err = "None"]
<1>1. ChannelInv(t) /\ t.out = <<>> /\ ~t.command /\ Ok(t)
  BY StoredOK, Zenon
<1>2. ch' = [ch EXCEPT ![p] = t]
  BY Zenon DEF Commit
<1> HIDE DEF t
<1>3. s.out \in Seq(Message) /\ s.err \in Errors
  BY DEF ChannelInv, ChannelOK
<1>4. /\ link \in [Peers -> Seq(Message)] /\ errors \in [Peers -> SUBSET Errors]
      /\ Other(p) \in Peers
  BY OtherPeer DEF IInv, TypeOK
<1>5. link' \in [Peers -> Seq(Message)]
  <2>1. link[Other(p)] \in Seq(Message) /\ link[Other(p)] \o s.out \in Seq(Message)
    BY <1>3, <1>4
  <2> QED
    BY <2>1, <1>4 DEF Commit
<1>6. errors' \in [Peers -> SUBSET Errors]
  BY <1>3, <1>4 DEF Commit
<1> QED
  BY <1>1, <1>2, <1>5, <1>6, StoredChannels

(* Answering a refused command keeps the invariant. *)
LEMMA RefusedOK ==
    ASSUME NEW s, ChannelInv(s)
    PROVE  ChannelInv(Answered(s))
  BY SMTT(60), FieldNames DEF Answered, ChannelInv, ChannelOK, DiffIsCurrent, Errors

(* A command keeps the inductive invariant if its handler does. *)
LEMMA CommandInv ==
    ASSUME IInv, NEW p \in Peers, NEW s, ChannelInv(s), Command(p, s),
           up' = up, issued' \in [Peers -> Nat], drops' = drops
    PROVE  IInv'
<1> DEFINE t == Answered(s)
<1>1. ChannelInv(t)
  BY RefusedOK
<1>2. Commit(p, t, link[p])
  BY Zenon DEF Command
<1> HIDE DEF t
<1>3. link[p] \in Seq(Message) /\ up' \in [Peers -> BOOLEAN] /\ drops' \in Nat
  BY DEF IInv, TypeOK
<1> QED
  BY <1>1, <1>2, <1>3, CommitInv

(* A message keeps the inductive invariant if its handler does. *)
LEMMA ProcessedInv ==
    ASSUME IInv, NEW p \in Peers, NEW s, ChannelInv(s), Processed(p, s), link[p] # <<>>
    PROVE  IInv'
<1>1. Tail(link[p]) \in Seq(Message)
  BY DEF IInv, TypeOK
<1>2. /\ up' \in [Peers -> BOOLEAN] /\ issued' \in [Peers -> Nat] /\ drops' \in Nat
      /\ Commit(p, s, Tail(link[p]))
  BY DEF IInv, TypeOK, Processed
<1> QED
  BY <1>1, <1>2, CommitInv

(* The type field tells the messages apart. *)
LEMMA MessageByType ==
    ASSUME NEW m \in Message
    PROVE  /\ m.type \in {"AddTlc", "RemoveTlc"} => m \in TlcUpdate
           /\ m.type = "CommitmentSigned" => m \in CommitmentSigned
           /\ m.type = "RevokeAndAck" => m \in RevokeAndAck
           /\ m.type = "ClosingSigned" => m \in ClosingSigned
           /\ m.type = "Shutdown" => m.terms \in ShutdownTerms
<1>1. \/ m \in TlcUpdate \/ m \in CommitmentSigned \/ m \in RevokeAndAck \/ m \in ClosingSigned
      \/ m \in [type : {"ReestablishChannel"}, local : Nat, remote : Nat]
      \/ m \in [type : {"Shutdown"}, terms : ShutdownTerms]
      \/ m = CommitmentSignedCommand
  BY DEF Message
<1>2. m \in TlcUpdate => m.type \in {"AddTlc", "RemoveTlc"}
  BY DEF TlcUpdate
<1>3. m \in CommitmentSigned => m.type = "CommitmentSigned"
  BY DEF CommitmentSigned
<1>4. m \in RevokeAndAck => m.type = "RevokeAndAck"
  BY DEF RevokeAndAck
<1>5. m \in ClosingSigned => m.type = "ClosingSigned"
  BY DEF ClosingSigned
<1>6. CommitmentSignedCommand.type = "CommitmentSignedCommand"
  BY DEF CommitmentSignedCommand
<1> QED
  BY <1>1, <1>2, <1>3, <1>4, <1>5, <1>6

(* Beginning a cooperative shutdown keeps the invariant. *)
LEMMA ShutdownBegunOK ==
    ASSUME NEW s, ChannelInv(s), NEW terms \in ShutdownTerms
    PROVE  ChannelInv([s EXCEPT !.local_shutdown = terms, !.local_sig = NoSignature,
                                !.state = "ShuttingDown", !.flags = {"OUR"}])
<1>1. NoSignature \in ClosingSigned
  BY DEF NoSignature, ClosingSigned
<1> QED
  BY SMTT(60), <1>1, FieldNames DEF ChannelInv, ChannelOK, DiffIsCurrent

(* A forced shutdown keeps the invariant. *)
LEMMA ForcedOK ==
    ASSUME NEW s, ChannelInv(s)
    PROVE  ChannelInv([s EXCEPT !.state = "ShuttingDown", !.flags = {"WAITING"},
                                !.on_chain = "Commitment"])
  BY SMTT(60), FieldNames DEF ChannelInv, ChannelOK, DiffIsCurrent

(* The retry task running keeps the invariant. *)
LEMMA RetryTaskOK ==
    ASSUME NEW s, ChannelInv(s)
    PROVE  ChannelInv([s EXCEPT !.retry_timer = FALSE])
  BY SMTT(60), FieldNames DEF ChannelInv, ChannelOK, DiffIsCurrent

(* A channel that goes offline sends and reports nothing. *)
LEMMA OfflineSilent ==
    ASSUME NEW s, ChannelInv(s), s.out = <<>>, ~s.command, Ok(s)
    PROVE  /\ LET t == on_peer_disconnected(s) IN t.out = <<>> /\ ~t.command /\ Ok(t)
           /\ LET t == restore_offline_channel(s) IN t.out = <<>> /\ ~t.command /\ Ok(t)
<1>1. \A t, b : /\ DOMAIN t = Fields /\ t.out = <<>> /\ ~t.command /\ Ok(t)
                => LET u == [t EXCEPT !.reestablishing = b, !.connectivity = "Offline"]
                   IN  u.out = <<>> /\ ~u.command /\ Ok(u)
  BY FieldNames DEF Ok
<1>2. ASSUME NEW t, DOMAIN t = Fields, t.out = <<>>, ~t.command, Ok(t)
      PROVE  LET u == on_peer_disconnected(t) IN u.out = <<>> /\ ~u.command /\ Ok(u)
  <2> DEFINE d == [t EXCEPT !.deferring = FALSE, !.deferred = <<>>,
                            !.ack_wait = FALSE, !.handshake_wait = FALSE]
  <2>1. DOMAIN d = Fields /\ d.out = <<>> /\ ~d.command /\ Ok(d)
    BY <1>2, FieldNames DEF Ok
  <2> HIDE DEF d
  <2> QED
    BY <1>1, <2>1 DEF on_peer_disconnected, mark_reestablishing_offline, d
<1> DEFINE r == [s EXCEPT !.pending_ready = FALSE, !.retry_timer = FALSE]
<1>3. DOMAIN s = Fields
  BY DEF ChannelInv, ChannelOK
<1>4. DOMAIN r = Fields /\ r.out = <<>> /\ ~r.command /\ Ok(r)
  BY <1>3, FieldNames DEF Ok
<1> HIDE DEF r
<1> QED
  BY <1>2, <1>3, <1>4 DEF restore_offline_channel, r

(* Every step of the protocol preserves the invariant. *)
LEMMA NextInv ==
    ASSUME IInv, [Next]_vars
    PROVE  IInv'
<1>1. CASE UNCHANGED vars
  BY <1>1 DEF vars, IInv, TypeOK
<1>2. CASE PeerConnected
  BY <1>2 DEF PeerConnected, IInv, TypeOK
<1> SUFFICES ASSUME NEW p \in Peers
             PROVE  /\ AddTlcCommand(p) \/ RemoveTlcCommand(p) \/ ShutdownCommand(p)
                           \/ ForceShutdownCommand(p) \/ CheckActiveChannel(p)
                           \/ MaintainChannelTlcs(p) => IInv'
                    /\ RunCommitmentSignedCommand(p) \/ RunRetryTask(p) \/ ReceiveTlcUpdate(p)
                           \/ ReceiveCommitmentSigned(p) \/ ReceiveRevokeAndAck(p)
                           \/ ReceiveShutdown(p) => IInv'
                    /\ ReceiveClosingSigned(p) \/ ReceiveReestablishChannel(p)
                           \/ IgnoreWhileReestablishing(p) \/ PeerDisconnected(p)
                           \/ Restart(p) \/ PeerReconnected(p) => IInv'
  BY <1>1, <1>2, Zenon DEF Next
<1> DEFINE s == ch[p]
           m == Head(link[p])
<1>3. ChannelInv(s) /\ s.out = <<>> /\ ~s.command /\ Ok(s)
  BY DEF IInv, TypeOK
<1>4. /\ link \in [Peers -> Seq(Message)] /\ up \in [Peers -> BOOLEAN]
      /\ issued \in [Peers -> Nat] /\ drops \in Nat /\ errors \in [Peers -> SUBSET Errors]
  BY DEF IInv, TypeOK
<1>5. link[p] # <<>> => m \in Message /\ Tail(link[p]) \in Seq(Message)
  BY <1>4
<1> HIDE DEF s, m
<1>6. CASE AddTlcCommand(p)
  <2>1. PICK amount \in Amounts :
          Command(p, IF handle_add_tlc_command(s, amount).err = "WaitingTlcAck"
                     THEN register_retryable_tlc_operation(s, AddTlc(issued[p], amount))
                     ELSE handle_add_tlc_command(s, amount))
    BY <1>6, Zenon DEF AddTlcCommand, OrRetry, s
  <2>2. amount \in Nat /\ AddTlc(issued[p], amount) \in TlcUpdate
    BY <1>4, ChannelAssumption, UpdateType
  <2>3. /\ ChannelInv(handle_add_tlc_command(s, amount))
        /\ ChannelInv(register_retryable_tlc_operation(s, AddTlc(issued[p], amount)))
    BY <1>3, <2>2, AddTlcCommandOK, RegisterOK
  <2>4. up' = up /\ drops' = drops /\ issued' \in [Peers -> Nat]
    BY <1>4, <1>6 DEF AddTlcCommand
  <2> QED
    BY <2>1, <2>3, <2>4, CommandInv
<1>7. CASE RemoveTlcCommand(p)
  <2>1. PICK id \in TlcIds, reason \in RemoveTlcReason :
          Command(p, IF handle_remove_tlc_command(s, id, reason).err = "WaitingTlcAck"
                     THEN register_retryable_tlc_operation(s, RemoveTlc(id, reason))
                     ELSE handle_remove_tlc_command(s, id, reason))
    BY <1>7, Zenon DEF RemoveTlcCommand, OrRetry, s
  <2>2. id \in Nat /\ RemoveTlc(id, reason) \in TlcUpdate
    BY TlcIdsFinite, UpdateType
  <2>3. /\ ChannelInv(handle_remove_tlc_command(s, id, reason))
        /\ ChannelInv(register_retryable_tlc_operation(s, RemoveTlc(id, reason)))
    BY <1>3, <2>2, RemoveTlcCommandOK, RegisterOK
  <2>4. up' = up /\ drops' = drops /\ issued' \in [Peers -> Nat]
    BY <1>4, <1>7 DEF RemoveTlcCommand
  <2> QED
    BY <2>1, <2>3, <2>4, CommandInv
<1>8. CASE ShutdownCommand(p)
  <2>1. PICK terms \in {"Default", "Custom"} :
          Command(p, maybe_transfer_to_shutdown(
              Send([s EXCEPT !.local_shutdown = terms, !.local_sig = NoSignature,
                             !.state = "ShuttingDown", !.flags = {"OUR"}],
                   Shutdown(terms))))
    BY <1>8, Zenon DEF ShutdownCommand, s
  <2> DEFINE t == [s EXCEPT !.local_shutdown = terms, !.local_sig = NoSignature,
                            !.state = "ShuttingDown", !.flags = {"OUR"}]
  <2>2. terms \in ShutdownTerms
    BY DEF ShutdownTerms
  <2>3. ChannelInv(t)
    BY <1>3, <2>2, ShutdownBegunOK
  <2> HIDE DEF t
  <2>4. ChannelInv(maybe_transfer_to_shutdown(Send(t, Shutdown(terms))))
    BY <2>2, <2>3, MessageKinds, SendOK, TransferToShutdownOK
  <2>5. up' = up /\ drops' = drops /\ issued' \in [Peers -> Nat]
    BY <1>4, <1>8 DEF ShutdownCommand
  <2> QED
    BY <2>1, <2>4, <2>5, CommandInv DEF t
<1>9. CASE ForceShutdownCommand(p)
  <2> DEFINE t == [s EXCEPT !.state = "ShuttingDown", !.flags = {"WAITING"},
                            !.on_chain = "Commitment"]
  <2>1. ChannelInv(t)
    BY <1>3, ForcedOK
  <2>2. Command(p, t) /\ up' = up /\ drops' = drops /\ issued' = issued
    BY <1>9, Zenon DEF ForceShutdownCommand, s
  <2> HIDE DEF t
  <2> QED
    BY <1>4, <2>1, <2>2, CommandInv
<1>10. CASE CheckActiveChannel(p)
  <2> DEFINE t == [s EXCEPT !.force_close = "PeerSilent"]
  <2>1. ChannelInv(t)
    BY <1>3, ForceCloseOK
  <2>2. Command(p, t) /\ up' = up /\ drops' = drops /\ issued' = issued
    BY <1>10, Zenon DEF CheckActiveChannel, s
  <2> HIDE DEF t
  <2> QED
    BY <1>4, <2>1, <2>2, CommandInv
<1>11. CASE MaintainChannelTlcs(p)
  <2> DEFINE t == [s EXCEPT !.force_close = "Stalled"]
  <2>1. ChannelInv(t)
    BY <1>3, ForceCloseOK
  <2>2. Command(p, t) /\ up' = up /\ drops' = drops /\ issued' = issued
    BY <1>11, Zenon DEF MaintainChannelTlcs, s
  <2> HIDE DEF t
  <2> QED
    BY <1>4, <2>1, <2>2, CommandInv
<1>12. CASE RunCommitmentSignedCommand(p)
  <2> DEFINE r == handle_commitment_signed_command(s, <<>>)
             t == Answered(r)
  <2>1. <<>> \in Seq(TlcUpdate)
    OBVIOUS
  <2>2. ChannelInv(r)
    BY <1>3, <2>1, CommitmentSignedCommandOK
  <2> HIDE DEF r
  <2>3. ChannelInv(t)
    BY <2>2, RefusedOK
  <2>4. Processed(p, t) /\ link[p] # <<>>
    BY <1>12, Zenon DEF RunCommitmentSignedCommand, s, r
  <2> HIDE DEF t
  <2> QED
    BY <2>3, <2>4, ProcessedInv
<1>13. CASE RunRetryTask(p)
  <2> DEFINE a == [s EXCEPT !.retry_timer = FALSE]
             r == apply_retryable_tlc_operations(a)
             t == schedule_unless_reestablishing(r)
  <2>1. ChannelInv(a)
    BY <1>3, RetryTaskOK
  <2> HIDE DEF a
  <2>2. ChannelInv(r)
    BY <2>1, ApplyRetryableOK
  <2> HIDE DEF r
  <2>3. ChannelInv(t)
    BY <2>2, ConnectionOK DEF schedule_unless_reestablishing
  <2>4. Command(p, t) /\ up' = up /\ drops' = drops /\ issued' = issued
    BY <1>13, Zenon DEF RunRetryTask, s, a, r
  <2> HIDE DEF t
  <2> QED
    BY <1>4, <2>3, <2>4, CommandInv
<1>14. CASE ReceiveTlcUpdate(p)
  <2>1. link[p] # <<>> /\ m.type \in {"AddTlc", "RemoveTlc"} /\ Processed(p, receive_tlc_update(s, m))
    BY <1>14, Zenon DEF ReceiveTlcUpdate, Incoming, s, m
  <2> QED
    BY <1>3, <1>5, <2>1, MessageByType, ReceiveTlcUpdateOK, ProcessedInv
<1>15. CASE ReceiveCommitmentSigned(p)
  <2>1. /\ link[p] # <<>> /\ m.type \in {"CommitmentSigned"}
        /\ Processed(p, handle_commitment_signed_peer_message(s, m))
    BY <1>15, Zenon DEF ReceiveCommitmentSigned, Incoming, s, m
  <2> QED
    BY <1>3, <1>5, <2>1, MessageByType, CommitmentSignedOK, ProcessedInv
<1>16. CASE ReceiveRevokeAndAck(p)
  <2>1. /\ link[p] # <<>> /\ m.type \in {"RevokeAndAck"}
        /\ \E refused \in SUBSET newly_committed(handle_revoke_and_ack_peer_message(s, m)) :
              Processed(p, receive_revoke_and_ack(s, m, refused))
    BY <1>16, Zenon DEF ReceiveRevokeAndAck, Incoming, s, m
  <2>2. PICK refused \in SUBSET newly_committed(handle_revoke_and_ack_peer_message(s, m)) :
              Processed(p, receive_revoke_and_ack(s, m, refused))
    BY <2>1, Zenon
  <2>3. refused \in SUBSET TlcIds
    BY DEF newly_committed
  <2>4. m \in RevokeAndAck
    BY <1>5, <2>1, MessageByType
  <2> QED
    BY <1>3, <2>1, <2>2, <2>3, <2>4, ReceiveRevokeAndAckOK, ProcessedInv
<1>17. CASE ReceiveShutdown(p)
  <2>1. /\ link[p] # <<>> /\ m.type \in {"Shutdown"}
        /\ Processed(p, handle_shutdown_peer_message(s, m))
    BY <1>17, Zenon DEF ReceiveShutdown, Incoming, s, m
  <2> QED
    BY <1>3, <1>5, <2>1, MessageByType, ShutdownHandlersOK, ProcessedInv
<1>18. CASE ReceiveClosingSigned(p)
  <2>1. /\ link[p] # <<>> /\ m.type \in {"ClosingSigned"}
        /\ Processed(p, handle_closing_signed(s, m))
    BY <1>18, Zenon DEF ReceiveClosingSigned, Incoming, s, m
  <2> QED
    BY <1>3, <1>5, <2>1, MessageByType, ShutdownHandlersOK, ProcessedInv
<1>19. CASE ReceiveReestablishChannel(p)
  <2> DEFINE t == receive_reestablish_channel(s, m)
             queue == Tail(link[p])
  <2>1. /\ link[p] # <<>>
        /\ \/ Commit(p, t, queue)
           \/ \E k \in 0..Len(queue) :
                 Commit(p, t, SubSeq(queue, 1, k) \o <<CommitmentSignedCommand>>
                                  \o SubSeq(queue, k + 1, Len(queue)))
        /\ up' = up /\ issued' = issued /\ drops' = drops
    BY <1>19, Zenon DEF ReceiveReestablishChannel, CommitWithCommand, Incoming, s, m
  <2>2. ChannelInv(t)
    BY <1>3, ReceiveReestablishOK
  <2>3. queue \in Seq(Message)
    BY <1>5, <2>1
  <2> HIDE DEF t, queue
  <2>4. ASSUME NEW k \in 0..Len(queue)
        PROVE  SubSeq(queue, 1, k) \o <<CommitmentSignedCommand>>
                   \o SubSeq(queue, k + 1, Len(queue)) \in Seq(Message)
    <3>1. SubSeq(queue, 1, k) \in Seq(Message) /\ SubSeq(queue, k + 1, Len(queue)) \in Seq(Message)
      BY <2>3, <2>4
    <3>2. <<CommitmentSignedCommand>> \in Seq(Message)
      BY MessageKinds
    <3> QED
      BY <3>1, <3>2
  <2>5. up' \in [Peers -> BOOLEAN] /\ issued' \in [Peers -> Nat] /\ drops' \in Nat
    BY <1>4, <2>1
  <2> QED
    BY <2>1, <2>2, <2>3, <2>4, <2>5, CommitInv
<1>20. CASE IgnoreWhileReestablishing(p)
  <2>1. link[p] # <<>> /\ Processed(p, s)
    BY <1>20, Zenon DEF IgnoreWhileReestablishing, Incoming, s
  <2> QED
    BY <1>3, <2>1, ProcessedInv
<1>21. CASE PeerDisconnected(p)
  <2> DEFINE t == on_peer_disconnected(s)
             command == <<CommitmentSignedCommand>>
  <2>1. ChannelInv(t) /\ t.out = <<>> /\ ~t.command /\ Ok(t)
    BY <1>3, DisconnectedOK, OfflineSilent, Zenon
  <2>2. ch' = [ch EXCEPT ![p] = t]
    BY <1>21, Zenon DEF PeerDisconnected, s
  <2> HIDE DEF t
  <2>3. command \in Seq(Message) /\ <<>> \in Seq(Message)
    BY MessageKinds
  <2>4. link' = [link EXCEPT ![p] = command] \/ link' = [link EXCEPT ![p] = <<>>]
    BY <1>21, <1>4 DEF PeerDisconnected
  <2> HIDE DEF command
  <2>5. link' \in [Peers -> Seq(Message)]
    BY <1>4, <2>3, <2>4
  <2>6. up' \in [Peers -> BOOLEAN] /\ issued' = issued /\ drops' \in Nat /\ errors' = errors
    BY <1>4, <1>21 DEF PeerDisconnected
  <2> QED
    BY <1>4, <2>1, <2>2, <2>5, <2>6, StoredChannels
<1>22. CASE Restart(p)
  <2> DEFINE t == restore_offline_channel(s)
  <2>1. ChannelInv(t) /\ t.out = <<>> /\ ~t.command /\ Ok(t)
    BY <1>3, ConnectionOK, OfflineSilent, Zenon
  <2>2. ch' = [ch EXCEPT ![p] = t]
    BY <1>22, Zenon DEF Restart, s
  <2> HIDE DEF t
  <2>3. <<>> \in Seq(Message)
    OBVIOUS
  <2>4. link' \in [Peers -> Seq(Message)]
    BY <1>4, <1>22, <2>3 DEF Restart
  <2>5. up' \in [Peers -> BOOLEAN] /\ issued' = issued /\ drops' \in Nat /\ errors' = errors
    BY <1>4, <1>22 DEF Restart
  <2> QED
    BY <1>4, <2>1, <2>2, <2>4, <2>5, StoredChannels
<1>23. CASE PeerReconnected(p)
  <2>1. Commit(p, on_peer_reconnected(s), link[p]) /\ up' = up /\ issued' = issued /\ drops' = drops
    BY <1>23, Zenon DEF PeerReconnected, s
  <2>2. ChannelInv(on_peer_reconnected(s)) /\ link[p] \in Seq(Message)
    BY <1>3, <1>4, ReconnectedOK
  <2> QED
    BY <1>4, <2>1, <2>2, CommitInv
<1> QED
  BY <1>6, <1>7, <1>8, <1>9, <1>10, <1>11, <1>12, <1>13, <1>14, <1>15, <1>16, <1>17,
     <1>18, <1>19, <1>20, <1>21, <1>22, <1>23, Zenon

-----------------------------------------------------------------------------
(* The theorems.                                                           *)

(* Both peers start with books that add up to the same total. *)
LEMMA SameTotal ==
    ASSUME NEW p \in Peers
    PROVE  /\ Balance[p] \in Nat /\ Balance[Other(p)] \in Nat
           /\ Balance[p] + Balance[Other(p)] = Total
<1> DEFINE q == CHOOSE q \in Peers : TRUE
<1>1. q \in Peers
  OBVIOUS
<1> HIDE DEF q
<1>2. Other(p) \in Peers /\ Other(q) \in Peers
  BY <1>1, OtherPeer
<1>3. \A r \in Peers : Balance[r] \in Nat
  BY ChannelAssumption
<1>4. q = p \/ (q = Other(p) /\ Other(q) = p)
  BY <1>1, OtherPeer
<1>5. Total = Balance[q] + Balance[Other(q)]
  BY DEF Total, q
<1> QED
  BY <1>2, <1>3, <1>4, <1>5

(* A channel that has just become ready satisfies the inductive invariant. *)
LEMMA InitInv ==
    ASSUME Init
    PROVE  IInv
<1>1. \A p \in Peers : ChannelInv(NewChannel(Balance[p], Balance[Other(p)]))
  BY SameTotal, NewChannelOK
<1>2. \A p \in Peers : LET s == NewChannel(Balance[p], Balance[Other(p)])
                       IN  s.out = <<>> /\ ~s.command /\ Ok(s)
  BY DEF NewChannel, Ok
<1>3. DOMAIN ch = Peers /\ \A p \in Peers : ch[p] = NewChannel(Balance[p], Balance[Other(p)])
  BY DEF Init
<1>4. \A p \in Peers : /\ ChannelInv(ch[p]) /\ ChannelOK(ch[p])
                       /\ ch[p].out = <<>> /\ ~ch[p].command /\ Ok(ch[p])
  BY <1>1, <1>2, <1>3 DEF ChannelInv
<1>5. <<>> \in Seq(Message)
  OBVIOUS
<1>6. /\ link \in [Peers -> Seq(Message)] /\ up \in [Peers -> BOOLEAN]
      /\ issued \in [Peers -> Nat] /\ drops \in Nat /\ errors \in [Peers -> SUBSET Errors]
  BY <1>5 DEF Init
<1> QED
  BY <1>3, <1>4, <1>6 DEF IInv, TypeOK

(* The inductive invariant holds throughout. *)
THEOREM Invariance == Spec => []IInv
<1>1. Init => IInv
  BY InitInv
<1>2. IInv /\ [Next]_vars => IInv'
  BY NextInv
<1> QED
  BY <1>1, <1>2, PTL DEF Spec

(* Every handler of the channel actor keeps the types of the channel's     *)
(* state, messages and error log.                                          *)
THEOREM TypeCorrect == Spec => []TypeOK
<1>1. IInv => TypeOK
  BY DEF IInv
<1> QED
  BY <1>1, Invariance, PTL

(* No settlement, replay, restart or close creates or loses funds: in each *)
(* peer's books to_local and to_remote keep adding up to the funding.      *)
THEOREM Conservation == Spec => []FundsConserved
<1>1. IInv => FundsConserved
  BY SameTotal DEF IInv, ChannelInv, FundsConserved
<1> QED
  BY <1>1, Invariance, PTL

(* While an acknowledgement is awaited the stored CommitDiff is the one    *)
(* that ReestablishChannel has to replay.                                  *)
THEOREM ReplayableDiff == Spec => []StoredDiffIsCurrent
<1>1. IInv => StoredDiffIsCurrent
  BY DEF IInv, ChannelInv, StoredDiffIsCurrent
<1> QED
  BY <1>1, Invariance, PTL

=============================================================================
