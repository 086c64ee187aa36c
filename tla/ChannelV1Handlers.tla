-------------------------- MODULE ChannelV1Handlers --------------------------
(***************************************************************************)
(* The V1 channel's handlers preserve ChannelInv: the types of the channel *)
(* state, the conservation of funds, and that the CommitDiff kept for a    *)
(* replay is the current one.  One lemma per handler that sends a          *)
(* commitment or a TLC update, takes one, or runs the shutdown; the        *)
(* handlers of commitments, acknowledgements and the reestablishment       *)
(* follow in ChannelV1Proofs.                                              *)
(***************************************************************************)
EXTENDS ChannelV1, FiniteSetTheorems, SequenceTheorems, WellFoundedInduction, TLAPS

(* What the channel was funded with. *)
Total == LET p == CHOOSE p \in Peers : TRUE IN Balance[p] + Balance[Other(p)]

(* The inductive invariant of one channel state. *)
ChannelInv(s) ==
    /\ ChannelOK(s)
    /\ s.to_local + s.to_remote = Total
    /\ DiffIsCurrent(s)

-----------------------------------------------------------------------------
(* Facts about numbers, sets and sequences.                                *)

(* A nonempty set of natural numbers has a least element. *)
LEMMA LeastNatural ==
    ASSUME NEW T, T \subseteq Nat, T # {}
    PROVE  \E x \in T : \A y \in T : x <= y
<1> DEFINE R == OpToRel(<, Nat)
<1>1. IsWellFoundedOn(R, Nat)
  BY NatLessThanWellFounded
<1>2. PICK x \in T : \A y \in T : ~(<<y, x>> \in R)
  BY <1>1, WFMin
<1>3. \A y \in T : ~(y < x)
  BY <1>2 DEF OpToRel
<1> QED
  BY <1>3

(* The ids a bounded run may use are finitely many numbers. *)
LEMMA TlcIdsFinite == IsFiniteSet(TlcIds) /\ TlcIds \subseteq Nat
  BY ChannelAssumption, FS_Interval DEF TlcIds

(* InOrder lists members of the set it is given, and only those: counting  *)
(* the members up to each one is a bijection onto 1..Cardinality.          *)
LEMMA InOrderType ==
    ASSUME NEW ids, ids \subseteq TlcIds
    PROVE  /\ Cardinality(ids) \in Nat
           /\ DOMAIN InOrder(ids) = 1..Cardinality(ids)
           /\ \A k \in 1..Cardinality(ids) : InOrder(ids)[k] \in ids
<1> DEFINE upto(i) == {j \in ids : j <= i}
           n == Cardinality(ids)
           rank == [i \in ids |-> Cardinality(upto(i))]
<1>1. IsFiniteSet(ids) /\ ids \subseteq Nat
  BY TlcIdsFinite, FS_Subset
<1>2. n \in Nat
  BY <1>1, FS_CardinalityType
<1>3. \A i \in ids : IsFiniteSet(upto(i)) /\ Cardinality(upto(i)) \in 1..n
  <2> TAKE i \in ids
  <2>1. upto(i) \in SUBSET ids
    OBVIOUS
  <2>2. IsFiniteSet(upto(i)) /\ Cardinality(upto(i)) <= n
    BY <1>1, <2>1, FS_Subset
  <2>3. Cardinality(upto(i)) \in Nat
    BY <2>2, FS_CardinalityType
  <2>4. i \in upto(i)
    BY <1>1
  <2>5. Cardinality(upto(i)) # 0
    BY <2>2, <2>4, FS_EmptySet
  <2> QED
    BY <1>2, <2>2, <2>3, <2>5
<1>4. \A i, j \in ids : i < j => Cardinality(upto(i)) # Cardinality(upto(j))
  <2> TAKE i, j \in ids
  <2> HAVE i < j
  <2>1. upto(i) \in SUBSET upto(j)
    <3>1. i \in Int /\ j \in Int /\ \A k \in ids : k \in Int
      BY <1>1
    <3>2. \A k \in ids : k <= i => k <= j
      BY <3>1
    <3> QED
      BY <3>2
  <2>2. j \in upto(j) /\ j \notin upto(i)
    BY <1>1
  <2>3. IsFiniteSet(upto(j))
    BY <1>3
  <2>4. Cardinality(upto(j)) = Cardinality(upto(i)) => upto(j) = upto(i)
    <3> HIDE DEF upto
    <3> QED
      BY <2>1, <2>3, FS_Subset
  <2> QED
    BY <2>2, <2>4
<1>5. rank \in Injection(ids, 1..n)
  <2>1. rank \in [ids -> 1..n]
    BY <1>3
  <2>2. \A i, j \in ids : rank[i] = rank[j] => i = j
    BY <1>1, <1>4
  <2> QED
    BY <2>1, <2>2 DEF Injection, IsInjective
<1>6. IsFiniteSet(1..n) /\ Cardinality(1..n) = n
  BY <1>2, FS_Interval
<1>7. rank \in Surjection(ids, 1..n)
  BY <1>5, <1>6, FS_Injection
<1>8. \A k \in 1..n : \E i \in ids : Cardinality(upto(i)) = k
  BY <1>7 DEF Surjection
<1> QED
  BY <1>2, <1>8 DEF InOrder

-----------------------------------------------------------------------------
(* Records: the fields of a channel, and messages of the right type.       *)

(* The fields of a channel state, spelled out. *)
LEMMA FieldNames ==
    Fields = {"state", "flags", "local", "remote", "waiting_ack", "offered", "received",
              "next_offered", "next_received", "to_local", "to_remote", "committed_nonce",
              "rev_send", "rev_verify", "rev_next", "points", "last_raa", "last_was_revoke",
              "diff", "reestablishing", "connectivity", "pending_ready", "ack_wait",
              "handshake_wait", "deferring", "deferred", "retry", "retry_timer",
              "local_shutdown", "remote_shutdown", "local_sig", "remote_sig", "force_close",
              "on_chain", "out", "command", "err"}
  BY DEF Fields, NewChannel

(* Everything the handlers send is a message. *)
LEMMA MessageKinds ==
    /\ TlcUpdate \subseteq Message
    /\ CommitmentSigned \subseteq Message
    /\ RevokeAndAck \subseteq Message
    /\ ClosingSigned \subseteq Message
    /\ \A terms \in ShutdownTerms : Shutdown(terms) \in Message
    /\ CommitmentSignedCommand \in Message
  BY DEF Message, Shutdown

(* The TLC messages the handlers build are well typed. *)
LEMMA UpdateType ==
    /\ \A id \in Nat, amount \in Nat : AddTlc(id, amount) \in TlcUpdate
    /\ \A id \in Nat, reason \in RemoveTlcReason \cup {"None"} : RemoveTlc(id, reason) \in TlcUpdate
  BY DEF AddTlc, RemoveTlc, TlcUpdate

(* The TLCs create_outbounding_tlc and create_inbounding_tlc build are     *)
(* well typed.                                                             *)
LEMMA TlcType ==
    /\ NoTlc \in Tlc
    /\ \A amount, local, remote \in Nat :
          /\ TlcInfo("LocalAnnounced", amount, local, remote) \in Tlc
          /\ TlcInfo("RemoteAnnounced", amount, local, remote) \in Tlc
  BY DEF NoTlc, TlcInfo, Tlc, OutboundTlcStatus, InboundTlcStatus

(* The acknowledgements the handlers build are well typed. *)
LEMMA RevokeAndAckType ==
    \A m, n, k \in Nat :
        [type |-> "RevokeAndAck", number |-> m, nonce |-> n, next |-> k] \in RevokeAndAck
  BY DEF RevokeAndAck

(* The statuses a TLC may be given. *)
LEMMA LadderType ==
    ASSUME NEW t \in Tlc, NEW b \in BOOLEAN
    PROVE  /\ offered_on_commitment_signed(t, b) \in Tlc
           /\ received_on_commitment_signed(t, b) \in Tlc
           /\ offered_on_revoke_and_ack(t) \in Tlc
           /\ received_on_revoke_and_ack(t) \in Tlc
<1>1. \A st \in OutboundTlcStatus \cup InboundTlcStatus : [t EXCEPT !.status = st] \in Tlc
  BY DEF Tlc
<1> QED
  BY <1>1 DEF offered_on_commitment_signed, received_on_commitment_signed,
              offered_on_revoke_and_ack, received_on_revoke_and_ack,
              OutboundTlcStatus, InboundTlcStatus

(* A new channel has the type of a channel. *)
LEMMA NewChannelOK ==
    ASSUME NEW a \in Nat, NEW b \in Nat, a + b = Total
    PROVE  ChannelInv(NewChannel(a, b))
<1>1. NoSignature \in ClosingSigned
  BY DEF NoSignature, ClosingSigned
<1>2. NoRevokeAndAck \in RevokeAndAck
  BY RevokeAndAckType DEF NoRevokeAndAck
<1>3. NoCommitDiff \in CommitDiff
  BY DEF NoCommitDiff, CommitDiff
<1>4. DOMAIN NewChannel(a, b) = Fields
  BY FieldNames DEF NewChannel
<1>5. [i \in TlcIds |-> NoTlc] \in [TlcIds -> Tlc]
  BY TlcType
<1>6. <<>> \in Seq(TlcUpdate) /\ <<>> \in Seq(Message)
  OBVIOUS
<1>7. InitialNumber \in Nat /\ InitialNumber - 1 \in Nat /\ None \in Nat
  BY DEF InitialNumber, None
<1> QED
  BY <1>1, <1>2, <1>3, <1>4, <1>5, <1>6, <1>7 DEF NewChannel, ChannelInv, ChannelOK, DiffIsCurrent, Errors

-----------------------------------------------------------------------------
(* Sending, and the handlers that only set fields.                         *)

(* Sending a message keeps the invariant. *)
LEMMA SendOK ==
    ASSUME NEW s, ChannelInv(s), NEW m \in Message
    PROVE  ChannelInv(Send(s, m))
  BY SMTT(60), FieldNames DEF Send, ChannelInv, ChannelOK, DiffIsCurrent

(* Sending several messages keeps the invariant. *)
LEMMA SendAllOK ==
    ASSUME NEW s, ChannelInv(s), NEW ms \in Seq(Message)
    PROVE  ChannelInv(SendAll(s, ms))
  BY SMTT(60), FieldNames DEF SendAll, ChannelInv, ChannelOK, DiffIsCurrent

(* Returning an error keeps the invariant. *)
LEMMA FailOK ==
    ASSUME NEW s, ChannelInv(s), NEW e \in Errors
    PROVE  ChannelInv(Fail(s, e))
  BY SMTT(60), FieldNames DEF Fail, ChannelInv, ChannelOK, DiffIsCurrent

(* Going offline keeps the invariant. *)
LEMMA OfflineOK ==
    ASSUME NEW s, ChannelInv(s), NEW b \in BOOLEAN
    PROVE  ChannelInv([s EXCEPT !.reestablishing = b, !.connectivity = "Offline"])
  BY SMTT(60), FieldNames DEF ChannelInv, ChannelOK, DiffIsCurrent

(* on_peer_disconnected keeps the invariant: the diff to replay survives. *)
LEMMA DisconnectedOK ==
    ASSUME NEW s, ChannelInv(s)
    PROVE  ChannelInv(on_peer_disconnected(s))
<1> DEFINE d == [s EXCEPT !.deferring = FALSE, !.deferred = <<>>,
                          !.ack_wait = FALSE, !.handshake_wait = FALSE]
<1>1. ChannelInv(d)
  <2>1. <<>> \in Seq(TlcUpdate)
    OBVIOUS
  <2> QED
    BY SMTT(60), <2>1, FieldNames DEF ChannelInv, ChannelOK, DiffIsCurrent
<1> HIDE DEF d
<1>2. /\ ChannelInv([d EXCEPT !.reestablishing = FALSE, !.connectivity = "Offline"])
      /\ ChannelInv(mark_reestablishing_offline(d))
  BY <1>1, OfflineOK DEF mark_reestablishing_offline
<1> QED
  BY <1>2 DEF on_peer_disconnected, d

(* So do finishing a handshake, a restart, and arming the retry task. *)
LEMMA ConnectionOK ==
    ASSUME NEW s, ChannelInv(s)
    PROVE  /\ ChannelInv(on_reestablished_channel_ready(s))
           /\ ChannelInv(restore_offline_channel(s))
           /\ ChannelInv(schedule_next_retry_task(s))
           /\ ChannelInv(restore_missing_revocation_send_nonce(s))
<1>1. ChannelInv(on_reestablished_channel_ready(s))
  BY SMTT(60), FieldNames DEF on_reestablished_channel_ready, ChannelInv, ChannelOK, DiffIsCurrent
<1>3. ChannelInv([s EXCEPT !.pending_ready = FALSE, !.retry_timer = FALSE])
  BY SMTT(60), FieldNames DEF ChannelInv, ChannelOK, DiffIsCurrent
<1>4. ChannelInv(restore_offline_channel(s))
  BY <1>3, DisconnectedOK DEF restore_offline_channel
<1>5. ChannelInv(schedule_next_retry_task(s))
  BY SMTT(60), FieldNames DEF schedule_next_retry_task, ChannelInv, ChannelOK, DiffIsCurrent
<1>6. ChannelInv(restore_missing_revocation_send_nonce(s))
  BY SMTT(60), FieldNames DEF restore_missing_revocation_send_nonce, ChannelInv, ChannelOK, DiffIsCurrent
<1> QED
  BY <1>1, <1>4, <1>5, <1>6

(* Pruning commitment points keeps the invariant. *)
LEMMA PruneOK ==
    ASSUME NEW s, ChannelInv(s)
    PROVE  ChannelInv(prune_remote_commitment_points(s))
  BY SMTT(60), FieldNames DEF prune_remote_commitment_points, ChannelInv, ChannelOK, DiffIsCurrent

(* Dropping failed TLCs moves no funds. *)
LEMMA CleanUpOK ==
    ASSUME NEW s, ChannelInv(s)
    PROVE  ChannelInv(clean_up_failed_tlcs(s))
<1> DEFINE Done(t) == removed_confirmed(t) /\ "REMOVE" \in t.applied
           Cleaned(tlcs) == [i \in TlcIds |-> IF Done(tlcs[i]) THEN NoTlc ELSE tlcs[i]]
           c == [s EXCEPT !.offered = Cleaned(@), !.received = Cleaned(@)]
<1>1. Cleaned(s.offered) \in [TlcIds -> Tlc] /\ Cleaned(s.received) \in [TlcIds -> Tlc]
  BY TlcType DEF ChannelInv, ChannelOK, DiffIsCurrent
<1>2. ChannelInv(c)
  <2> HIDE DEF Cleaned
  <2> QED
    BY SMTT(60), <1>1, FieldNames DEF ChannelInv, ChannelOK, DiffIsCurrent
<1>3. ChannelInv(prune_remote_commitment_points(c))
  BY <1>2, PruneOK
<1> QED
  BY <1>3 DEF clean_up_failed_tlcs

(* send_revoke_and_ack_message keeps the invariant, fresh or resent. *)
LEMMA RevokeAndAckOK ==
    ASSUME NEW s, ChannelInv(s), NEW resend \in BOOLEAN
    PROVE  ChannelInv(send_revoke_and_ack_message(s, resend))
<1> DEFINE raa == [type |-> "RevokeAndAck", number |-> s.remote, nonce |-> s.rev_send,
                   next |-> s.remote + 1]
           last == s.rev_verify = None
           cached == [s EXCEPT !.last_was_revoke = TRUE]
           fresh == [s EXCEPT !.remote = @ + 1, !.last_raa = raa, !.last_was_revoke = TRUE,
                              !.rev_send = IF last THEN s.rev_next ELSE None,
                              !.rev_verify = IF last THEN s.rev_next ELSE @]
<1>1. raa \in RevokeAndAck
  BY RevokeAndAckType DEF ChannelInv, ChannelOK, DiffIsCurrent
<1>2. ChannelInv(fresh)
  <2> HIDE DEF raa
  <2> QED
    BY SMTT(60), <1>1, FieldNames DEF ChannelInv, ChannelOK, DiffIsCurrent, None
<1>3. ChannelInv(cached) /\ s.last_raa \in RevokeAndAck
  BY SMTT(60), FieldNames DEF ChannelInv, ChannelOK, DiffIsCurrent
<1>4. ChannelInv(Send(fresh, raa)) /\ ChannelInv(Send(cached, s.last_raa))
  <2> HIDE DEF raa, fresh, cached
  <2> QED
    BY <1>1, <1>2, <1>3, MessageKinds, SendOK
<1>5. ChannelInv(Fail(s, "NoCachedAck"))
  BY FailOK DEF Errors
<1> QED
  BY <1>4, <1>5 DEF send_revoke_and_ack_message

-----------------------------------------------------------------------------
(* Cooperative shutdown.                                                   *)

(* The closing signature of a channel is a ClosingSigned message. *)
LEMMA ClosingSignatureType ==
    ASSUME NEW s, ChannelInv(s)
    PROVE  closing_signature(s) \in ClosingSigned
  BY DEF closing_signature, ClosingSigned, ChannelInv, ChannelOK, DiffIsCurrent

(* Setting shutdown flags and signatures keeps the invariant. *)
LEMMA FlagsOK ==
    ASSUME NEW s, ChannelInv(s), NEW sig \in ClosingSigned
    PROVE  /\ ChannelInv([s EXCEPT !.flags = @ \cup {"DROPPING"}, !.ack_wait = FALSE])
           /\ ChannelInv([s EXCEPT !.flags = {"WAITING"}, !.on_chain = "Closing"])
           /\ ChannelInv([s EXCEPT !.local_sig = sig])
<1>1. ChannelInv([s EXCEPT !.flags = @ \cup {"DROPPING"}, !.ack_wait = FALSE])
  BY SMTT(60), FieldNames DEF ChannelInv, ChannelOK, DiffIsCurrent
<1>2. ChannelInv([s EXCEPT !.flags = {"WAITING"}, !.on_chain = "Closing"])
  BY SMTT(60), FieldNames DEF ChannelInv, ChannelOK, DiffIsCurrent
<1>3. ChannelInv([s EXCEPT !.local_sig = sig])
  BY SMTT(60), FieldNames DEF ChannelInv, ChannelOK, DiffIsCurrent
<1> QED
  BY <1>1, <1>2, <1>3

(* maybe_transfer_to_shutdown signs the close without moving funds. *)
LEMMA TransferToShutdownOK ==
    ASSUME NEW s, ChannelInv(s)
    PROVE  ChannelInv(maybe_transfer_to_shutdown(s))
<1> DEFINE d == [s EXCEPT !.flags = @ \cup {"DROPPING"}, !.ack_wait = FALSE]
           sig == IF s.local_sig = NoSignature THEN closing_signature(s) ELSE s.local_sig
           signed == IF s.local_sig = NoSignature
                     THEN Send([d EXCEPT !.local_sig = sig], sig) ELSE d
<1>1. s.local_sig \in ClosingSigned /\ closing_signature(s) \in ClosingSigned
  BY ClosingSignatureType DEF ChannelInv, ChannelOK, DiffIsCurrent
<1>2. sig \in ClosingSigned /\ sig \in Message
  BY <1>1, MessageKinds
<1>3. ChannelInv(d)
  BY <1>1, FlagsOK
<1> HIDE DEF d, sig
<1>4. ChannelInv(signed)
  BY <1>2, <1>3, FlagsOK, SendOK
<1> HIDE DEF signed
<1>5. /\ ChannelInv([signed EXCEPT !.flags = {"WAITING"}, !.on_chain = "Closing"])
      /\ ChannelInv(Fail(signed, "ClosingMismatch"))
  BY <1>2, <1>4, FlagsOK, FailOK DEF Errors
<1> QED
  BY <1>3, <1>4, <1>5 DEF maybe_transfer_to_shutdown, d, sig, signed

(* Recording the shutdown flags keeps the invariant. *)
LEMMA SteppedOK ==
    ASSUME NEW s, ChannelInv(s), NEW flags \in SUBSET {"OUR", "THEIR", "DROPPING", "WAITING"}
    PROVE  /\ ChannelInv([s EXCEPT !.state = "ShuttingDown", !.flags = flags])
           /\ ChannelInv([s EXCEPT !.local_shutdown = "Reply", !.local_sig = NoSignature])
<1>1. NoSignature \in ClosingSigned
  BY DEF NoSignature, ClosingSigned
<1>2. ChannelInv([s EXCEPT !.state = "ShuttingDown", !.flags = flags])
  BY SMTT(60), FieldNames DEF ChannelInv, ChannelOK, DiffIsCurrent
<1>3. ChannelInv([s EXCEPT !.local_shutdown = "Reply", !.local_sig = NoSignature])
  BY SMTT(60), <1>1, FieldNames DEF ChannelInv, ChannelOK, DiffIsCurrent, ShutdownTerms
<1> QED
  BY <1>2, <1>3

(* step_shutting_down keeps the invariant. *)
LEMMA StepShuttingDownOK ==
    ASSUME NEW s, ChannelInv(s), NEW flags \in SUBSET {"OUR", "THEIR", "DROPPING", "WAITING"}
    PROVE  ChannelInv(step_shutting_down(s, flags))
<1> DEFINE reply == flags = {"THEIR"} /\ s.remote_shutdown \in {"Default", "Custom"}
           told == [s EXCEPT !.local_shutdown = "Reply", !.local_sig = NoSignature]
           r == IF reply THEN Send(told, Shutdown("Reply")) ELSE s
           f == IF reply THEN flags \cup {"OUR"} ELSE flags
<1>1. ChannelInv(told)
  BY SteppedOK
<1>2. Shutdown("Reply") \in Message
  BY MessageKinds DEF ShutdownTerms
<1>3. f \in SUBSET {"OUR", "THEIR", "DROPPING", "WAITING"}
  OBVIOUS
<1> HIDE DEF told
<1>4. ChannelInv(r)
  BY <1>1, <1>2, SendOK
<1> HIDE DEF r, f
<1>5. ChannelInv(maybe_transfer_to_shutdown([r EXCEPT !.state = "ShuttingDown", !.flags = f]))
  BY <1>3, <1>4, SteppedOK, TransferToShutdownOK
<1> QED
  BY <1>5 DEF step_shutting_down, r, f, told

(* The handlers of Shutdown and ClosingSigned keep the invariant. *)
LEMMA ShutdownHandlersOK ==
    ASSUME NEW s, ChannelInv(s)
    PROVE  /\ \A m : m.terms \in ShutdownTerms => ChannelInv(handle_shutdown_peer_message(s, m))
           /\ \A m \in ClosingSigned : ChannelInv(handle_closing_signed(s, m))
<1>1. ASSUME NEW m, m.terms \in ShutdownTerms
      PROVE  ChannelInv(handle_shutdown_peer_message(s, m))
  <2> DEFINE t == [s EXCEPT !.remote_shutdown = m.terms, !.remote_sig = NoSignature]
             f == s.flags \cup {"THEIR"}
  <2>1. NoSignature \in ClosingSigned
    BY DEF NoSignature, ClosingSigned
  <2>2. ChannelInv(t) /\ f \in SUBSET {"OUR", "THEIR", "DROPPING", "WAITING"}
    BY SMTT(60), <1>1, <2>1, FieldNames DEF ChannelInv, ChannelOK, DiffIsCurrent
  <2> HIDE DEF t, f
  <2>3. ChannelInv(step_shutting_down(t, f))
    BY <2>2, StepShuttingDownOK
  <2>4. /\ ChannelInv(Fail(s, "ShutdownWithPendingInbound"))
        /\ ChannelInv(Fail(s, "RepeatedShutdown"))
    BY FailOK DEF Errors
  <2> QED
    BY <2>3, <2>4 DEF handle_shutdown_peer_message, t, f
<1>2. ASSUME NEW m \in ClosingSigned
      PROVE  ChannelInv(handle_closing_signed(s, m))
  <2>1. ChannelInv([s EXCEPT !.remote_sig = m])
    BY SMTT(60), FieldNames DEF ChannelInv, ChannelOK, DiffIsCurrent
  <2> QED
    BY <2>1, TransferToShutdownOK DEF handle_closing_signed
<1> QED
  BY <1>1, <1>2

-----------------------------------------------------------------------------
(* Commitments.  A commitment that can be built has the type of one.       *)

(* The commitment transaction a channel builds is well typed. *)
LEMMA CommitmentType ==
    ASSUME NEW s, ChannelInv(s), can_build_commitment_tx(s, TRUE)
    PROVE  commitment_tx(s, TRUE) \in Commitment
<1> DEFINE tx == commitment_tx(s, TRUE)
           E == [by : {"signer", "verifier"}, id : TlcIds, amount : Nat,
                 signer_key : Nat, verifier_key : Nat]
           Entry(t, i, by) == [by |-> by, id |-> i, amount |-> t.amount,
                               signer_key |-> t.at.remote, verifier_key |-> t.at.local]
<1>1. tx.signer \in Nat /\ tx.verifier \in Nat
  <2>1. {tx.signer, tx.verifier} \subseteq 0..MaxU128
    BY Zenon DEF can_build_commitment_tx, buildable
  <2> HIDE DEF tx
  <2> QED
    BY <2>1, ChannelAssumption
<1>2. \A t \in Tlc, i \in TlcIds, by \in {"signer", "verifier"} : Entry(t, i, by) \in E
  BY DEF Tlc
<1>3. \A i \in TlcIds : s.offered[i] \in Tlc /\ s.received[i] \in Tlc
  BY DEF ChannelInv, ChannelOK, DiffIsCurrent
<1>4. /\ commitment_signed_tlcs(s.offered, TRUE) \subseteq TlcIds
      /\ commitment_signed_tlcs(s.received, TRUE) \subseteq TlcIds
  BY DEF commitment_signed_tlcs, ChannelInv, ChannelOK, DiffIsCurrent
<1>5. tx.tlcs = {Entry(s.offered[i], i, "signer") : i \in commitment_signed_tlcs(s.offered, TRUE)}
                \cup {Entry(s.received[i], i, "verifier")
                         : i \in commitment_signed_tlcs(s.received, TRUE)}
  BY DEF commitment_tx, commitment_content
<1>6. tx.tlcs \subseteq E
  <2> HIDE DEF Entry, E, tx
  <2> QED
    BY <1>2, <1>3, <1>4, <1>5
<1>7. tx.version \in Nat
  BY DEF commitment_tx, commitment_content, ChannelInv, ChannelOK, DiffIsCurrent
<1>8. tx = [version |-> tx.version, signer |-> tx.signer, verifier |-> tx.verifier,
            tlcs |-> tx.tlcs]
  BY DEF commitment_tx, commitment_content
<1>9. tx \in Commitment
  <2> HIDE DEF tx
  <2> QED
    BY <1>1, <1>6, <1>7, <1>8 DEF Commitment
<1> QED
  BY <1>9, Zenon

(* The CommitmentSigned made of it is well typed. *)
LEMMA CommitmentSignedType ==
    \A own, peer, next \in Nat, tx \in Commitment :
        [type |-> "CommitmentSigned", own |-> own, peer |-> peer, content |-> tx, next |-> next]
            \in CommitmentSigned
  BY DEF CommitmentSigned

(* Storing the diff of the commitment just signed keeps the invariant. *)
LEMMA SignedOK ==
    ASSUME NEW s, ChannelInv(s), NEW d \in CommitDiff,
           d.local = s.local, Len(d.signed) = 1, d.signed[1].content.version = s.local
    PROVE  ChannelInv([s EXCEPT !.diff = d, !.last_was_revoke = FALSE,
                               !.waiting_ack = TRUE, !.ack_wait = TRUE])
<1> DEFINE t == [s EXCEPT !.diff = d, !.last_was_revoke = FALSE,
                          !.waiting_ack = TRUE, !.ack_wait = TRUE]
<1>1. ChannelOK(t)
  BY SMTT(60), FieldNames DEF ChannelInv, ChannelOK
<1>2. t.to_local + t.to_remote = Total
  BY SMTT(60), FieldNames DEF ChannelInv, ChannelOK
<1>3. t.diff = d /\ t.local = s.local
  BY SMTT(60), FieldNames DEF ChannelInv, ChannelOK
<1>4. DiffIsCurrent(t)
  BY <1>3 DEF DiffIsCurrent
<1> QED
  BY <1>1, <1>2, <1>4 DEF ChannelInv

(* handle_commitment_signed_command stores a diff that is current. *)
LEMMA CommitmentSignedCommandOK ==
    ASSUME NEW s, ChannelInv(s), NEW updates \in Seq(TlcUpdate)
    PROVE  ChannelInv(handle_commitment_signed_command(s, updates))
<1> DEFINE c == clean_up_failed_tlcs(s)
           signed == [type |-> "CommitmentSigned", own |-> c.local, peer |-> c.committed_nonce,
                      content |-> commitment_tx(c, TRUE), next |-> c.local + 1]
           d == commit_diff(c, updates, signed)
           t == [c EXCEPT !.diff = d, !.last_was_revoke = FALSE,
                          !.waiting_ack = TRUE, !.ack_wait = TRUE]
<1>1. ChannelInv(c)
  BY CleanUpOK
<1>2. ChannelInv(Fail(s, "InvalidState")) /\ ChannelInv(Fail(c, "CannotBuild"))
  BY <1>1, FailOK DEF Errors
<1> HIDE DEF c
<1>3. ASSUME can_build_commitment_tx(c, TRUE)
      PROVE  ChannelInv(maybe_transfer_to_shutdown(Send(t, signed)))
  <2>1. commitment_tx(c, TRUE) \in Commitment
    BY <1>1, <1>3, CommitmentType
  <2>2. c.local \in Nat /\ c.remote \in Nat /\ c.committed_nonce \in Nat
    BY <1>1 DEF ChannelInv, ChannelOK, DiffIsCurrent
  <2>3. c.local + 1 \in Nat
    BY <2>2
  <2>4. signed \in CommitmentSigned
    BY <2>1, <2>2, <2>3, CommitmentSignedType, Zenon
  <2>5. signed.content.version = c.local
    BY DEF commitment_tx, commitment_content
  <2> HIDE DEF signed
  <2>6. d \in CommitDiff /\ d.local = c.local /\ Len(d.signed) = 1 /\ d.signed[1] = signed
    BY <2>2, <2>4 DEF commit_diff, CommitDiff
  <2> HIDE DEF d
  <2>7. ChannelInv(t)
    BY <1>1, <2>5, <2>6, SignedOK
  <2> HIDE DEF t
  <2>8. ChannelInv(Send(t, signed))
    BY <2>4, <2>7, MessageKinds, SendOK
  <2> QED
    BY <2>8, TransferToShutdownOK
<1> QED
  BY <1>2, <1>3
  DEF handle_commitment_signed_command, sign_commitment, send_commitment_signed, c

-----------------------------------------------------------------------------
(* TLC updates.                                                            *)

(* check_remove_tlc answers with one of the errors. *)
LEMMA CheckRemoveType == \A t : check_remove_tlc(t) \in Errors
  BY DEF check_remove_tlc, Errors

(* handle_add_tlc_command keeps the invariant. *)
LEMMA AddTlcCommandOK ==
    ASSUME NEW s, ChannelInv(s), NEW amount \in Nat
    PROVE  ChannelInv(handle_add_tlc_command(s, amount))
<1> DEFINE add == AddTlc(s.next_offered, amount)
           tlc == TlcInfo("LocalAnnounced", amount, s.local, s.remote)
           t == [s EXCEPT !.offered[s.next_offered] = tlc, !.next_offered = @ + 1]
<1>1. s.next_offered \in Nat /\ s.local \in Nat /\ s.remote \in Nat
  BY DEF ChannelInv, ChannelOK, DiffIsCurrent
<1>2. tlc \in Tlc /\ add \in TlcUpdate
  BY <1>1, TlcType, UpdateType
<1> HIDE DEF tlc, add
<1>3. ChannelInv(t)
  <2>1. [s.offered EXCEPT ![s.next_offered] = tlc] \in [TlcIds -> Tlc]
    BY <1>2 DEF ChannelInv, ChannelOK, DiffIsCurrent
  <2>2. ChannelOK(t)
    BY SMTT(60), <2>1, FieldNames DEF ChannelInv, ChannelOK
  <2>3. t.to_local + t.to_remote = Total
    BY SMTT(60), FieldNames DEF ChannelInv, ChannelOK
  <2>4. DiffIsCurrent(t)
    BY SMTT(60), FieldNames DEF ChannelInv, ChannelOK, DiffIsCurrent
  <2> QED
    BY <2>2, <2>3, <2>4 DEF ChannelInv
<1> HIDE DEF t
<1>4. ChannelInv(Send(t, add))
  BY <1>2, <1>3, MessageKinds, SendOK
<1>5. ChannelInv(handle_commitment_signed_command(Send(t, add), <<add>>))
  <2>1. <<add>> \in Seq(TlcUpdate)
    BY <1>2
  <2> QED
    BY <1>4, <2>1, CommitmentSignedCommandOK
<1>6. /\ ChannelInv(Fail(s, "InvalidState")) /\ ChannelInv(Fail(s, "TlcLimit"))
      /\ ChannelInv(Fail(s, "WaitingTlcAck"))
  BY FailOK DEF Errors
<1> QED
  BY <1>5, <1>6 DEF handle_add_tlc_command, t, tlc, add

(* An update of an id outside the ledger changes nothing. *)
LEMMA SetTlcOK ==
    ASSUME NEW s, ChannelInv(s), NEW id, NEW t, id \in TlcIds => t \in Tlc
    PROVE  /\ ChannelInv([s EXCEPT !.received[id] = t])
           /\ ChannelInv([s EXCEPT !.offered[id] = t])
<1>1. /\ [s.received EXCEPT ![id] = t] \in [TlcIds -> Tlc]
      /\ [s.offered EXCEPT ![id] = t] \in [TlcIds -> Tlc]
  BY DEF ChannelInv, ChannelOK, DiffIsCurrent
<1>2. ChannelInv([s EXCEPT !.received[id] = t])
  BY SMTT(60), <1>1, FieldNames DEF ChannelInv, ChannelOK, DiffIsCurrent
<1>3. ChannelInv([s EXCEPT !.offered[id] = t])
  BY SMTT(60), <1>1, FieldNames DEF ChannelInv, ChannelOK, DiffIsCurrent
<1> QED
  BY <1>2, <1>3

(* A TLC given a removal status and reason is well typed. *)
LEMMA RemovedType ==
    ASSUME NEW t \in Tlc, NEW reason \in RemoveTlcReason \cup {"None"}
    PROVE  /\ [t EXCEPT !.status = "LocalRemoved", !.reason = reason] \in Tlc
           /\ [t EXCEPT !.status = "RemoteRemoved", !.reason = reason] \in Tlc
  BY DEF Tlc, OutboundTlcStatus, InboundTlcStatus

(* handle_remove_tlc_command keeps the invariant. *)
LEMMA RemoveTlcCommandOK ==
    ASSUME NEW s, ChannelInv(s), NEW id \in Nat, NEW reason \in RemoveTlcReason \cup {"None"}
    PROVE  ChannelInv(handle_remove_tlc_command(s, id, reason))
<1> DEFINE remove == RemoveTlc(id, reason)
           tlc == [s.received[id] EXCEPT !.status = "LocalRemoved", !.reason = reason]
           t == [s EXCEPT !.received[id] = tlc]
           r == maybe_transfer_to_shutdown(Send(t, remove))
<1>1. remove \in TlcUpdate /\ remove \in Message
  BY UpdateType, MessageKinds
<1>2. id \in TlcIds => tlc \in Tlc
  <2>1. id \in TlcIds => s.received[id] \in Tlc
    BY DEF ChannelInv, ChannelOK, DiffIsCurrent
  <2> QED
    BY <2>1, RemovedType
<1>3. ChannelInv(t)
  <2> HIDE DEF tlc
  <2> QED
    BY <1>2, SetTlcOK
<1>4. ChannelInv(r)
  <2> HIDE DEF t, remove
  <2> QED
    BY <1>1, <1>3, SendOK, TransferToShutdownOK
<1>5. ChannelInv(handle_commitment_signed_command(r, <<remove>>))
  <2> HIDE DEF r, remove
  <2>1. <<remove>> \in Seq(TlcUpdate)
    BY <1>1
  <2> QED
    BY <1>4, <2>1, CommitmentSignedCommandOK
<1>6. /\ ChannelInv(Fail(s, "WaitingTlcAck"))
      /\ ChannelInv(Fail(s, check_remove_tlc(s.received[id])))
  <2>1. "WaitingTlcAck" \in Errors
    BY DEF Errors
  <2> QED
    BY <2>1, FailOK, CheckRemoveType
<1> QED
  BY <1>4, <1>5, <1>6 DEF handle_remove_tlc_command, AndThen

(* Recording a received TLC keeps the invariant. *)
LEMMA ReceivedAddOK ==
    ASSUME NEW s, ChannelInv(s), NEW t, NEW n \in Nat, n \in TlcIds => t \in Tlc
    PROVE  ChannelInv([s EXCEPT !.received[n] = t, !.next_received = @ + 1])
<1> DEFINE u == [s EXCEPT !.received[n] = t, !.next_received = @ + 1]
<1>1. [s.received EXCEPT ![n] = t] \in [TlcIds -> Tlc]
  BY DEF ChannelInv, ChannelOK
<1>2. ChannelOK(u)
  <2>1. ChannelOK(s)
    BY DEF ChannelInv
  <2> QED
    BY SMTT(60), <1>1, <2>1, FieldNames DEF ChannelOK
<1>3. u.to_local + u.to_remote = Total
  BY SMTT(60), FieldNames DEF ChannelInv, ChannelOK
<1>4. DiffIsCurrent(u)
  BY SMTT(60), FieldNames DEF ChannelInv, ChannelOK, DiffIsCurrent
<1> QED
  BY <1>2, <1>3, <1>4 DEF ChannelInv

(* Applying an AddTlc or RemoveTlc of the peer keeps the invariant. *)
LEMMA TlcUpdateOK ==
    ASSUME NEW s, ChannelInv(s), NEW m \in TlcUpdate
    PROVE  ChannelInv(handle_tlc_update(s, m))
<1>1. m.id \in Nat /\ m.amount \in Nat /\ m.reason \in RemoveTlcReason \cup {"None"}
  BY DEF TlcUpdate
<1>2. ChannelInv(handle_add_tlc_peer_message(s, m))
  <2> DEFINE tlc == TlcInfo("RemoteAnnounced", m.amount, s.local, s.remote)
             t == [s EXCEPT !.received[m.id] = tlc, !.next_received = @ + 1]
  <2>1. tlc \in Tlc
    BY <1>1, TlcType DEF ChannelInv, ChannelOK, DiffIsCurrent
  <2>2. ChannelInv(t)
    <3> HIDE DEF tlc
    <3> QED
      BY <1>1, <2>1, ReceivedAddOK
  <2>3. /\ ChannelInv(Fail(s, "InvalidState")) /\ ChannelInv(Fail(s, "TlcLimit"))
        /\ ChannelInv(Fail(s, "ConflictingTlc")) /\ ChannelInv(Fail(s, "UnexpectedTlcId"))
    BY FailOK DEF Errors
  <2> QED
    BY <2>2, <2>3 DEF handle_add_tlc_peer_message
<1>3. ChannelInv(handle_remove_tlc_peer_message(s, m))
  <2> DEFINE tlc == [s.offered[m.id] EXCEPT !.status = "RemoteRemoved", !.reason = m.reason]
             t == [s EXCEPT !.offered[m.id] = tlc]
  <2>1. m.id \in TlcIds => tlc \in Tlc
    <3>1. m.id \in TlcIds => s.offered[m.id] \in Tlc
      BY DEF ChannelInv, ChannelOK, DiffIsCurrent
    <3> QED
      BY <1>1, <3>1, RemovedType
  <2>2. ChannelInv(t)
    <3> HIDE DEF tlc
    <3> QED
      BY <2>1, SetTlcOK
  <2>3. ChannelInv(Fail(s, check_remove_tlc(s.offered[m.id])))
    BY FailOK, CheckRemoveType
  <2> QED
    BY <2>2, <2>3 DEF handle_remove_tlc_peer_message
<1> QED
  BY <1>2, <1>3 DEF handle_tlc_update

(* Deferring an update keeps the invariant. *)
LEMMA DeferredOK ==
    ASSUME NEW s, ChannelInv(s), NEW q \in Seq(TlcUpdate)
    PROVE  ChannelInv([s EXCEPT !.deferred = q])
  BY SMTT(60), FieldNames DEF ChannelInv, ChannelOK, DiffIsCurrent

(* Receiving a TLC update, applied or deferred, keeps the invariant. *)
LEMMA ReceiveTlcUpdateOK ==
    ASSUME NEW s, ChannelInv(s), NEW m \in TlcUpdate
    PROVE  ChannelInv(receive_tlc_update(s, m))
<1>1. Append(s.deferred, m) \in Seq(TlcUpdate)
  BY DEF ChannelInv, ChannelOK, DiffIsCurrent
<1>2. ChannelInv([s EXCEPT !.deferred = Append(@, m)])
  BY <1>1, DeferredOK
<1>3. ChannelInv(Fail(s, "TooManyDeferred"))
  BY FailOK DEF Errors
<1> QED
  BY <1>2, <1>3, TlcUpdateOK DEF receive_tlc_update

(* The recursion of flush_deferred_peer_tlc_updates: the function exists,  *)
(* by the least length it could fail for, and so does the type of each     *)
(* of its values.                                                          *)
LEMMA FlushDeferredOK ==
    ASSUME NEW s, ChannelInv(s)
    PROVE  ChannelInv(flush_deferred_peer_tlc_updates(s))
<1> DEFINE n == Len(s.deferred)
           Step(x, i) == IF ~Ok(x) THEN x
                         ELSE handle_tlc_update([x EXCEPT !.deferred = SubSeq(s.deferred, i + 1, n)],
                                                s.deferred[i])
           Run(f, k) == f = [i \in 0..k |-> IF i = 0 THEN s ELSE Step(f[i - 1], i)]
<1>1. n \in Nat /\ s.deferred \in Seq(TlcUpdate)
  BY DEF ChannelInv, ChannelOK, DiffIsCurrent
<1>2. ASSUME NEW x, ChannelInv(x), NEW i \in 1..n
      PROVE  ChannelInv(Step(x, i))
  <2>1. s.deferred[i] \in TlcUpdate
    BY <1>1
  <2>2. SubSeq(s.deferred, i + 1, n) \in Seq(TlcUpdate)
    BY <1>1
  <2>3. ChannelInv([x EXCEPT !.deferred = SubSeq(s.deferred, i + 1, n)])
    BY <1>2, <2>2, DeferredOK
  <2> QED
    BY <1>2, <2>1, <2>3, TlcUpdateOK
<1> HIDE DEF Step
<1>3. \A k \in 0..n : \E f : Run(f, k)
  <2> DEFINE T == {k \in 0..n : ~\E f : Run(f, k)}
  <2>1. SUFFICES ASSUME T # {} PROVE FALSE
    OBVIOUS
  <2>2. PICK k \in T : \A j \in T : k <= j
    <3>1. T \subseteq Nat
      BY <1>1
    <3> HIDE DEF T
    <3> QED
      BY <2>1, <3>1, LeastNatural
  <2>3. k # 0
    <3>1. Run([i \in 0..0 |-> s], 0)
      OBVIOUS
    <3> QED
      BY <2>2, <3>1
  <2>4. PICK f : Run(f, k - 1)
    <3>1. k - 1 \in 0..n /\ ~(k <= k - 1)
      BY <1>1, <2>2, <2>3
    <3>2. k - 1 \notin T
      <4> HIDE DEF T
      <4> QED
        BY <2>2, <3>1
    <3> HIDE DEF Run
    <3> QED
      BY <3>1, <3>2
  <2> DEFINE g == [i \in 0..k |-> IF i = k THEN Step(f[k - 1], k) ELSE f[i]]
  <2>5. \A i \in 0..k : g[i] = IF i = 0 THEN s ELSE Step(g[i - 1], i)
    BY <1>1, <2>2, <2>3, <2>4
  <2>6. Run(g, k)
    BY <2>5
  <2> QED
    BY <2>2, <2>6
<1>4. ASSUME NEW f, Run(f, n) PROVE ChannelInv(f[n])
  <2> DEFINE T == {k \in 0..n : ~ChannelInv(f[k])}
  <2>1. SUFFICES ASSUME T # {} PROVE FALSE
    BY <1>1
  <2>2. PICK k \in T : \A j \in T : k <= j
    <3>1. T \subseteq Nat
      BY <1>1
    <3> HIDE DEF T
    <3> QED
      BY <2>1, <3>1, LeastNatural
  <2>3. f[0] = s /\ (k # 0 => f[k] = Step(f[k - 1], k))
    BY <1>1, <1>4, <2>2
  <2>4. k # 0 => ChannelInv(f[k - 1])
    BY <1>1, <2>2
  <2> QED
    BY <1>1, <1>2, <2>2, <2>3, <2>4
<1>5. Run(CHOOSE f : Run(f, n), n)
  <2>1. n \in 0..n
    BY <1>1
  <2> HIDE DEF Run, n
  <2>2. \E f : Run(f, n)
    BY <1>3, <2>1
  <2> QED
    BY <2>2
<1> QED
  BY <1>4, <1>5 DEF flush_deferred_peer_tlc_updates, Step

-----------------------------------------------------------------------------
(* The retry queue.                                                        *)

(* Rewriting the retry queue keeps the invariant. *)
LEMMA RetryQueueOK ==
    ASSUME NEW s, ChannelInv(s), NEW q \in Seq(TlcUpdate), NEW b \in BOOLEAN
    PROVE  /\ ChannelInv([s EXCEPT !.retry = q])
           /\ ChannelInv([s EXCEPT !.retry_timer = b])
           /\ ChannelInv([s EXCEPT !.retry = q, !.retry_timer = b])
<1>1. ChannelInv([s EXCEPT !.retry = q])
  BY SMTT(60), FieldNames DEF ChannelInv, ChannelOK, DiffIsCurrent
<1>2. ChannelInv([s EXCEPT !.retry_timer = b])
  BY SMTT(60), FieldNames DEF ChannelInv, ChannelOK, DiffIsCurrent
<1>3. ChannelInv([s EXCEPT !.retry = q, !.retry_timer = b])
  BY SMTT(60), FieldNames DEF ChannelInv, ChannelOK, DiffIsCurrent
<1> QED
  BY <1>1, <1>2, <1>3

(* register_retryable_tlc_operation keeps the invariant. *)
LEMMA RegisterOK ==
    ASSUME NEW s, ChannelInv(s), NEW op \in TlcUpdate
    PROVE  ChannelInv(register_retryable_tlc_operation(s, op))
<1> DEFINE q == Append(s.retry, op)
           b == s.retry_timer \/ s.retry = <<>>
<1>1. q \in Seq(TlcUpdate) /\ b \in BOOLEAN
  BY DEF ChannelInv, ChannelOK, DiffIsCurrent
<1>2. ChannelInv([s EXCEPT !.retry = q, !.retry_timer = b])
  <2> HIDE DEF q, b
  <2> QED
    BY <1>1, RetryQueueOK
<1> QED
  BY <1>2 DEF register_retryable_tlc_operation

(* Running a queued operation keeps the invariant. *)
LEMMA RunRetryableOK ==
    ASSUME NEW s, ChannelInv(s), NEW op \in TlcUpdate
    PROVE  ChannelInv(run_retryable(s, op))
<1>1. op.id \in Nat /\ op.amount \in Nat /\ op.reason \in RemoveTlcReason \cup {"None"}
  BY DEF TlcUpdate
<1> QED
  BY <1>1, AddTlcCommandOK, RemoveTlcCommandOK DEF run_retryable

(* apply_retryable_tlc_operations keeps the invariant, however many it     *)
(* gives up.                                                               *)
LEMMA ApplyRetryableOK ==
    ASSUME NEW s, ChannelInv(s)
    PROVE  ChannelInv(apply_retryable_tlc_operations(s))
<1> DEFINE n == Len(s.retry)
           T == {i \in 1..n : Ok(run_retryable(s, s.retry[i]))}
           first == CHOOSE i \in T : \A j \in T : i <= j
<1>1. n \in Nat /\ s.retry \in Seq(TlcUpdate)
  BY DEF ChannelInv, ChannelOK, DiffIsCurrent
<1>2. ChannelInv([s EXCEPT !.retry = <<>>])
  <2>1. <<>> \in Seq(TlcUpdate)
    OBVIOUS
  <2> QED
    BY <2>1, RetryQueueOK
<1>3. T \subseteq 1..n
  OBVIOUS
<1> HIDE DEF T
<1>4. ASSUME T # {}
      PROVE  ChannelInv(run_retryable([s EXCEPT !.retry = SubSeq(@, first + 1, Len(@))],
                                      s.retry[first]))
  <2>1. T \subseteq Nat
    BY <1>1, <1>3
  <2>2. \E i \in T : \A j \in T : i <= j
    BY <1>4, <2>1, LeastNatural
  <2>3. first \in 1..n
    BY <1>3, <2>2
  <2> HIDE DEF first
  <2>4. s.retry[first] \in TlcUpdate /\ SubSeq(s.retry, first + 1, n) \in Seq(TlcUpdate)
    BY <1>1, <2>3
  <2> QED
    BY <2>4, RetryQueueOK, RunRetryableOK
<1>5. ChannelInv(run_first_retryable(s, T))
  BY <1>2, <1>4 DEF run_first_retryable
<1> QED
  BY <1>5 DEF apply_retryable_tlc_operations, T

=============================================================================
