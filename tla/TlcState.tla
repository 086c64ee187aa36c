------------------------------ MODULE TlcState ------------------------------
(***************************************************************************)
(* The TLC (time-locked contract) ledger that one end of a V1 channel      *)
(* keeps: the status ladder of an offered and of a received TLC, which     *)
(* TLCs a commitment transaction contains, and the balances it pays.       *)
(* Source: fiber-types/src/channel.rs (TlcInfo, TlcState) and the readers  *)
(* of the ledger in fiber-lib/src/fiber/channel.rs.  Pure operators only.  *)
(*                                                                         *)
(* A ledger is a pair of functions `offered' and `received' from TLC ids   *)
(* to TlcInfo records; an id without a TLC is mapped to NoTlc.             *)
(***************************************************************************)
EXTENDS Integers, FiniteSets, FiniteSetsExt

OutboundTlcStatus == {"LocalAnnounced", "Committed", "RemoteRemoved",
                      "RemoveWaitPrevAck", "RemoveWaitAck", "RemoveAckConfirmed"}

InboundTlcStatus == {"RemoteAnnounced", "AnnounceWaitPrevAck", "AnnounceWaitAck",
                     "Committed", "LocalRemoved", "RemoveAckConfirmed"}

RemoveTlcReason == {"Fulfill", "Fail"}

(* TlcInfo without the fields no property tells apart (hash, expiry, onion). *)
(* `applied' is applied_flags; `at' is created_at, the pair of commitment    *)
(* numbers the TLC's two settlement keys are derived from.                   *)
TlcInfo(status, amount, local, remote) ==
    [status |-> status, amount |-> amount, reason |-> "None", applied |-> {},
     at |-> [local |-> local, remote |-> remote]]

NoTlc == TlcInfo("Absent", 0, 0, 0)

Present(tlcs) == {i \in DOMAIN tlcs : tlcs[i].status # "Absent"}

(* removed_confirmed_at is set exactly when the status becomes RemoveAckConfirmed. *)
removed_confirmed(t) == t.status = "RemoveAckConfirmed"

(* Variant with a fault: a removal that is not yet confirmed counts as done. *)
any_tlc_without_reason(offered, received) ==
    \/ \E i \in Present(offered)  : offered[i].reason = "None"
    \/ \E i \in Present(received) : received[i].reason = "None"

any_tlc_pending(offered, received) ==
    \/ \E i \in Present(offered)  : ~removed_confirmed(offered[i])
    \/ \E i \in Present(received) : ~removed_confirmed(received[i])

-----------------------------------------------------------------------------
(* The ladder: what a CommitmentSigned and a RevokeAndAck do to a status.  *)

offered_on_commitment_signed(t, waiting_ack) ==
    IF t.status = "RemoteRemoved"
    THEN [t EXCEPT !.status = IF waiting_ack THEN "RemoveWaitPrevAck" ELSE "RemoveWaitAck"]
    ELSE t

received_on_commitment_signed(t, waiting_ack) ==
    IF t.status = "RemoteAnnounced"
    THEN [t EXCEPT !.status = IF waiting_ack THEN "AnnounceWaitPrevAck" ELSE "AnnounceWaitAck"]
    ELSE t

offered_on_revoke_and_ack(t) ==
    CASE t.status = "LocalAnnounced"    -> [t EXCEPT !.status = "Committed"]
      [] t.status = "RemoveWaitPrevAck" -> [t EXCEPT !.status = "RemoveWaitAck"]
      [] t.status = "RemoveWaitAck"     -> [t EXCEPT !.status = "RemoveAckConfirmed"]
      [] OTHER                          -> t

received_on_revoke_and_ack(t) ==
    CASE t.status = "AnnounceWaitPrevAck" -> [t EXCEPT !.status = "AnnounceWaitAck"]
      [] t.status = "AnnounceWaitAck"     -> [t EXCEPT !.status = "Committed"]
      [] t.status = "LocalRemoved"        -> [t EXCEPT !.status = "RemoveAckConfirmed"]
      [] OTHER                            -> t

(* Variant with a fault: forgets that an announced TLC needs our commitment. *)
need_another_for_offered(offered, received) ==
    \E i \in DOMAIN offered : offered[i].status \in
        {"LocalAnnounced", "RemoteRemoved", "RemoveWaitPrevAck", "RemoveWaitAck"}

need_another_commitment_signed(offered, received) ==
    \/ \E i \in DOMAIN offered : offered[i].status \in
           {"LocalAnnounced", "RemoteRemoved", "RemoveWaitPrevAck", "RemoveWaitAck"}
    \/ \E i \in DOMAIN received : received[i].status \in
           {"RemoteAnnounced", "AnnounceWaitPrevAck", "AnnounceWaitAck"}

-----------------------------------------------------------------------------
(* What a commitment transaction contains.  for_remote: the one we sign,   *)
(* otherwise the one whose signature we verify.                            *)

commitment_signed_tlcs(tlcs, for_remote) ==
    {i \in DOMAIN tlcs :
        \/ tlcs[i].status \in {"Committed", "AnnounceWaitAck"}
        \/ for_remote /\ tlcs[i].status \in
               {"LocalAnnounced", "RemoteRemoved", "RemoveWaitPrevAck"}
        \/ ~for_remote /\ tlcs[i].status \in
               {"RemoteAnnounced", "AnnounceWaitPrevAck", "LocalRemoved"}}

SumAmounts(tlcs, ids) == MapThenSumSet(LAMBDA i : tlcs[i].amount, ids)

(* Variant with a fault: settles in the commitment we sign a removal that the *)
(* peer has only announced.                                                   *)
offered_removal_announced(t, for_remote) ==
    t.status \in {"RemoteRemoved", "RemoveWaitAck", "RemoveAckConfirmed"}

(* The removal of the TLC is settled in the commitment being built. *)
offered_removal_settled(t, for_remote) ==
    \/ t.status \in {"RemoveWaitAck", "RemoveAckConfirmed"}
    \/ t.status = "RemoteRemoved" /\ ~for_remote

received_removal_settled(t, for_remote) ==
    \/ t.status = "RemoveAckConfirmed"
    \/ t.status = "LocalRemoved" /\ for_remote

(* build_settlement_data: the balances, with the in-flight amounts taken out. *)
settlement_amounts(to_local, to_remote, offered, received, for_remote) ==
    LET offs == {i \in Present(offered) : offered[i].status = "LocalAnnounced" => for_remote}
        recs == {i \in Present(received) :
                    received[i].status \in {"RemoteAnnounced", "AnnounceWaitPrevAck"} => ~for_remote}
        off_settled == {i \in offs : offered_removal_settled(offered[i], for_remote)}
        rec_settled == {i \in recs : received_removal_settled(received[i], for_remote)}
        off_pending == SumAmounts(offered, offs \ off_settled)
        rec_pending == SumAmounts(received, recs \ rec_settled)
        off_fulfilled == SumAmounts(offered, {i \in off_settled : offered[i].reason = "Fulfill"})
        rec_fulfilled == SumAmounts(received, {i \in rec_settled : received[i].reason = "Fulfill"})
    IN  [mine   |-> to_local + rec_fulfilled - off_pending - off_fulfilled,
         theirs |-> to_remote + off_fulfilled - rec_pending - rec_fulfilled]

(* TLCs that still weigh on the in-flight limits: all but confirmed failures. *)
is_fail_remove_confirmed(t) ==
    t.reason = "Fail" /\ t.status \in {"RemoveAckConfirmed", "RemoveWaitAck"}

inflight(tlcs) == {i \in Present(tlcs) : ~is_fail_remove_confirmed(tlcs[i])}

=============================================================================
