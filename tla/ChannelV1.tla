------------------------------ MODULE ChannelV1 ------------------------------
(***************************************************************************)
(* The V1 channel protocol between two honest peers: TLC updates, the      *)
(* CommitmentSigned / RevokeAndAck rounds, the retry queue, reconnection   *)
(* with replay of the stored CommitDiff, and the cooperative shutdown.     *)
(* Source: fiber-lib/src/fiber/channel.rs, network.rs.                     *)
(*                                                                         *)
(* ch[p] is p's persisted ChannelActorState together with its runtime      *)
(* fields.  A handler is an operator from a state to a state: `out'        *)
(* collects the messages it sends, `command' whether it asks the network   *)
(* actor for a CommitmentSigned command, and `err' the error it returns.   *)
(* Commit resets them, hands `out' to the link and logs `err', which is    *)
(* all the actor does with an error: the partly changed state is kept.     *)
(***************************************************************************)
EXTENDS TlcState, Naturals, Sequences

CONSTANTS
    Peers,          \* the two ends of the channel
    Balance,        \* Balance[p]: p's share of the channel when it becomes ready
    Amounts,        \* amounts an AddTlc command may ask for
    Senders,        \* peers that may offer TLCs (one of them in a one-way channel)
    Closers,        \* peers whose operator may ask for a cooperative shutdown
    MaxTlc,         \* bound: AddTlc commands issued to each peer
    MaxTlcNumber,   \* max_tlc_number_in_flight of both peers
    MaxTlcValue,    \* max_tlc_value_in_flight of both peers
    MaxU128,        \* largest amount the balance arithmetic can represent
    Timeouts,       \* whether the watchdog timeouts may run out
    MaxDrops        \* bound: dropped connections and restarts

VARIABLES
    ch,             \* ch[p]: the channel actor state of p
    link,           \* link[p]: the wire to p and p's network actor mailbox, in order
    up,             \* up[p]: p's network actor has a session with the other peer
    issued,         \* issued[p]: number of AddTlc commands given to p so far
    drops,          \* number of dropped connections and restarts so far
    errors          \* errors[p]: every error a handler of p has logged

vars == <<ch, link, up, issued, drops, errors>>

ASSUME ChannelAssumption ==
    /\ \E a, b \in Peers : a # b /\ Peers = {a, b}
    /\ Balance \in [Peers -> Nat]
    /\ Amounts \subseteq Nat
    /\ Senders \subseteq Peers
    /\ Closers \subseteq Peers
    /\ MaxTlc \in Nat
    /\ MaxTlcNumber \in Nat
    /\ MaxTlcValue \in Nat
    /\ MaxU128 \in Nat
    /\ Timeouts \in BOOLEAN
    /\ MaxDrops \in Nat
    /\ \A p, q \in Peers : p # q => Balance[p] + Balance[q] <= MaxU128

Other(p) == CHOOSE q \in Peers : q # p

TlcIds == 0..(MaxTlc - 1)

(* The members of a set of ids, in increasing order (the ledger's order). *)
InOrder(ids) == [k \in 1..Cardinality(ids) |->
                    CHOOSE i \in ids : Cardinality({j \in ids : j <= i}) = k]

-----------------------------------------------------------------------------
(* Messages.  A partial signature is what has to agree for it to verify:   *)
(* the nonces of both sides (named by the commitment number they are       *)
(* derived from) and the content signed.                                   *)

AddTlc(id, amount) == [type |-> "AddTlc", id |-> id, amount |-> amount, reason |-> "None"]
RemoveTlc(id, reason) == [type |-> "RemoveTlc", id |-> id, amount |-> 0, reason |-> reason]
ReestablishChannel(s) ==
    [type |-> "ReestablishChannel", local |-> s.local, remote |-> s.remote]
Shutdown(terms) == [type |-> "Shutdown", terms |-> terms]

(* Not from the peer: a command p's channel actor sent to its own network    *)
(* actor, which hands it back to the channel in mailbox order.               *)
CommitmentSignedCommand == [type |-> "CommitmentSignedCommand"]

(* terms: the close script and fee rate of a Shutdown message: the command's  *)
(* own ("Custom"), the channel's defaults, or the zero-fee automatic reply.   *)
ShutdownTerms == {"Default", "Custom", "Reply"}

NoRevokeAndAck == [type |-> "RevokeAndAck", number |-> 0, nonce |-> 0, next |-> 0]
NoSignature == [type |-> "ClosingSigned", own |-> 0, peer |-> 0, mine |-> 0,
                theirs |-> 0, my_terms |-> "None", their_terms |-> "None"]
NoCommitDiff == [local |-> 0, remote |-> 0, updates |-> <<>>, signed |-> <<>>,
                 hint |-> "RevokeThenCommit"]

(* The funding handshake leaves both commitment numbers, the committed      *)
(* nonce and the two revocation nonces at index 2 when the channel is ready. *)
InitialNumber == 2

None == 0   \* an absent revocation nonce

NewChannel(to_local, to_remote) ==
    [state |-> "ChannelReady", flags |-> {},
     local |-> InitialNumber, remote |-> InitialNumber, waiting_ack |-> FALSE,
     offered |-> [i \in TlcIds |-> NoTlc], received |-> [i \in TlcIds |-> NoTlc],
     next_offered |-> 0, next_received |-> 0,
     to_local |-> to_local, to_remote |-> to_remote,
     committed_nonce |-> InitialNumber,
     rev_send |-> InitialNumber, rev_verify |-> InitialNumber, rev_next |-> None,
     points |-> {InitialNumber - 1, InitialNumber},
     last_raa |-> NoRevokeAndAck, last_was_revoke |-> FALSE, diff |-> NoCommitDiff,
     reestablishing |-> FALSE, connectivity |-> "Online", pending_ready |-> FALSE,
     ack_wait |-> FALSE, handshake_wait |-> FALSE,
     deferring |-> FALSE, deferred |-> <<>>,
     retry |-> <<>>, retry_timer |-> FALSE,
     local_shutdown |-> "None", remote_shutdown |-> "None",
     local_sig |-> NoSignature, remote_sig |-> NoSignature,
     force_close |-> "None", on_chain |-> "None",
     out |-> <<>>, command |-> FALSE, err |-> "None"]

Init ==
    /\ ch = [p \in Peers |-> NewChannel(Balance[p], Balance[Other(p)])]
    /\ link = [p \in Peers |-> <<>>]
    /\ up = [p \in Peers |-> TRUE]
    /\ issued = [p \in Peers |-> 0]
    /\ drops = 0
    /\ errors = [p \in Peers |-> {}]

Send(s, m) == [s EXCEPT !.out = Append(@, m)]
SendAll(s, ms) == [s EXCEPT !.out = @ \o ms]
Fail(s, e) == [s EXCEPT !.err = e]
Ok(s) == s.err = "None"

(* Rust's `?': the next step runs only if this one returned Ok. *)
AndThen(s, Step(_)) == IF Ok(s) THEN Step(s) ELSE s

-----------------------------------------------------------------------------
(* Commitment transactions and the points their TLC keys are derived from. *)

prune_remote_commitment_points(s) ==
    LET live == {s.offered[i].at : i \in Present(s.offered)}
                    \cup {s.received[i].at : i \in Present(s.received)}
        used == {at.local : at \in live} \cup {at.remote : at \in live}
    IN  [s EXCEPT !.points = @ \cap (used \cup {s.local, s.remote})]

(* The content both peers must derive alike; by, signer_key and verifier_key *)
(* name the roles so that one description serves both views.                 *)
commitment_content(s, amounts, for_remote) ==
    LET Entry(t, i, is_offered) ==
            [by |-> IF is_offered = for_remote THEN "signer" ELSE "verifier",
             id |-> i, amount |-> t.amount,
             signer_key   |-> IF for_remote THEN t.at.remote ELSE t.at.local,
             verifier_key |-> IF for_remote THEN t.at.local ELSE t.at.remote]
    IN  [version  |-> IF for_remote THEN s.local ELSE s.remote,
         signer   |-> IF for_remote THEN amounts.mine ELSE amounts.theirs,
         verifier |-> IF for_remote THEN amounts.theirs ELSE amounts.mine,
         tlcs |-> {Entry(s.offered[i], i, TRUE)
                      : i \in commitment_signed_tlcs(s.offered, for_remote)}
                  \cup {Entry(s.received[i], i, FALSE)
                      : i \in commitment_signed_tlcs(s.received, for_remote)}]

commitment_tx(s, for_remote) ==
    commitment_content(
        s, settlement_amounts(s.to_local, s.to_remote, s.offered, s.received, for_remote), for_remote)

(* Building fails on a balance outside u128 or a TLC whose point was pruned. *)
buildable(s, tx, for_remote) ==
    /\ {tx.signer, tx.verifier} \subseteq 0..MaxU128
    /\ \A t \in tx.tlcs :
          (IF for_remote THEN t.verifier_key ELSE t.signer_key) \in s.points

can_build_commitment_tx(s, for_remote) == buildable(s, commitment_tx(s, for_remote), for_remote)

clean_up_failed_tlcs(s) ==
    LET Done(t) == removed_confirmed(t) /\ "REMOVE" \in t.applied
        Cleaned(tlcs) == [i \in TlcIds |-> IF Done(tlcs[i]) THEN NoTlc ELSE tlcs[i]]
    IN  IF \E i \in TlcIds : Done(s.offered[i]) \/ Done(s.received[i])
        THEN prune_remote_commitment_points(
                 [s EXCEPT !.offered = Cleaned(@), !.received = Cleaned(@)])
        ELSE s

-----------------------------------------------------------------------------
(* Cooperative shutdown.                                                   *)

closing_signature(s) ==
    [type |-> "ClosingSigned", own |-> s.local, peer |-> s.committed_nonce,
     mine |-> s.to_local, theirs |-> s.to_remote,
     my_terms |-> s.local_shutdown, their_terms |-> s.remote_shutdown]

(* Both partial signatures are over the transaction we build, with our nonces. *)
can_aggregate(s, local_sig) ==
    /\ local_sig = closing_signature(s)
    /\ s.remote_sig = [type |-> "ClosingSigned", own |-> s.committed_nonce, peer |-> s.local,
                       mine |-> s.to_remote, theirs |-> s.to_local,
                       my_terms |-> s.remote_shutdown, their_terms |-> s.local_shutdown]

maybe_transfer_to_shutdown(s) ==
    IF \/ s.state # "ShuttingDown" \/ ~({"OUR", "THEIR"} \subseteq s.flags)
       \/ any_tlc_pending(s.offered, s.received)
    THEN s
    ELSE LET d == [s EXCEPT !.flags = @ \cup {"DROPPING"}, !.ack_wait = FALSE]
             sig == IF s.local_sig = NoSignature THEN closing_signature(s) ELSE s.local_sig
             signed == IF s.local_sig = NoSignature
                       THEN Send([d EXCEPT !.local_sig = sig], sig) ELSE d
         IN  IF s.local_shutdown = "None" \/ s.remote_shutdown = "None" THEN d
             ELSE IF s.remote_sig = NoSignature THEN signed
             ELSE IF can_aggregate(s, sig)
                  THEN [signed EXCEPT !.flags = {"WAITING"}, !.on_chain = "Closing"]
             ELSE Fail(signed, "ClosingMismatch")

(* The automatic reply needs only their Shutdown, at the commitment fee rate  *)
(* or more: every terms but the zero-fee Reply.                               *)
step_shutting_down(s, flags) ==
    LET reply == flags = {"THEIR"} /\ s.remote_shutdown \in {"Default", "Custom"}
        r == IF reply
             THEN Send([s EXCEPT !.local_shutdown = "Reply", !.local_sig = NoSignature],
                       Shutdown("Reply"))
             ELSE s
    IN  maybe_transfer_to_shutdown(
            [r EXCEPT !.state = "ShuttingDown",
                      !.flags = IF reply THEN flags \cup {"OUR"} ELSE flags])

handle_shutdown_peer_message(s, m) ==
    CASE s.state = "ChannelReady" /\ \E i \in TlcIds : s.received[i].status = "RemoteAnnounced"
             -> Fail(s, "ShutdownWithPendingInbound")
      [] s.state = "ShuttingDown" /\ "THEIR" \in s.flags
             -> Fail(s, "RepeatedShutdown")
      [] OTHER -> step_shutting_down(
                      [s EXCEPT !.remote_shutdown = m.terms, !.remote_sig = NoSignature],
                      s.flags \cup {"THEIR"})

(* Variant with a fault: stores the signature and goes no further. *)
store_closing_signed(s, m) ==
    IF s.remote_shutdown # "None" THEN [s EXCEPT !.remote_sig = m] ELSE s

handle_closing_signed(s, m) ==
    maybe_transfer_to_shutdown(
        IF s.remote_shutdown # "None" THEN [s EXCEPT !.remote_sig = m] ELSE s)

(* Variant with a fault: stops the rounds as soon as the shutdown begins. *)
ok_when_ready(s) == s.state = "ChannelReady"

ok_for_commitment_operation(s) ==
    s.state = "ChannelReady" \/ s.flags \cap {"DROPPING", "WAITING"} = {}

-----------------------------------------------------------------------------
(* Sending a commitment.  The CommitDiff is stored together with the state *)
(* before the message leaves; updates is pending_replay_updates: the TLC   *)
(* messages the caller has just pushed there, taken by this commitment.    *)

(* Variant with a fault: stamps the number of the commitment after this one. *)
commit_diff_of_next(c, updates, signed) ==
    [local |-> c.local + 1, remote |-> c.remote, updates |-> updates,
     signed |-> <<signed>>, hint |-> "RevokeThenCommit"]

commit_diff(c, updates, signed) ==
    [local |-> c.local, remote |-> c.remote, updates |-> updates,
     signed |-> <<signed>>, hint |-> "RevokeThenCommit"]

send_commitment_signed(c, updates, signed) ==
    maybe_transfer_to_shutdown(
        Send([c EXCEPT !.diff = commit_diff(c, updates, signed), !.last_was_revoke = FALSE,
                       !.waiting_ack = TRUE, !.ack_wait = TRUE], signed))

sign_commitment(c, updates) ==
    IF ~can_build_commitment_tx(c, TRUE) THEN Fail(c, "CannotBuild")
    ELSE send_commitment_signed(
             c, updates,
             [type |-> "CommitmentSigned", own |-> c.local, peer |-> c.committed_nonce,
              content |-> commitment_tx(c, TRUE), next |-> c.local + 1])

handle_commitment_signed_command(s, updates) ==
    IF s.waiting_ack THEN s
    ELSE IF ~ok_for_commitment_operation(s) THEN Fail(s, "InvalidState")
    ELSE sign_commitment(clean_up_failed_tlcs(s), updates)

(* Variant with a fault: a resent acknowledgement is made anew. *)
send_fresh_revoke_and_ack(s, resend) ==
    IF s.rev_send = None THEN Fail(s, "NoCachedAck")
    ELSE LET raa == [type |-> "RevokeAndAck", number |-> s.remote, nonce |-> s.rev_send,
                     next |-> s.remote + 1]
         IN  Send([s EXCEPT !.remote = @ + 1, !.last_raa = raa, !.last_was_revoke = TRUE], raa)

(* resend: the cached message, whose nonces are the ones the peer expects. *)
send_revoke_and_ack_message(s, resend) ==
    IF resend \/ s.rev_send = None
    THEN IF s.last_raa = NoRevokeAndAck THEN Fail(s, "NoCachedAck")
         ELSE Send([s EXCEPT !.last_was_revoke = TRUE], s.last_raa)
    ELSE LET raa == [type |-> "RevokeAndAck", number |-> s.remote, nonce |-> s.rev_send,
                     next |-> s.remote + 1]
             last == s.rev_verify = None
         IN  Send([s EXCEPT !.remote = @ + 1, !.last_raa = raa, !.last_was_revoke = TRUE,
                            !.rev_send = IF last THEN s.rev_next ELSE None,
                            !.rev_verify = IF last THEN s.rev_next ELSE @], raa)

-----------------------------------------------------------------------------
(* TLC updates: our commands and the peer's messages.                      *)

(* Variant with a fault: forgets the revocation nonces. *)
is_waiting_commitment_ack(s) == s.waiting_ack

is_waiting_tlc_ack(s) == s.waiting_ack \/ s.rev_send = None \/ s.rev_verify = None

(* A command that is blocked returns WaitingTlcAck and is queued for retry. *)
blocked(s) == is_waiting_tlc_ack(s) \/ s.reestablishing

check_tlc_limits(tlcs, balance, amount) ==
    LET pending == SumAmounts(tlcs, inflight(tlcs))
    IN  /\ amount > 0
        /\ amount <= balance - pending
        /\ Cardinality(inflight(tlcs)) + 1 <= MaxTlcNumber
        /\ pending + amount <= MaxTlcValue

handle_add_tlc_command(s, amount) ==
    IF s.state # "ChannelReady" THEN Fail(s, "InvalidState")
    ELSE IF ~check_tlc_limits(s.offered, s.to_local, amount) THEN Fail(s, "TlcLimit")
    ELSE IF blocked(s) THEN Fail(s, "WaitingTlcAck")
    ELSE LET add == AddTlc(s.next_offered, amount)
             tlc == TlcInfo("LocalAnnounced", amount, s.local, s.remote)
         IN  handle_commitment_signed_command(
                 Send([s EXCEPT !.offered[s.next_offered] = tlc, !.next_offered = @ + 1], add),
                 <<add>>)

(* Variant with a fault: a TLC may be removed again. *)
check_tlc_known(t) == IF t.status = "Absent" THEN "UnknownTlc" ELSE "None"

check_remove_tlc(t) ==
    IF t.status = "Absent" THEN "UnknownTlc"
    ELSE IF t.reason # "None" THEN "RepeatedProcessing"
    ELSE IF t.status # "Committed" THEN "NotCommitted"
    ELSE "None"

handle_remove_tlc_command(s, id, reason) ==
    IF blocked(s) THEN Fail(s, "WaitingTlcAck")
    ELSE IF check_remove_tlc(s.received[id]) # "None" THEN Fail(s, check_remove_tlc(s.received[id]))
    ELSE LET remove == RemoveTlc(id, reason)
         IN  AndThen(maybe_transfer_to_shutdown(
                         Send([s EXCEPT !.received[id] = [@ EXCEPT !.status = "LocalRemoved",
                                                                   !.reason = reason]], remove)),
                     LAMBDA r : handle_commitment_signed_command(r, <<remove>>))

(* The limits are checked before the identical TLC is recognised. *)
handle_add_tlc_peer_message(s, m) ==
    IF s.state = "ShuttingDown" /\ s.flags # {"OUR"} THEN Fail(s, "InvalidState")
    ELSE IF ~check_tlc_limits(s.received, s.to_remote, m.amount) THEN Fail(s, "TlcLimit")
    ELSE IF s.received[m.id].status # "Absent"
         THEN IF s.received[m.id].amount = m.amount THEN s ELSE Fail(s, "ConflictingTlc")
    ELSE IF m.id # s.next_received THEN Fail(s, "UnexpectedTlcId")
    ELSE [s EXCEPT !.received[m.id] = TlcInfo("RemoteAnnounced", m.amount, s.local, s.remote),
                   !.next_received = @ + 1]

handle_remove_tlc_peer_message(s, m) ==
    IF check_remove_tlc(s.offered[m.id]) # "None"
    THEN Fail(s, check_remove_tlc(s.offered[m.id]))
    ELSE [s EXCEPT !.offered[m.id] = [@ EXCEPT !.status = "RemoteRemoved", !.reason = m.reason]]

handle_tlc_update(s, m) ==
    IF m.type = "AddTlc" THEN handle_add_tlc_peer_message(s, m)
                         ELSE handle_remove_tlc_peer_message(s, m)

(* While the owed replay is incomplete, updates wait for the CommitmentSigned. *)
receive_tlc_update(s, m) ==
    IF ~s.deferring THEN handle_tlc_update(s, m)
    ELSE IF Len(s.deferred) >= 2 * MaxTlcNumber THEN Fail(s, "TooManyDeferred")
    ELSE [s EXCEPT !.deferred = Append(@, m)]

(* Stops at the first update that fails; the ones behind it stay queued. *)
flush_deferred_peer_tlc_updates(s) ==
    LET n == Len(s.deferred)
        run[i \in 0..n] ==
            IF i = 0 THEN s
            ELSE IF ~Ok(run[i - 1]) THEN run[i - 1]
            ELSE handle_tlc_update([run[i - 1] EXCEPT !.deferred = SubSeq(s.deferred, i + 1, n)],
                                   s.deferred[i])
    IN  run[n]

-----------------------------------------------------------------------------
(* The retry queue.  An operation is an AddTlc command, told apart by the  *)
(* number it was issued with, or a RemoveTlc command.                      *)

(* Variant with a fault: the task is not scheduled again. *)
schedule_nothing(s) == s

schedule_next_retry_task(s) == [s EXCEPT !.retry_timer = @ \/ s.retry # <<>>]

(* Variant with a fault: the operation is queued but no task will run it. *)
register_without_task(s, op) == [s EXCEPT !.retry = Append(@, op)]

register_retryable_tlc_operation(s, op) ==
    IF \E i \in DOMAIN s.retry : s.retry[i] = op THEN s
    ELSE [s EXCEPT !.retry = Append(@, op), !.retry_timer = @ \/ s.retry = <<>>]

run_retryable(s, op) ==
    IF op.type = "AddTlc" THEN handle_add_tlc_command(s, op.amount)
                          ELSE handle_remove_tlc_command(s, op.id, op.reason)

(* Operations are popped until one succeeds; a refused one is given up and *)
(* changes nothing, so the state each is tried in is the same.             *)
run_first_retryable(s, succeeding) ==
    LET first == CHOOSE i \in succeeding : \A j \in succeeding : i <= j
    IN  IF succeeding = {} THEN [s EXCEPT !.retry = <<>>]
        ELSE run_retryable([s EXCEPT !.retry = SubSeq(@, first + 1, Len(@))], s.retry[first])

apply_retryable_tlc_operations(s) ==
    IF blocked(s) THEN s
    ELSE run_first_retryable(s, {i \in 1..Len(s.retry) : Ok(run_retryable(s, s.retry[i]))})

-----------------------------------------------------------------------------
(* Receiving a commitment and its acknowledgement.                         *)

(* Variant with a fault: what we pay out is not credited to the peer. *)
settle_one_side(s, inbound, sum) ==
    IF inbound THEN [local |-> s.to_local + sum, remote |-> s.to_remote - sum]
               ELSE [local |-> s.to_local - sum, remote |-> s.to_remote]

settled_balances(s, inbound, sum) ==
    IF inbound THEN [local |-> s.to_local + sum, remote |-> s.to_remote - sum]
               ELSE [local |-> s.to_local - sum, remote |-> s.to_remote + sum]

(* Settled removals are applied: a fulfilled TLC moves its amount and      *)
(* leaves the ledger, a failed one stays until it is cleaned up.           *)
apply_settled_remove_tlcs(s, inbound) ==
    LET tlcs == IF inbound THEN s.received ELSE s.offered
        settled == {i \in TlcIds : /\ tlcs[i].status = "RemoveAckConfirmed"
                                   /\ tlcs[i].reason # "None"
                                   /\ "REMOVE" \notin tlcs[i].applied}
        fulfilled == {i \in settled : tlcs[i].reason = "Fulfill"}
        sum == SumAmounts(tlcs, fulfilled)
        shares == settled_balances(s, inbound, sum)
        left == [i \in TlcIds |->
                    IF i \in fulfilled THEN NoTlc
                    ELSE IF i \in settled THEN [tlcs[i] EXCEPT !.applied = @ \cup {"REMOVE"}]
                    ELSE tlcs[i]]
        moved == [s EXCEPT !.to_local = shares.local, !.to_remote = shares.remote,
                           !.received = IF inbound THEN left ELSE @,
                           !.offered = IF inbound THEN @ ELSE left]
    IN  IF ~({sum, shares.local, shares.remote} \subseteq 0..MaxU128)
        THEN [s EXCEPT !.force_close = "Balance"]
        ELSE IF fulfilled # {} THEN prune_remote_commitment_points(moved) ELSE moved

(* Any failure here asks the network actor to close the channel on chain. *)
valid_commitment_signed(s, m) ==
    /\ ok_for_commitment_operation(s)
    /\ can_build_commitment_tx(s, FALSE)
    /\ m.own = s.committed_nonce
    /\ m.peer = s.local
    /\ m.content = commitment_tx(s, FALSE)

commit_remote_nonce(a, m) ==
    IF Ok(a) THEN [a EXCEPT !.committed_nonce = m.next]
             ELSE [a EXCEPT !.force_close = "Commitment"]

verify_commitment_signed_and_send_ack(s, m) ==
    IF valid_commitment_signed(s, m)
    THEN commit_remote_nonce(send_revoke_and_ack_message(clean_up_failed_tlcs(s), FALSE), m)
    ELSE [s EXCEPT !.force_close = "Commitment", !.err = "BadCommitment"]

update_for_commitment_signed(s) ==
    [s EXCEPT !.offered = [i \in TlcIds |-> offered_on_commitment_signed(@[i], s.waiting_ack)],
              !.received = [i \in TlcIds |-> received_on_commitment_signed(@[i], s.waiting_ack)]]

flush_for_commitment_signed(s) ==
    IF s.deferring /\ s.deferred # <<>>
    THEN flush_deferred_peer_tlc_updates([s EXCEPT !.deferring = FALSE]) ELSE s

hint_replay_order(s) ==
    IF s.waiting_ack THEN [s EXCEPT !.diff.hint = "CommitThenRevoke"] ELSE s

(* Our own commitment follows when an update still needs one. *)
answer_commitment_signed(updated) ==
    AndThen(maybe_transfer_to_shutdown(apply_settled_remove_tlcs(updated, TRUE)),
            LAMBDA s : IF /\ need_another_commitment_signed(updated.offered, updated.received)
                          /\ ~s.waiting_ack
                       THEN handle_commitment_signed_command(s, <<>>) ELSE s)

stop_deferring(s) == [s EXCEPT !.deferring = FALSE]

handle_commitment_signed_peer_message(s, m) ==
    AndThen(AndThen(AndThen(flush_for_commitment_signed(s),
                            LAMBDA f : verify_commitment_signed_and_send_ack(f, m)),
                    LAMBDA a : answer_commitment_signed(
                                   update_for_commitment_signed(hint_replay_order(a)))),
            stop_deferring)

handle_revoke_and_ack_peer_message(s, m) ==
    IF ~s.waiting_ack THEN Fail(s, "UnexpectedRevokeAndAck")
    ELSE IF s.rev_verify = None THEN Fail(s, "NoRevocationNonce")
    ELSE IF ~(m.number = s.local /\ m.number = s.rev_verify /\ m.nonce = s.local)
         THEN Fail(s, "BadRevocation")
    ELSE IF ~can_build_commitment_tx(s, TRUE) THEN Fail(s, "CannotBuild")
    ELSE LET first == s.rev_send = None
             p == prune_remote_commitment_points(
                      [s EXCEPT !.local = @ + 1, !.points = @ \cup {s.local + 1},
                                !.waiting_ack = FALSE, !.ack_wait = FALSE])
         IN  [p EXCEPT
                 !.offered = [i \in TlcIds |-> offered_on_revoke_and_ack(@[i])],
                 !.received = [i \in TlcIds |-> received_on_revoke_and_ack(@[i])],
                 !.rev_next = m.next,
                 !.rev_send = IF first THEN m.next ELSE @,
                 !.rev_verify = IF first THEN m.next ELSE None]

(* update_tlc_status_on_ack: newly committed TLCs are applied; the ones in *)
(* `refused' fail to apply and their removal is queued, oldest first.      *)
newly_committed(s) ==
    {i \in TlcIds : s.received[i].status = "Committed" /\ s.received[i].reason = "None"
                    /\ s.received[i].applied = {}}

update_tlc_status_on_ack(s, refused) ==
    LET queued == {i \in refused : \E k \in DOMAIN s.retry : s.retry[k] = RemoveTlc(i, "Fail")}
        ids == InOrder(refused \ queued)
        removals == [k \in DOMAIN ids |-> RemoveTlc(ids[k], "Fail")]
    IN  apply_settled_remove_tlcs(
            [s EXCEPT !.received = [i \in TlcIds |->
                          IF i \in newly_committed(s) \ refused
                          THEN [@[i] EXCEPT !.applied = {"ADD"}] ELSE @[i]],
                      !.retry = @ \o removals,
                      !.retry_timer = @ \/ (s.retry = <<>> /\ removals # <<>>)], FALSE)

on_reestablished_channel_ready(s) ==
    [s EXCEPT !.pending_ready = FALSE, !.reestablishing = FALSE, !.handshake_wait = FALSE,
              !.connectivity = "Online"]

(* The pending handshake is complete once the replayed commitment is acknowledged. *)
finish_pending_ready(s) ==
    IF s.pending_ready THEN schedule_next_retry_task(on_reestablished_channel_ready(s)) ELSE s

answer_revoke_and_ack(s) ==
    AndThen(IF need_another_commitment_signed(s.offered, s.received)
            THEN handle_commitment_signed_command(s, <<>>) ELSE s,
            LAMBDA a : finish_pending_ready(apply_retryable_tlc_operations(a)))

receive_revoke_and_ack(s, m, refused) ==
    AndThen(handle_revoke_and_ack_peer_message(s, m),
            LAMBDA a : answer_revoke_and_ack(update_tlc_status_on_ack(a, refused)))

-----------------------------------------------------------------------------
(* Reconnection.                                                           *)

mark_reestablishing_offline(s) ==
    [s EXCEPT !.reestablishing = TRUE, !.connectivity = "Offline"]

(* A channel whose closing transaction is out only watches the chain. *)
on_peer_disconnected(s) ==
    LET d == [s EXCEPT !.deferring = FALSE, !.deferred = <<>>,
                       !.ack_wait = FALSE, !.handshake_wait = FALSE]
    IN  IF "WAITING" \in s.flags
        THEN [d EXCEPT !.reestablishing = FALSE, !.connectivity = "Offline"]
        ELSE mark_reestablishing_offline(d)

(* Variant with a fault: the handshake begins without our message. *)
reconnect_silently(s) ==
    IF s.reestablishing /\ s.connectivity = "Offline"
    THEN [s EXCEPT !.connectivity = "Syncing"] ELSE s

on_peer_reconnected(s) ==
    IF s.reestablishing /\ s.connectivity = "Offline"
    THEN Send([s EXCEPT !.connectivity = "Syncing", !.handshake_wait = TRUE],
              ReestablishChannel(s))
    ELSE s

(* Only the runtime fields are lost; the rest was persisted by the last handler. *)
restore_offline_channel(s) ==
    on_peer_disconnected([s EXCEPT !.pending_ready = FALSE, !.retry_timer = FALSE])

restore_missing_revocation_send_nonce(s) ==
    IF s.rev_send # None \/ s.last_raa # NoRevokeAndAck THEN s
    ELSE [s EXCEPT !.rev_send = IF s.rev_verify # None THEN s.rev_verify ELSE s.rev_next]

(* Variant with a fault: no commitment may have arrived since. *)
validate_same_remote(s, m) ==
    s.waiting_ack /\ m.remote = s.local /\ s.diff.local = s.local /\ s.remote = s.diff.remote

validate_commit_diff_for_replay(s, m) ==
    /\ s.waiting_ack
    /\ m.remote = s.local
    /\ s.diff.local = s.local
    /\ s.remote \in {s.diff.remote, s.diff.remote + 1}

resolve_dual_owed_replay_order(s) ==
    IF s.remote > s.diff.remote \/ s.diff.hint = "CommitThenRevoke" \/ s.last_was_revoke
    THEN "CommitThenRevoke" ELSE "RevokeThenCommit"

(* Variants with a fault: the updates are not sent again, or nothing is. *)
resend_signature_only(s) == SendAll(s, s.diff.signed)
resend_nothing(s) == s

resend_commitment_from_diff(s) == SendAll(s, s.diff.updates \o s.diff.signed)

(* The commitment itself is asked of the network actor, which sends the    *)
(* channel a CommitmentSigned command later.                               *)
resend_tlcs_on_reestablish(s) ==
    LET adds == {i \in TlcIds : s.offered[i].status = "LocalAnnounced"}
        removes == {i \in TlcIds : s.received[i].status = "LocalRemoved"}
        a == InOrder(adds)
        r == InOrder(removes)
    IN  [SendAll(SendAll(s, [k \in DOMAIN a |-> AddTlc(a[k], s.offered[a[k]].amount)]),
                 [k \in DOMAIN r |-> RemoveTlc(r[k], s.received[r[k]].reason)])
         EXCEPT !.command = \/ adds \cup removes # {}
                            \/ need_another_commitment_signed(s.offered, s.received)]

(* Both sides owe something: our acknowledgement and our commitment. *)
replay_dual_owed(s) ==
    LET d == [s EXCEPT !.deferring = TRUE]
    IN  IF resolve_dual_owed_replay_order(s) = "RevokeThenCommit"
        THEN LET a == send_revoke_and_ack_message(d, TRUE)
             IN  IF Ok(a) THEN [resend_commitment_from_diff(a) EXCEPT !.last_was_revoke = FALSE]
                          ELSE a
        ELSE send_revoke_and_ack_message(resend_commitment_from_diff(d), TRUE)

apart(m, n) == m > n + 1 \/ n > m + 1

reestablish_ready_channel(t, m) ==
    LET s == restore_missing_revocation_send_nonce([t EXCEPT !.pending_ready = FALSE,
                                                             !.ack_wait = FALSE])
        owes_commitment == s.waiting_ack /\ s.local = m.remote
        owes_ack == s.remote = m.local + 1
        Pending(u) == [u EXCEPT !.reestablishing = FALSE, !.pending_ready = TRUE]
        Complete(u) == IF Ok(u) THEN on_reestablished_channel_ready(u) ELSE u
        replayed == [resend_commitment_from_diff(s) EXCEPT !.last_was_revoke = FALSE]
    IN  IF apart(m.local, s.remote) \/ apart(m.remote, s.local) THEN Fail(s, "BadReestablish")
        ELSE IF owes_commitment /\ ~validate_commit_diff_for_replay(s, m)
             THEN Fail(s, "StaleCommitDiff")
        ELSE IF s.local = m.remote /\ s.remote = m.local
             THEN IF s.waiting_ack THEN Pending(replayed)
                  ELSE Complete(resend_tlcs_on_reestablish(s))
        ELSE IF owes_ack /\ owes_commitment THEN Complete(replay_dual_owed(s))
        ELSE IF owes_ack THEN Complete(send_revoke_and_ack_message(s, TRUE))
        ELSE IF owes_commitment THEN Complete(replayed)
        ELSE Pending(s)

reestablish_closing_channel(s) ==
    step_shutting_down(IF "THEIR" \in s.flags THEN s ELSE Send(s, Shutdown("Default")), s.flags)

handle_reestablish_channel_message(s, m) ==
    LET answered == [s EXCEPT !.handshake_wait = FALSE]
    IN  IF s.state = "ChannelReady" THEN reestablish_ready_channel(answered, m)
                                    ELSE reestablish_closing_channel(answered)

schedule_if_reestablished(s) ==
    IF Ok(s) /\ ~s.reestablishing THEN schedule_next_retry_task(s) ELSE s

(* The peer's message may overtake our own PeerReconnected event. *)
receive_reestablish_channel(s, m) ==
    IF ~s.reestablishing THEN handle_reestablish_channel_message(s, m)
    ELSE schedule_if_reestablished(
             handle_reestablish_channel_message(on_peer_reconnected(s), m))

-----------------------------------------------------------------------------
(* Watchdogs.  A wait that has begun may last longer than its timeout.     *)

peer_does_not_reply_ack_in_time(s) ==
    s.ack_wait /\ s.state # "ShuttingDown" /\ ~s.reestablishing

(* Variant with a fault: looks only at channels that await an acknowledgement. *)
unbalanced_while_waiting(s) ==
    /\ s.state = "ChannelReady" /\ ~s.reestablishing /\ s.waiting_ack
    /\ s.rev_send = None \/ s.rev_verify = None

is_revocation_nonce_ledger_unbalanced(s) ==
    /\ s.state = "ChannelReady" /\ ~s.reestablishing /\ ~s.waiting_ack
    /\ s.rev_send = None \/ s.rev_verify = None

is_reestablish_stalled(s) ==
    /\ "WAITING" \notin s.flags
    /\ s.reestablishing /\ s.connectivity = "Syncing" /\ s.handshake_wait

-----------------------------------------------------------------------------
(* Actions.                                                                *)

(* Variant with a fault: a command already asked for is asked for again. *)
CommitKeepingCommand(p, s, queue) ==
    /\ ch' = [ch EXCEPT ![p] = [s EXCEPT !.out = <<>>, !.err = "None"]]
    /\ link' = [link EXCEPT ![p] = queue,
                            ![Other(p)] = IF up[p] /\ up[Other(p)] THEN @ \o s.out ELSE @]
    /\ errors' = [errors EXCEPT ![p] = IF Ok(s) THEN @ ELSE @ \cup {s.err}]

(* What is sent reaches the link while both ends have a session.  queue is *)
(* what is left in p's mailbox.                                            *)
Commit(p, s, queue) ==
    /\ ch' = [ch EXCEPT ![p] = [s EXCEPT !.out = <<>>, !.command = FALSE, !.err = "None"]]
    /\ link' = [link EXCEPT ![p] = queue,
                            ![Other(p)] = IF up[p] /\ up[Other(p)] THEN @ \o s.out ELSE @]
    /\ errors' = [errors EXCEPT ![p] = IF Ok(s) THEN @ ELSE @ \cup {s.err}]

(* A command's refusal is an answer to the caller, not a fault. *)
Refusals == {"InvalidState", "TlcLimit", "WaitingTlcAck",
             "UnknownTlc", "RepeatedProcessing", "NotCommitted"}

Answered(s) == [s EXCEPT !.err = IF @ \in Refusals THEN "None" ELSE @]

Command(p, s) == Commit(p, Answered(s), link[p])

Incoming(p, types) == up[p] /\ link[p] # <<>> /\ Head(link[p]).type \in types

Processed(p, s) ==
    /\ Commit(p, s, Tail(link[p]))
    /\ UNCHANGED <<up, issued, drops>>

(* A command that must wait is queued, and what it did is dropped. *)
OrRetry(p, s, op) ==
    Command(p, IF s.err = "WaitingTlcAck" THEN register_retryable_tlc_operation(ch[p], op) ELSE s)

AddTlcCommand(p) ==
    /\ p \in Senders
    /\ issued[p] < MaxTlc
    /\ \E amount \in Amounts :
          OrRetry(p, handle_add_tlc_command(ch[p], amount), AddTlc(issued[p], amount))
    /\ issued' = [issued EXCEPT ![p] = @ + 1]
    /\ UNCHANGED <<up, drops>>

(* Asked for TLCs that were applied; a later duplicate is refused. *)
RemoveTlcCommand(p) ==
    /\ \E id \in TlcIds, reason \in RemoveTlcReason :
          /\ ch[p].received[id].applied = {"ADD"}
          /\ ch[p].received[id].reason = "None"
          /\ OrRetry(p, handle_remove_tlc_command(ch[p], id, reason), RemoveTlc(id, reason))
    /\ UNCHANGED <<up, issued, drops>>

ShutdownCommand(p) ==
    /\ p \in Closers
    /\ ch[p].connectivity = "Online"
    /\ ch[p].state = "ChannelReady"
    /\ \A i \in TlcIds : ch[p].offered[i].status # "LocalAnnounced"
    /\ \E terms \in {"Default", "Custom"} :
          Command(p, maybe_transfer_to_shutdown(
              Send([ch[p] EXCEPT !.local_shutdown = terms, !.local_sig = NoSignature,
                                 !.state = "ShuttingDown", !.flags = {"OUR"}],
                   Shutdown(terms))))
    /\ UNCHANGED <<up, issued, drops>>

(* The network actor hands back the forced shutdown the channel asked for. *)
ForceShutdownCommand(p) ==
    /\ ch[p].force_close # "None"
    /\ ch[p].on_chain # "Commitment"
    /\ Command(p, [ch[p] EXCEPT !.state = "ShuttingDown", !.flags = {"WAITING"},
                                !.on_chain = "Commitment"])
    /\ UNCHANGED <<up, issued, drops>>

(* The one-shot check that set_waiting_ack schedules. *)
CheckActiveChannel(p) ==
    /\ Timeouts
    /\ ch[p].force_close = "None"
    /\ peer_does_not_reply_ack_in_time(ch[p])
    /\ Command(p, [ch[p] EXCEPT !.force_close = "PeerSilent"])
    /\ UNCHANGED <<up, issued, drops>>

(* The part of the maintenance tick that watches the protocol; the removals *)
(* it may ask for are RemoveTlc commands.                                   *)
MaintainChannelTlcs(p) ==
    /\ Timeouts
    /\ ch[p].force_close = "None"
    /\ \/ is_revocation_nonce_ledger_unbalanced(ch[p])
       \/ is_reestablish_stalled(ch[p])
    /\ Command(p, [ch[p] EXCEPT !.force_close = "Stalled"])
    /\ UNCHANGED <<up, issued, drops>>

(* The command that resend_tlcs_on_reestablish asked for. *)
RunCommitmentSignedCommand(p) ==
    /\ link[p] # <<>>
    /\ Head(link[p]) = CommitmentSignedCommand
    /\ Processed(p, Answered(handle_commitment_signed_command(ch[p], <<>>)))

schedule_unless_reestablishing(s) ==
    IF s.reestablishing THEN s ELSE schedule_next_retry_task(s)

RunRetryTask(p) ==
    /\ ch[p].retry_timer
    /\ Command(p, schedule_unless_reestablishing(
                      apply_retryable_tlc_operations([ch[p] EXCEPT !.retry_timer = FALSE])))
    /\ UNCHANGED <<up, issued, drops>>

ReceiveTlcUpdate(p) ==
    /\ Incoming(p, {"AddTlc", "RemoveTlc"}) /\ ~ch[p].reestablishing
    /\ Processed(p, receive_tlc_update(ch[p], Head(link[p])))

ReceiveCommitmentSigned(p) ==
    /\ Incoming(p, {"CommitmentSigned"}) /\ ~ch[p].reestablishing
    /\ Processed(p, handle_commitment_signed_peer_message(ch[p], Head(link[p])))

(* refused: the newly committed TLCs that cannot be applied. *)
ReceiveRevokeAndAck(p) ==
    /\ Incoming(p, {"RevokeAndAck"}) /\ ~ch[p].reestablishing
    /\ \E refused \in SUBSET newly_committed(
                              handle_revoke_and_ack_peer_message(ch[p], Head(link[p]))) :
          Processed(p, receive_revoke_and_ack(ch[p], Head(link[p]), refused))

ReceiveShutdown(p) ==
    /\ Incoming(p, {"Shutdown"}) /\ ~ch[p].reestablishing
    /\ Processed(p, handle_shutdown_peer_message(ch[p], Head(link[p])))

ReceiveClosingSigned(p) ==
    /\ Incoming(p, {"ClosingSigned"}) /\ ~ch[p].reestablishing
    /\ Processed(p, handle_closing_signed(ch[p], Head(link[p])))

(* The command it may ask for queues behind the k messages that are        *)
(* already in the mailbox, ahead of the ones still on the wire.            *)
CommitWithCommand(p, s, queue) ==
    \/ ~s.command /\ Commit(p, s, queue)
    \/ /\ s.command
       /\ \E k \in 0..Len(queue) :
             Commit(p, s, SubSeq(queue, 1, k) \o <<CommitmentSignedCommand>>
                              \o SubSeq(queue, k + 1, Len(queue)))

ReceiveReestablishChannel(p) ==
    /\ Incoming(p, {"ReestablishChannel"})
    /\ CommitWithCommand(p, receive_reestablish_channel(ch[p], Head(link[p])), Tail(link[p]))
    /\ UNCHANGED <<up, issued, drops>>

IgnoreWhileReestablishing(p) ==
    /\ ch[p].reestablishing
    /\ Incoming(p, {"AddTlc", "RemoveTlc", "CommitmentSigned", "RevokeAndAck",
                    "Shutdown", "ClosingSigned"})
    /\ Processed(p, ch[p])

(* p notices that the session is gone; what was on its way to p is lost,   *)
(* except a command of p's own.                                            *)
(* The other peer keeps receiving what p sent until it notices in turn.    *)
PeerDisconnected(p) ==
    /\ up[p]
    /\ up[Other(p)] => drops < MaxDrops
    /\ ch' = [ch EXCEPT ![p] = on_peer_disconnected(@)]
    /\ link' = [link EXCEPT ![p] = IF \E k \in DOMAIN @ : @[k] = CommitmentSignedCommand
                                   THEN <<CommitmentSignedCommand>> ELSE <<>>]
    /\ up' = [up EXCEPT ![p] = FALSE]
    /\ drops' = IF up[Other(p)] THEN drops + 1 ELSE drops
    /\ UNCHANGED <<issued, errors>>

(* p's node stops and starts again from its store. *)
Restart(p) ==
    /\ drops < MaxDrops
    /\ ch' = [ch EXCEPT ![p] = restore_offline_channel(@)]
    /\ link' = [link EXCEPT ![p] = <<>>]
    /\ up' = [up EXCEPT ![p] = FALSE]
    /\ drops' = drops + 1
    /\ UNCHANGED <<issued, errors>>

(* A new session is accepted once both ends have dropped the old one; its  *)
(* event queues behind what is left in the mailboxes.                      *)
PeerConnected ==
    /\ \A p \in Peers : ~up[p] /\ link[p] = <<>>
    /\ up' = [p \in Peers |-> TRUE]
    /\ UNCHANGED <<ch, link, issued, drops, errors>>

(* The paced ReestablishChannels pass reaches this channel. *)
PeerReconnected(p) ==
    /\ up[p]
    /\ ch[p].reestablishing /\ ch[p].connectivity = "Offline"
    /\ Commit(p, on_peer_reconnected(ch[p]), link[p])
    /\ UNCHANGED <<up, issued, drops>>

Next ==
    \/ PeerConnected
    \/ \E p \in Peers :
          \/ AddTlcCommand(p)
          \/ RemoveTlcCommand(p)
          \/ ShutdownCommand(p)
          \/ ForceShutdownCommand(p)
          \/ CheckActiveChannel(p)
          \/ MaintainChannelTlcs(p)
          \/ RunCommitmentSignedCommand(p)
          \/ RunRetryTask(p)
          \/ ReceiveTlcUpdate(p)
          \/ ReceiveCommitmentSigned(p)
          \/ ReceiveRevokeAndAck(p)
          \/ ReceiveShutdown(p)
          \/ ReceiveClosingSigned(p)
          \/ ReceiveReestablishChannel(p)
          \/ IgnoreWhileReestablishing(p)
          \/ PeerDisconnected(p)
          \/ Restart(p)
          \/ PeerReconnected(p)

Spec == Init /\ [][Next]_vars

(* The scheduling the code gives: an actor handles what is in its mailbox, *)
(* a scheduled task runs, a reconnect is retried until it succeeds, and    *)
(* the loss of a session is noticed by both ends.                          *)
Deliver(p) ==
    \/ ReceiveTlcUpdate(p)
    \/ ReceiveCommitmentSigned(p)
    \/ ReceiveRevokeAndAck(p)
    \/ ReceiveShutdown(p)
    \/ ReceiveClosingSigned(p)
    \/ ReceiveReestablishChannel(p)
    \/ IgnoreWhileReestablishing(p)
    \/ RunCommitmentSignedCommand(p)

NoticeDisconnect(p) == ~up[Other(p)] /\ PeerDisconnected(p)

(* Weak fairness, spelled out with each action's guard in place of ENABLED. *)
Fairness ==
    /\ []<>(\E p \in Peers : up[p] \/ link[p] # <<>>) \/ []<><<PeerConnected>>_vars
    /\ \A p \in Peers :
          /\ []<>(link[p] = <<>>) \/ []<><<Deliver(p)>>_vars
          /\ []<>(~up[p] \/ up[Other(p)]) \/ []<><<NoticeDisconnect(p)>>_vars
          /\ \/ []<>~(up[p] /\ ch[p].reestablishing /\ ch[p].connectivity = "Offline")
             \/ []<><<PeerReconnected(p)>>_vars
          /\ []<>(~ch[p].retry_timer \/ blocked(ch[p])) \/ []<><<RunRetryTask(p)>>_vars
          /\ \/ []<>~(ch[p].force_close = "None" /\ Timeouts
                       /\ peer_does_not_reply_ack_in_time(ch[p]))
             \/ []<><<CheckActiveChannel(p)>>_vars
          /\ \/ []<>~(ch[p].force_close = "None" /\ Timeouts
                       /\ (\/ is_revocation_nonce_ledger_unbalanced(ch[p])
                           \/ is_reestablish_stalled(ch[p])))
             \/ []<><<MaintainChannelTlcs(p)>>_vars
          /\ \/ []<>~(ch[p].force_close # "None" /\ ch[p].on_chain # "Commitment")
             \/ []<><<ForceShutdownCommand(p)>>_vars

FairSpec == Spec /\ Fairness

-----------------------------------------------------------------------------
(* Types.                                                                  *)

Tlc == [status : OutboundTlcStatus \cup InboundTlcStatus \cup {"Absent"},
        amount : Nat, reason : RemoveTlcReason \cup {"None"},
        applied : SUBSET {"ADD", "REMOVE"}, at : [local : Nat, remote : Nat]]

TlcUpdate == [type : {"AddTlc", "RemoveTlc"}, id : Nat, amount : Nat,
              reason : RemoveTlcReason \cup {"None"}]

Commitment == [version : Nat, signer : Nat, verifier : Nat,
               tlcs : SUBSET [by : {"signer", "verifier"}, id : TlcIds, amount : Nat,
                              signer_key : Nat, verifier_key : Nat]]

CommitmentSigned == [type : {"CommitmentSigned"}, own : Nat, peer : Nat,
                     content : Commitment, next : Nat]

RevokeAndAck == [type : {"RevokeAndAck"}, number : Nat, nonce : Nat, next : Nat]

ClosingSigned == [type : {"ClosingSigned"}, own : Nat, peer : Nat, mine : Nat, theirs : Nat,
                  my_terms : ShutdownTerms \cup {"None"}, their_terms : ShutdownTerms \cup {"None"}]

Message == TlcUpdate \cup CommitmentSigned \cup RevokeAndAck \cup ClosingSigned
           \cup [type : {"ReestablishChannel"}, local : Nat, remote : Nat]
           \cup [type : {"Shutdown"}, terms : ShutdownTerms]
           \cup {CommitmentSignedCommand}

CommitDiff == [local : Nat, remote : Nat, updates : Seq(TlcUpdate),
               signed : Seq(CommitmentSigned), hint : {"RevokeThenCommit", "CommitThenRevoke"}]

Errors == {"None", "WaitingTlcAck", "TlcLimit", "InvalidState", "UnknownTlc",
           "RepeatedProcessing", "NotCommitted", "ConflictingTlc", "UnexpectedTlcId",
           "TooManyDeferred", "BadCommitment", "NoCachedAck", "UnexpectedRevokeAndAck",
           "NoRevocationNonce", "BadRevocation", "CannotBuild", "BadReestablish",
           "StaleCommitDiff", "ShutdownWithPendingInbound", "RepeatedShutdown",
           "ClosingMismatch"}

Fields == DOMAIN NewChannel(0, 0)

ChannelOK(s) ==
    /\ DOMAIN s = Fields
    /\ s.state \in {"ChannelReady", "ShuttingDown"}
    /\ s.flags \subseteq {"OUR", "THEIR", "DROPPING", "WAITING"}
    /\ s.local \in Nat /\ s.remote \in Nat
    /\ s.waiting_ack \in BOOLEAN
    /\ s.offered \in [TlcIds -> Tlc] /\ s.received \in [TlcIds -> Tlc]
    /\ s.next_offered \in Nat /\ s.next_received \in Nat
    /\ s.to_local \in Nat /\ s.to_remote \in Nat
    /\ s.committed_nonce \in Nat
    /\ s.rev_send \in Nat /\ s.rev_verify \in Nat /\ s.rev_next \in Nat
    /\ s.points \subseteq Nat
    /\ s.last_raa \in RevokeAndAck
    /\ s.last_was_revoke \in BOOLEAN
    /\ s.diff \in CommitDiff
    /\ s.reestablishing \in BOOLEAN /\ s.pending_ready \in BOOLEAN
    /\ s.connectivity \in {"Online", "Offline", "Syncing"}
    /\ s.ack_wait \in BOOLEAN /\ s.handshake_wait \in BOOLEAN
    /\ s.deferring \in BOOLEAN
    /\ s.deferred \in Seq(TlcUpdate)
    /\ s.retry \in Seq(TlcUpdate)
    /\ s.retry_timer \in BOOLEAN
    /\ s.local_shutdown \in ShutdownTerms \cup {"None"}
    /\ s.remote_shutdown \in ShutdownTerms \cup {"None"}
    /\ s.local_sig \in ClosingSigned /\ s.remote_sig \in ClosingSigned
    /\ s.force_close \in {"None", "Balance", "Commitment", "PeerSilent", "Stalled"}
    /\ s.on_chain \in {"None", "Closing", "Commitment"}
    /\ s.out \in Seq(Message)
    /\ s.command \in BOOLEAN
    /\ s.err \in Errors

(* Type invariant: every channel, message and log keeps its type, and no   *)
(* handler leaves an unsent message, command or error behind.              *)
TypeOK ==
    /\ DOMAIN ch = Peers
    /\ \A p \in Peers : /\ ChannelOK(ch[p])
                        /\ ch[p].out = <<>> /\ ~ch[p].command /\ Ok(ch[p])
    /\ link \in [Peers -> Seq(Message)]
    /\ up \in [Peers -> BOOLEAN]
    /\ issued \in [Peers -> Nat]
    /\ drops \in Nat
    /\ errors \in [Peers -> SUBSET Errors]

-----------------------------------------------------------------------------
(* Safety.                                                                 *)

(* Money is neither created nor lost: in each peer's books the two shares  *)
(* always add up to what the channel was funded with, through every        *)
(* settlement by apply_settled_remove_tlcs, replay and restart.            *)
FundsConserved ==
    \A p \in Peers : ch[p].to_local + ch[p].to_remote = Balance[p] + Balance[Other(p)]

(* The peers count commitments in step: the number of the commitment p     *)
(* signs next is the number its peer verifies next, or one behind it while *)
(* p waits for the acknowledgement.  Two commitments are never outstanding *)
(* and the number check of ReestablishChannel always has an answer.        *)
NumbersInStep ==
    \A p \in Peers : LET s == ch[p]
                         q == ch[Other(p)]
                     IN  q.remote = s.local \/ (q.remote = s.local + 1 /\ s.waiting_ack)

(* The stored CommitDiff is of the commitment that awaits its RevokeAndAck. *)
DiffIsCurrent(s) ==
    s.waiting_ack => /\ s.diff.local = s.local
                     /\ Len(s.diff.signed) = 1
                     /\ s.diff.signed[1].content.version = s.local

(* While p waits for an acknowledgement, the stored CommitDiff is the one  *)
(* that commitment was sent from, so validate_commit_diff_for_replay       *)
(* accepts it whenever the connection is lost and the peer asks for it.    *)
StoredDiffIsCurrent == \A p \in Peers : DiffIsCurrent(ch[p])

(* An honest peer's CommitmentSigned always verifies: both sides build the *)
(* same transaction from their own ledgers, with the nonces the other one  *)
(* expects, so verify_commitment_signed_and_send_ack and the balance       *)
(* arithmetic never close the channel by force.                            *)
HonestCommitmentsVerify ==
    \A p \in Peers : ch[p].force_close \notin {"Balance", "Commitment"}

(* With an unbroken connection no handler of either peer ever refuses a    *)
(* message of the other.                                                   *)
NothingIsRefused == \A p \in Peers : errors[p] = {}

(* Across reconnects and restarts the only messages a handler refuses are  *)
(* TLC updates it has already got; in particular every RevokeAndAck        *)
(* verifies and every ReestablishChannel finds a CommitDiff to replay.     *)
OnlyReplaysAreRefused == \A p \in Peers : errors[p] \subseteq {"TlcLimit", "RepeatedProcessing"}

(* Nothing is on its way and both peers have dealt with the reconnect. *)
Quiet == \A p \in Peers : up[p] /\ link[p] = <<>> /\ ch[p].connectivity # "Offline"

(* Whenever the wire falls silent the peers agree: no acknowledgement,     *)
(* handshake or deferred update is outstanding, commitment numbers, nonces *)
(* and balances mirror each other, every TLC has reached the same stage on *)
(* both sides, and a queued operation has a retry task to run it.          *)
QuietPeersAgree ==
    Quiet => \A p \in Peers :
        LET s == ch[p]
            q == ch[Other(p)]
        IN  /\ s.connectivity = "Online" /\ ~s.reestablishing /\ ~s.waiting_ack
            /\ s.deferred = <<>>
            /\ s.retry # <<>> => s.retry_timer
            /\ s.local = q.remote /\ s.committed_nonce = q.local
            /\ s.to_local = q.to_remote
            /\ ~need_another_commitment_signed(s.offered, s.received)
            /\ (s.rev_send = None) = (q.rev_verify = None)
            /\ {i \in TlcIds : s.offered[i].status = "Committed"}
                  = {i \in TlcIds : q.received[i].status = "Committed"}

(* The revocation nonces of a channel do not stay unbalanced: when nothing *)
(* is on its way, is_waiting_tlc_ack no longer blocks TLC commands.        *)
NonceLedgerRebalances == Quiet => \A p \in Peers : ~is_waiting_tlc_ack(ch[p])

(* Every TLC in p's ledger is gone or its removal is confirmed. *)
Resolved(p) ==
    \A i \in TlcIds : /\ ch[p].offered[i].status \in {"Absent", "RemoveAckConfirmed"}
                      /\ ch[p].received[i].status \in {"Absent", "RemoveAckConfirmed"}

(* A channel is closed cooperatively only when both ledgers are settled,   *)
(* and then both peers agree on what the closing transaction pays.         *)
ClosedWithoutPendingTlcs ==
    \A p \in Peers : LET s == ch[p]
                         q == ch[Other(p)]
                     IN  s.on_chain = "Closing" =>
                            /\ Resolved(p) /\ Resolved(Other(p))
                            /\ s.to_local = q.to_remote /\ s.to_remote = q.to_local

(* Once both Shutdowns are exchanged, no TLC is pending and nothing is on  *)
(* its way, the closing transaction is signed by both.                     *)
QuietCloseIsSigned ==
    Quiet => \A p \in Peers :
        {"OUR", "THEIR"} \subseteq ch[p].flags /\ Resolved(p) => ch[p].on_chain # "None"

(* A replayed AddTlc that describes a TLC we already hold is accepted.     *)
ReplayedAddIsAccepted == \A p \in Peers : "TlcLimit" \notin errors[p]

-----------------------------------------------------------------------------
(* What a step may never do.                                               *)

Stage(t) ==
    CASE t.status \in {"LocalAnnounced", "RemoteAnnounced"} -> 1
      [] t.status = "AnnounceWaitPrevAck" -> 2
      [] t.status = "AnnounceWaitAck" -> 3
      [] t.status = "Committed" -> 4
      [] t.status \in {"RemoteRemoved", "LocalRemoved"} -> 5
      [] t.status = "RemoveWaitPrevAck" -> 6
      [] t.status = "RemoveWaitAck" -> 7
      [] t.status = "RemoveAckConfirmed" -> 8
      [] OTHER -> 0

(* A TLC never goes back to an earlier stage, and leaves the ledger only   *)
(* after its removal is confirmed: no replayed, deferred or repeated       *)
(* message makes a peer forget or undo an update.                          *)
LadderNeverGoesBack ==
    [][\A p \in Peers, i \in TlcIds :
          LET Forward(t, u) == Stage(u) >= Stage(t)
                               \/ (u.status = "Absent" /\ Stage(t) >= 5 /\ t.reason # "None")
          IN  /\ Forward(ch[p].offered[i], ch'[p].offered[i])
              /\ Forward(ch[p].received[i], ch'[p].received[i])]_ch

-----------------------------------------------------------------------------
(* Liveness, under FairSpec.                                               *)

(* Every commitment is eventually acknowledged, lost messages or not. *)
AckArrives == \A p \in Peers : ch[p].waiting_ack ~> ~ch[p].waiting_ack

(* After the connection is lost both ends eventually finish the handshake. *)
ReconnectCompletes == \A p \in Peers : []<>(ch[p].connectivity = "Online")

(* The retry queue is emptied: an operation that met a busy channel is     *)
(* neither forgotten nor starved.                                          *)
RetryQueueDrains == \A p \in Peers : ch[p].retry # <<>> ~> ch[p].retry = <<>>

(* A peer that cannot update TLCs gets unblocked or the channel goes on    *)
(* chain: every way to be stuck is covered by one of the watchdogs.        *)
WaitEndsOrGoesOnChain ==
    \A p \in Peers : blocked(ch[p]) ~> \/ ~blocked(ch[p])
                                       \/ \E q \in Peers : ch[q].on_chain # "None"

(* A cooperative close is eventually signed once its TLCs are resolved. *)
CloseCompletes ==
    \A p \in Peers : ({"OUR", "THEIR"} \subseteq ch[p].flags /\ Resolved(p))
                        ~> ch[p].on_chain = "Closing"

=============================================================================
