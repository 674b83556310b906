---------------------------- MODULE MCDuesLedger ------------------------------
(* Two obligations of one and two cents, three requests, and the mixes of  *)
(* commands in which they meet.                                            *)
EXTENDS DuesLedger, TLC

CONSTANTS r1, r2, r3

MCObligations == {1, 2}
MCAmount == 1 :> 1 @@ 2 :> 2
MCRequests == {r1, r2, r3}
MCKeys == {"a", "b", "c"}

Ask(kind, key, targets) ==
    [kind |-> kind, key |-> key, targets |-> targets, of |-> None]
Undo(key, of) == [kind |-> "REVERSAL", key |-> key, targets |-> {}, of |-> of]

PayAll == Ask("PAYMENT", "a", {1, 2})

(* In each, r1 and r2 and r3 start in any order.  *)
Mix(x, y, z) == r1 :> x @@ r2 :> y @@ r3 :> z

MCWorkloads == {
    \* a payment, its retry, and another operator's payment
    Mix(PayAll, PayAll, Ask("PAYMENT", "b", {1, 2})),
    \* one key for two selections
    Mix(PayAll, Ask("PAYMENT", "a", {2}), Ask("NON_CASH", "b", {1, 2})),
    \* a payment reversed twice
    Mix(PayAll, Undo("b", "a"), Undo("c", "a")),
    \* a payment reversed, and the retry of the reversal
    Mix(PayAll, Undo("b", "a"), Undo("b", "a")),
    \* a payment reversed and paid again
    Mix(PayAll, Undo("b", "a"), Ask("PAYMENT", "c", {1, 2})),
    \* a reversal against a settlement in the client's order
    Mix(PayAll, Undo("b", "a"), Ask("NON_CASH", "c", {1, 2})),
    \* a non-cash settlement cannot be reversed
    Mix(Ask("NON_CASH", "a", {1}), Undo("b", "a"), Ask("PAYMENT", "c", {1, 2})),
    \* settlements against a payment
    Mix(Ask("NON_CASH", "a", {1, 2}), Ask("NON_CASH", "b", {1, 2}),
        Ask("PAYMENT", "c", {1, 2})),
    \* a condonation executed twice, against a payment
    Mix(Ask("CONDONATION", "a", {1, 2}), Ask("CONDONATION", "a", {1, 2}),
        Ask("PAYMENT", "b", {1, 2})),
    \* two approvals, and a settlement that lowers the balance under them
    Mix(Ask("CONDONATION", "a", {2}), Ask("COMMUNITY", "b", {2}),
        Ask("NON_CASH", "c", {2})),
    \* community work executed twice, against a payment
    Mix(Ask("COMMUNITY", "a", {2}), Ask("COMMUNITY", "a", {2}),
        Ask("PAYMENT", "b", {1, 2}))}

=============================================================================
