----------------------------- MODULE MCCashDesk -------------------------------
(* An operator and an administrator; the operator opens up to two shifts.  *)
EXTENDS CashDesk

MCOperators == {"ana", "root"}
MCAdmins == {"root"}
S1 == <<"ana", 1>>
S2 == <<"ana", 2>>
M1 == <<"ana", 1>>
M2 == <<"ana", 2>>
R1 == <<"root", 1>>
MCShiftKeys == {S1, S2}
MCMoveKeys == {M1, M2, R1}

Openings == {[op |-> "ensure", by |-> "ana", shift |-> S1],
             [op |-> "ensure", by |-> "ana", shift |-> S2],
             [op |-> "open", by |-> "ana", shift |-> S2, cents |-> 1]}
OwnClose == [op |-> "close", by |-> "ana", shift |-> S1, force |-> FALSE,
             counted |-> 1, float |-> 1]
AdminClose == [op |-> "close", by |-> "root", shift |-> S1, force |-> FALSE,
               counted |-> 1, float |-> 0]
ForcedClose == [op |-> "close", by |-> "root", shift |-> S1, force |-> TRUE,
                counted |-> 0, float |-> 0]

(* Movements of one shift and its closes: M1 is recorded, and reversed,    *)
(* undone or documented by two callers.                                    *)
Movements ==
    [op : {"record"}, by : {"ana"}, shift : {S1}, move : {M1},
     kind : {"outlay", "settlement"}]
        \cup {[op |-> "record", by |-> "root", shift |-> S1, move |-> R1, kind |-> "gasto"],
              [op |-> "reverse", by |-> "ana", shift |-> S1, move |-> M2, of |-> M1],
              [op |-> "reverse", by |-> "root", shift |-> S1, move |-> R1, of |-> M1],
              [op |-> "undo", by |-> "ana", move |-> M2, of |-> M1],
              [op |-> "support", by |-> "ana", move |-> M1, of |-> M1],
              [op |-> "compensate", by |-> "root", move |-> R1, of |-> R1]}

MCCalls == Openings \cup Movements \cup {OwnClose, ForcedClose}
DrawerCalls == Openings \cup {OwnClose, AdminClose}

=============================================================================
