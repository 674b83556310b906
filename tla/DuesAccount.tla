----------------------------- MODULE DuesAccount ------------------------------
(***************************************************************************)
(* What the dues ledger promises, with every request an atomic entry: an   *)
(* account of obligations on which a key is used at most once.             *)
(***************************************************************************)
EXTENDS Integers

CONSTANTS Obligations, Amount, Keys, None

VARIABLES
    net,       \* allocated minus compensated cents of each obligation
    treated,   \* condoned cents of each obligation
    entry      \* what was entered under each key

Open(o) == Amount[o] - net[o] - treated[o]

Enter(k, kind, cents, of) ==
    /\ entry[k] = None
    /\ entry' = [entry EXCEPT ![k] = [kind |-> kind, cents |-> cents, of |-> of]]

Init == /\ net = [o \in Obligations |-> 0]
        /\ treated = [o \in Obligations |-> 0]
        /\ entry = [k \in Keys |-> None]

Cents == [Obligations -> UNION {0 .. Amount[o] : o \in Obligations}]

Credit(f) == /\ net' = [o \in Obligations |-> net[o] + f[o]]
             /\ UNCHANGED treated

(* A payment clears every obligation it selects. *)
Pay(k, f) ==
    /\ \A o \in Obligations : f[o] > 0 => f[o] = Open(o)
    /\ Enter(k, "PAYMENT", f, None)
    /\ Credit(f)

(* A non-cash settlement or community work takes at most what is open. *)
Settle(k, kind, f) ==
    /\ \A o \in Obligations : f[o] > 0 => f[o] <= Open(o)
    /\ Enter(k, kind, f, None)
    /\ Credit(f)

(* A payment is given back whole, and once. *)
Reverse(k, p) ==
    /\ entry[p] # None /\ entry[p].kind = "PAYMENT"
    /\ \A q \in Keys : entry[q] # None => entry[q].of # p
    /\ Enter(k, "REVERSAL", entry[p].cents, p)
    /\ net' = [o \in Obligations |-> net[o] - entry[p].cents[o]]
    /\ UNCHANGED treated

(* A condonation writes off the amounts its approval froze.  That they are *)
(* still open is not promised.                                             *)
Condone(k, f) ==
    /\ Enter(k, "CONDONATION", f, None)
    /\ treated' = [o \in Obligations |-> treated[o] + f[o]]
    /\ UNCHANGED net

Next ==
    \E k \in Keys :
       \/ \E f \in Cents : \/ Pay(k, f)
                           \/ Settle(k, "NON_CASH", f)
                           \/ Settle(k, "COMMUNITY", f)
                           \/ Condone(k, f)
       \/ \E p \in Keys : Reverse(k, p)

Spec == Init /\ [][Next]_<<net, treated, entry>>

=============================================================================
