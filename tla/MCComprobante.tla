----------------------------- MODULE MCComprobante -----------------------------
(* Instances of Comprobante for TLC: who asks for what, and where.               *)
EXTENDS Comprobante, TLC

CONSTANTS c1, c2

MCCall == {c1, c2}
MCReplica == 1..2

Receipt(at, fp) == [kind |-> "receipt", at |-> at, fp |-> fp]
Form(at) == [kind |-> "form", at |-> at, fp |-> 0]

\* A receipt, and the same again here or on the other replica, another one under
\* the same key, or a form that has the page it needs
MCScenes ==
  {c1 :> Receipt(1, 1) @@ c2 :> other :
     other \in {Receipt(1, 1), Receipt(2, 1), Receipt(2, 2), Form(1)}}
================================================================================
