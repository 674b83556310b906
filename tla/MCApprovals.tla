------------------------------ MODULE MCApprovals ------------------------------
(* Instances of Approvals for TLC: what each call asks for, and the rows that  *)
(* exist when it is sent.                                                      *)
EXTENDS Approvals, TLC

CONSTANTS c1, c2, c3

MCCall == {c1, c2, c3}
MCId == 1..3
MCDealId == 1..3
MCLinkLives == {1}

Text(about, text) == [about |-> about, text |-> text]
Base == [type |-> "condonation", by |-> "ana", key |-> "k1", content |-> Text("quota", "x"), deal |-> NoDeal, terms |-> "money",
         decision |-> "approved", grounds |-> "g1", session |-> "s1"]

Do(kind) == [kind |-> kind] @@ Base
Create(type, content) == [Do("create") EXCEPT !.type = type, !.content = content]
Decide(type, by, decision, session) ==
  [Do("decide") EXCEPT !.type = type, !.by = by, !.decision = decision, !.session = session]
Execute(type, by) == [Do("execute") EXCEPT !.type = type, !.by = by]

Agree(about, key) == [Do("agree") EXCEPT !.content = Text(about, "x"), !.key = key]
Revise(deal, terms, key) == [Do("revise") EXCEPT !.deal = deal, !.terms = terms, !.key = key]

Row(type, created) ==
  [type |-> type, by |-> "ana", key |-> "k0", content |-> Text("quota", "old"),
   deal |-> NoDeal, created |-> created, expires |-> 1 + Life, status |-> "pending",
   decider |-> Nobody, grounds |-> "none", session |-> "none", used |-> NotYet]

\* Approved by bea, and asked under an agreement if deal is one
Approved(type, deal) ==
  [Row(type, 1) EXCEPT !.deal = deal, !.status = "approved", !.decider = "bea",
                       !.grounds = "g1", !.session = "s1"]

Deal(about, terms) ==
  [about |-> about, terms |-> terms, status |-> "ACTIVE", number |-> 1, of |-> NoDeal,
   by |-> "ana", key |-> "k0", asked |-> <<>>]

Empty == [i \in {} |-> 0]
Scene(store, queue, x, y, z) ==
  [store |-> store, deals |-> Empty, walk |-> queue, cmd |-> (c1 :> x @@ c2 :> y @@ c3 :> z)]
Under(deals, scene) == [scene EXCEPT !.deals = deals]

MCDealScenes ==
  LET open == 1 :> Deal("quota", "open")
      plan == 1 :> Deal("other", "money")
      ask == [Create("community", Text("quota", "x")) EXCEPT !.deal = 1]
      work == Execute("community", "bea")
      worked == 1 :> Approved("community", 1)
  IN {
    \* work under an agreement that is revised, and paid meanwhile
    Under(open, Scene(worked, "none", Revise(1, "open", "k1"), work, Do("pay"))),
    \* work beside a revision, and another treasurer who asks for it
    Under(open, Scene(worked, "none", Revise(1, "open", "k1"), work, Execute("community", "caro"))),
    \* a request under an agreement that is revised, and its retry
    Under(open, Scene(Empty, "none", ask, Revise(1, "open", "k1"), ask)),
    \* a revision, its retry and another one; then one of the other representation
    Under(open, Scene(Empty, "none", Revise(1, "open", "k1"), Revise(1, "open", "k1"), Revise(1, "open", "k2"))),
    Under(open, Scene(Empty, "none", Revise(1, "money", "k1"), Revise(1, "open", "k2"), Do("pay"))),
    \* two agreements about one obligation, and the retry of one
    Scene(Empty, "none", Agree("quota", "k1"), Agree("quota", "k1"), Agree("quota", "k2")),
    \* an agreement, its retry and a payment
    Scene(Empty, "none", Agree("quota", "k1"), Agree("quota", "k1"), Do("pay")),
    \* one key for two obligations and a revision
    Under(plan, Scene(Empty, "none", Agree("quota", "k1"), Agree("other", "k1"), Revise(1, "money", "k1"))),
    \* a condonation and a payment, and an agreement about what was condoned
    Scene(1 :> Approved("condonation", NoDeal), "none", Execute("condonation", "bea"), Do("pay"),
          Agree("quota", "k1"))}

MCScenes ==
  LET x == Text("quota", "x")
      y == Text("other", "x")
      yes(type) == Decide(type, "bea", "approved", "s1")
      no(type) == Decide(type, "bea", "rejected", "s1")
  IN UNION {{
       \* a request, its retry, and another one under the same key
       Scene(Empty, "none", Create(type, x), Create(type, x), Create(type, y)),
       \* two treasurers and the execution
       Scene(1 :> Row(type, 1), "none", yes(type), Decide(type, "caro", "rejected", "s1"),
             Execute(type, "bea")),
       \* a change of mind, and the requester who would decide
       Scene(2 :> Row(type, 1), "none", yes(type), no(type), Decide(type, "ana", "approved", "s1")),
       \* a decision and its retry from another session
       Scene(1 :> Row(type, 1), "none", yes(type), Decide(type, "bea", "approved", "s2"), yes(type)),
       \* the queue is read while requests are created and decided
       Scene(1 :> Row(type, 1) @@ 3 :> [Row(type, 1) EXCEPT !.key = "k9"], type, yes(type), Create(type, x), no(type))
     } : type \in Requests}
     \cup {
       \* a link, answered twice at once
       Scene(Empty, "none", Do("mint"), Do("answer"), Do("answer"))}
     \cup MCDealScenes

\* A request that is executed, beside a link nobody answers
MCOldScenes ==
  {Scene(1 :> Row("condonation", 1), "none", Do("mint"),
         Decide("condonation", "bea", "approved", "s1"), Execute("condonation", "bea"))}
================================================================================
