------------------------------ MODULE Agreements ------------------------------
(* tesoreria.dues_agreements: what a member and the club agree about an        *)
(* obligation, its revisions, and the obligation itself as far as agreements   *)
(* and the requests of Approvals look at it: owing its whole amount, paid, or  *)
(* condoned (apps/api/src/modules/dues/agreements.ts).                         *)
(*                                                                             *)
(* A mutation takes its row locks statement by statement.  What follows the    *)
(* last lock is one step: nobody else can see or prevent it before the commit. *)
EXTENDS Naturals, FiniteSets

CONSTANTS Call,     \* the HTTP calls
          DealId    \* ids of agreements

ASSUME DealIdAssumption == DealId \subseteq Nat \ {0}

VARIABLES cmd,        \* what each call asks for, fixed
          call,       \* progress of each call
          agreement,  \* [id -> [about, terms, status, number, of, by, key, asked]]
          paid,       \* obligations whose allocations add up to their amount
          condoned    \* obligations with a condonation treatment

debts == <<agreement, paid, condoned>>

NotYet == 0
NoDeal == 0
NoDebt == "none"
NoWork == [type |-> "none"]

\* owed: what the selection read; debt, deal: the obligation and the agreement
\* the transaction has locked; work: the row it will write.
Idle == [pc |-> "idle", id |-> 0, begun |-> NotYet, owed |-> FALSE,
         debt |-> NoDebt, deal |-> NoDeal, work |-> NoWork]

\* A table with the row of id i written
With(table, i, row) == [j \in DOMAIN table \cup {i} |-> IF j = i THEN row ELSE table[j]]

Kind(c) == cmd[c].kind
Running(c) == call[c].pc \notin {"idle", "ok", "refused"}
Goto(c, pc) == call' = [call EXCEPT ![c].pc = pc]
Finish(c, pc, id) == call' = [call EXCEPT ![c] = [Idle EXCEPT !.pc = pc, !.id = id]]
Refuse(c) == Finish(c, "refused", 0)

\* A table of agreements as these calls leave it, whatever they were: an obligation
\* has at most one active agreement, whatever was superseded has one successor, and
\* an operator's key is that of one agreement.
IsDeal(d) ==
  d = [about |-> d.about, terms |-> d.terms, status |-> d.status, number |-> d.number,
       of |-> d.of, by |-> d.by, key |-> d.key, asked |-> d.asked]
Lineage(deals) ==
  /\ DOMAIN deals \subseteq DealId
  /\ \A i \in DOMAIN deals :
       /\ IsDeal(deals[i]) /\ deals[i].status \in {"ACTIVE", "SUPERSEDED"}
       /\ deals[i].of \in {NoDeal} \cup DOMAIN deals
       /\ (deals[i].status = "SUPERSEDED") <=> \E j \in DOMAIN deals : deals[j].of = i
  /\ \A i, j \in DOMAIN deals :
       /\ deals[j].of = i => /\ deals[j].about = deals[i].about /\ deals[j].terms = deals[i].terms
                             /\ deals[j].number = deals[i].number + 1
       /\ \/ deals[i].about = deals[j].about /\ {deals[i].status, deals[j].status} = {"ACTIVE"}
          \/ deals[i].by = deals[j].by /\ deals[i].key = deals[j].key
          \/ deals[i].of = deals[j].of /\ deals[i].of # NoDeal
          => i = j

------------------------------------------------------------------------------
\* Helpers

Owing(about) == about \notin paid \cup condoned

\* SELECT ... FOR UPDATE waits for the row; an aborted or committed call has none.
DebtIsFree(about) == \A d \in Call : call[d].debt # about
DealIsFree(i) == \A d \in Call : call[d].deal # i
LockDebt(c, about, pc) ==
  DebtIsFree(about) /\ call' = [call EXCEPT ![c] = [@ EXCEPT !.debt = about, !.pc = pc]]
LockDeal(c, i, pc) ==
  DealIsFree(i) /\ call' = [call EXCEPT ![c] = [@ EXCEPT !.deal = i, !.pc = pc]]

ActiveDeals(about) ==
  {i \in DOMAIN agreement : agreement[i].about = about /\ agreement[i].status = "ACTIVE"}

\* The URL, which names the agreement to revise, and the body
Asked(c) == <<Kind(c), cmd[c].deal, cmd[c].terms, cmd[c].content>>
Known(c) == {i \in DOMAIN agreement : agreement[i].by = cmd[c].by /\ agreement[i].key = cmd[c].key}
Replay(c) ==
  /\ \E i \in Known(c) :
       Finish(c, IF agreement[i].asked = Asked(c) THEN "ok" ELSE "refused", i)
  /\ UNCHANGED agreement

\* The trigger of migration 0058 bounds a monetary plan by what allocations have
\* left of the amount; it does not look at the treatments.
Excessive(about, terms) == terms = "money" /\ about \in paid

\* INSERT ... VALUES / SELECT ... FROM superseded
Record(c, about, of, number, others) ==
  \E i \in DealId \ DOMAIN agreement :
    /\ agreement' = With(others, i,
         [about |-> about, terms |-> cmd[c].terms, status |-> "ACTIVE", number |-> number,
          of |-> of, by |-> cmd[c].by, key |-> cmd[c].key, asked |-> Asked(c)])
    /\ Finish(c, "ok", i)

------------------------------------------------------------------------------
\* POST /dues/agreements: INSERT ... ON CONFLICT (operator_id, caller_key) DO NOTHING

\* The BEFORE INSERT trigger locks the obligation and bounds the amount ...
AgreeLock(c) ==
  /\ Kind(c) = "agree" /\ call[c].pc = "idle"
  /\ LockDebt(c, cmd[c].content.about, "agree")
  /\ UNCHANGED <<cmd, debts>>

\* UNIQUE (obligation_id) WHERE status = 'ACTIVE'
NoneActive(c) == ActiveDeals(cmd[c].content.about) = {}

\* ... before the key is looked for: a retry that is too much by now is refused.
AgreeInsert(c) ==
  LET about == cmd[c].content.about IN
  /\ call[c].pc = "agree"
  /\ CASE Excessive(about, cmd[c].terms) -> Refuse(c) /\ UNCHANGED agreement
       [] Known(c) # {} /\ ~Excessive(about, cmd[c].terms) -> Replay(c)
       [] OTHER -> IF NoneActive(c)
                   THEN Record(c, about, NoDeal, 1, agreement)
                   ELSE Refuse(c) /\ UNCHANGED agreement
  /\ UNCHANGED <<cmd, paid, condoned>>

------------------------------------------------------------------------------
\* POST /dues/agreements/:id/reschedule (monetary plans) and /revisions
\* (negotiated terms): the obligation first, then the agreement

ReviseLock(c) ==
  /\ Kind(c) = "revise" /\ call[c].pc = "idle"
  /\ IF cmd[c].deal \in DOMAIN agreement
     THEN LockDebt(c, agreement[cmd[c].deal].about, "row")
     ELSE Refuse(c)
  /\ UNCHANGED <<cmd, debts>>

ReviseRow(c) ==
  /\ call[c].pc = "row"
  /\ LockDeal(c, cmd[c].deal, "revise")
  /\ UNCHANGED <<cmd, debts>>

RevisableOnce(c, old) == old.terms = cmd[c].terms /\ ~Excessive(old.about, cmd[c].terms)   \* mutant: the status is trusted from before the wait

\* The service compares the terms version, the UPDATE of the CTE the status, and
\* the trigger bounds the successor's amount.
Revisable(c, old) ==
  /\ old.status = "ACTIVE"
  /\ old.terms = cmd[c].terms
  /\ ~Excessive(old.about, cmd[c].terms)

ReviseInsert(c) ==
  LET i == cmd[c].deal
      old == agreement[i]
  IN
  /\ call[c].pc = "revise"
  /\ CASE Known(c) # {} -> Replay(c)
       [] Known(c) = {} /\ Revisable(c, old) ->
            Record(c, old.about, i, old.number + 1, [agreement EXCEPT ![i].status = "SUPERSEDED"])
       [] OTHER -> Refuse(c) /\ UNCHANGED agreement
  /\ UNCHANGED <<cmd, paid, condoned>>

------------------------------------------------------------------------------
\* A payment of the whole obligation (in detail: DuesLedger)

Pay(c) ==
  LET about == cmd[c].content.about IN
  /\ Kind(c) = "pay" /\ call[c].pc = "idle"
  /\ DebtIsFree(about)
  /\ IF Owing(about)
     THEN paid' = paid \cup {about} /\ Finish(c, "ok", 0)
     ELSE Refuse(c) /\ UNCHANGED paid
  /\ UNCHANGED <<cmd, agreement, condoned>>

AgreementStep(c) ==
  \/ AgreeLock(c) \/ AgreeInsert(c)
  \/ ReviseLock(c) \/ ReviseRow(c) \/ ReviseInsert(c)
  \/ Pay(c)

------------------------------------------------------------------------------
\* Properties

Successors(i) == {j \in DOMAIN agreement : agreement[j].of = i}

\* "At most one active agreement for an obligation", and its lineage is a chain:
\* whatever was superseded has one successor, on the same obligation, of the same
\* representation and with the next number, and what is active has none; and calls
\* that were answered under one key were answered with one agreement
\* (createAgreement, reviseAgreementCore; the schema has no unique index on
\* revision_of_agreement_id, nor does the INSERT lock the agreement it follows).
AgreementsFormOneChain ==
  /\ \A i \in DOMAIN agreement :
       /\ Cardinality(ActiveDeals(agreement[i].about)) <= 1
       /\ Cardinality(Successors(i)) = (IF agreement[i].status = "ACTIVE" THEN 0 ELSE 1)
       /\ \A j \in Successors(i) :
            /\ agreement[j].about = agreement[i].about
            /\ agreement[j].terms = agreement[i].terms
            /\ agreement[j].number = agreement[i].number + 1
  /\ \A c, d \in Call :
       /\ {Kind(c), Kind(d)} \subseteq {"agree", "revise"}
       /\ call[c].pc = "ok" /\ call[d].pc = "ok"
       /\ cmd[c].by = cmd[d].by /\ cmd[c].key = cmd[d].key
       => call[c].id = call[d].id
================================================================================
