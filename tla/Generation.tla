------------------------------ MODULE Generation -------------------------------
(* Charging the monthly dues (apps/api/src/modules/dues): an operator previews  *)
(* what a month would charge to every member, or a range of months to one       *)
(* member, and sends the fingerprint of what was reviewed; the execution claims *)
(* the receipt of its key, locks, plans again and inserts one obligation per    *)
(* member and month.  Prices are created and revoked meanwhile.                 *)
(*                                                                              *)
(* A step is one SQL statement with the code up to the next.  A generation runs *)
(* in REPEATABLE READ and a range in READ COMMITTED.  Days are numbered through *)
(* and every month has DaysPerMonth of them.                                    *)
EXTENDS Integers, FiniteSets, FiniteSetsExt, Functions

CONSTANTS Request,      \* the executions asked for
          None,         \* no receipt, no plan
          Scenes,       \* [ask]: the key and the body of each request, and whose
                        \* preview it was sent with (a retry sends its original's)
          DaysPerMonth,
          Roster,       \* [member -> [since, sports]], active members; an enrolment
                        \* is [id, kind, from, to], and there may be two of a sport
          Catalogue,    \* [id -> price version] the versions that may be created
          Listed,       \* the versions live at first
          Benefits,     \* [member -> the rules that apply to the member]; priority is
                        \* the place of a rule by (priority, effectiveFrom, id), value
                        \* is cents, or hundredths of a percent: numeric(5, 2)
          MaxEdits,     \* bound of the versions created or revoked
          MaxFaults     \* bound of the transactions that fail on their own

ASSUME GenerationAssumption ==
  /\ DaysPerMonth \in Nat \ {0}
  /\ MaxEdits \in Nat /\ MaxFaults \in Nat
  /\ Listed \subseteq DOMAIN Catalogue
  /\ None \notin Request
  /\ \A scene \in Scenes, r \in Request : scene[r].preview \in Request

\* What the tables admit: amounts and values are not negative (their CHECKs),
\* dates are days, ids are primary keys, and what is asked for is a month of
\* everybody or the months of one of the members.
ASSUME CatalogueAssumption ==
  /\ IsFiniteSet(DOMAIN Catalogue)
  /\ \A p \in DOMAIN Catalogue :
       Catalogue[p].cents \in Nat /\ Catalogue[p].from \in Int /\ Catalogue[p].to \in Int
ASSUME RosterAssumption ==
  \A x \in DOMAIN Roster :
    /\ Roster[x].since \in Int /\ IsFiniteSet(Roster[x].sports)
    /\ \A s \in Roster[x].sports : s.from \in Int /\ s.to \in Int /\ s.id # "base"
    /\ \A s, t \in Roster[x].sports : s.id = t.id => s = t
ASSUME BenefitAssumption ==
  \A x \in DOMAIN Roster :
    /\ IsFiniteSet(Benefits[x])
    /\ \A b \in Benefits[x] : b.value \in Nat /\ b.priority \in Int
    /\ \A b, c \in Benefits[x] : b.id = c.id => b = c
ASSUME BodyAssumption ==
  \A scene \in Scenes, r \in Request :
    LET b == scene[r].body
    IN  \/ b.op = "generate" /\ b.month \in Int
        \/ b.op = "range" /\ b.from \in Int /\ b.through \in Int /\ b.member \in DOMAIN Roster

VARIABLES price,    \* dues_price_versions: "absent", "live" or "revoked"
          charges,  \* the committed MONTHLY_DUES obligations
          receipt,  \* the committed receipts: [key -> who executed, what it charged]
          preview,  \* what each operator has been shown
          call,     \* each request: its place in the code and its transaction
          ask,      \* what each request is, fixed
          faults    \* failures so far

vars == <<price, charges, receipt, preview, call, ask, faults>>

Pair(c) == <<c.member, c.month>>
Live == {p \in DOMAIN Catalogue : price[p] = "live"}
Existing == {Pair(c) : c \in charges}

------------------------------------------------------------------------------
\* planAssessmentRange: what one component of one month costs

Period(month) == [from |-> (month - 1) * DaysPerMonth + 1, to |-> month * DaysPerMonth + 1]
Meet(a, b) == [from |-> Max({a.from, b.from}), to |-> Min({a.to, b.to})]
Overlap(a, b) == Meet(a, b).from < Meet(a, b).to

RoundedDown(n, d) == n \div d   \* mutant: the half is not rounded up
Rounded(n, d) == n \div d + IF 2 * (n % d) >= d THEN 1 ELSE 0

\* The intervals between consecutive boundaries of the prices inside eligible
Bounds(eligible, candidates) ==
  {eligible.from, eligible.to} \cup {Meet(eligible, Catalogue[p]).from : p \in candidates}
                               \cup {Meet(eligible, Catalogue[p]).to : p \in candidates}
Intervals(eligible, candidates) ==
  LET bounds == Bounds(eligible, candidates)
  IN  {[from |-> a, to |-> Min({b \in bounds : b > a})] : a \in bounds \ {Max(bounds)}}

\* A life is what is charged by the day: the base, or an enrolment in a sport
Eligible(life, month) == Meet(Period(month), life)
Candidates(life, month, prices) ==
  {p \in prices : Catalogue[p].kind = life.kind /\ Overlap(Eligible(life, month), Catalogue[p])}
Covering(interval, candidates) == {p \in candidates : Overlap(interval, Catalogue[p])}
Charged(interval, candidates) ==
  /\ Cardinality(Covering(interval, candidates)) = 1
  /\ \A p \in Covering(interval, candidates) : Catalogue[p].rule # "NEXT_PERIOD"
Numerator(interval, candidates) ==
  (interval.to - interval.from) * Catalogue[CHOOSE p \in Covering(interval, candidates) : TRUE].cents

Component(life, month, prices) ==
  LET candidates == Candidates(life, month, prices)
      intervals  == Intervals(Eligible(life, month), candidates)
      segments   == {i \in intervals : Charged(i, candidates)}
  IN  IF Eligible(life, month).from >= Eligible(life, month).to THEN [cents |-> 0, ok |-> TRUE]
      ELSE [cents |-> Rounded(SumFunction([i \in segments |-> Numerator(i, candidates)]), DaysPerMonth),
            ok |-> segments = intervals]

\* applyBenefits: in order of priority, one per exclusive group, never below zero
Requested(b, gross, left) ==
  IF b.kind = "FIXED" THEN b.value
  ELSE LET base == IF b.basis = "GROSS" THEN gross ELSE left
       IN  (2 * base * b.value + 10000) \div 20000

Apply(acc, b, gross) ==
  LET cents == Min({acc.left, Requested(b, gross, acc.left)})
  IN  IF b.group # None /\ b.group \in acc.groups THEN acc
      ELSE [left |-> acc.left - cents,
            groups |-> acc.groups \cup ({b.group} \ {None}),
            parts |-> acc.parts \cup
                      (IF cents > 0 THEN {[key |-> b.id, cents |-> -cents]} ELSE {})]

Last(rules) == CHOOSE b \in rules : \A c \in rules : c.priority <= b.priority
Applied(gross, benefits) ==
  LET after[rules \in SUBSET benefits] ==
        IF rules = {} THEN [left |-> gross, groups |-> {}, parts |-> {}]
        ELSE Apply(after[rules \ {Last(rules)}], Last(rules), gross)
  IN  after[benefits]

------------------------------------------------------------------------------
\* createGenerationPlan and AssessmentService.plan

\* A range also lists, at zero, the sports it has in other months: left out here
Base(x, month) ==
  [id |-> "base", kind |-> "base", from |-> Roster[x].since, to |-> Period(month).to]
Lives(x, month) == {Base(x, month)} \cup {s \in Roster[x].sports : Overlap(s, Period(month))}

\* createGenerationPlanEntry
Entry(x, month, prices, existing) ==
  LET component == [life \in Lives(x, month) |-> Component(life, month, prices)]
      gross == SumFunction([life \in Lives(x, month) |-> component[life].cents])
      net   == Applied(gross, Benefits[x])
      status == CASE \E life \in Lives(x, month) : ~component[life].ok -> "CONFLICT"
                  [] <<x, month>> \in existing \/ net.left = 0        -> "REVIEW"
                  [] OTHER                                            -> "READY"
  IN  [member |-> x, month |-> month, status |-> status,
       net |-> IF status = "CONFLICT" THEN 0 ELSE net.left,
       parts |-> IF status = "CONFLICT" THEN {}
                 ELSE net.parts \cup {[key |-> life.id, cents |-> component[life].cents] :
                                        life \in Lives(x, month)}]

\* A body: a month for everybody, or the months from..through of one member
Months(b) == IF b.op = "generate" THEN {b.month} ELSE b.from .. b.through
Targets(b) ==
  IF b.op = "generate"
  THEN {x \in DOMAIN Roster : Roster[x].since < Period(b.month).to} \X {b.month}
  ELSE {b.member} \X Months(b)
Span(b) == [from |-> Period(Min(Months(b))).from, to |-> Period(Max(Months(b))).to]
PricesOf(b, live) == {p \in live : Overlap(Span(b), Catalogue[p])}

\* The fingerprint is a digest of the plan: it is the plan
PlanOf(b, live, existing) ==
  LET prices == PricesOf(b, live)
  IN  [prices |-> prices,
       entries |-> {Entry(t[1], t[2], prices, existing) : t \in Targets(b)}]
Ready(plan) == {e \in plan.entries : e.status = "READY"}
Executable(plan) == \A e \in plan.entries : e.status # "CONFLICT"

------------------------------------------------------------------------------
\* The prices, and the previews, which read statement by statement: the members
\* with their obligations and then the prices for a month, the prices and then
\* the obligations for a range

Edited == {p \in DOMAIN Catalogue : price[p] # IF p \in Listed THEN "live" ELSE "absent"}
MoreEdits(p) == Cardinality(Edited \cup {p}) <= MaxEdits

\* The EXCLUDE constraints refuse a version that overlaps a live one
CreatePrice(p) ==
  /\ price[p] = "absent" /\ MoreEdits(p)
  /\ \A q \in Live : Catalogue[q].kind = Catalogue[p].kind => ~Overlap(Catalogue[p], Catalogue[q])
  /\ price' = [price EXCEPT ![p] = "live"]
  /\ UNCHANGED <<charges, receipt, preview, call, ask, faults>>

RevokePrice(p) ==
  /\ price[p] = "live" /\ MoreEdits(p)
  /\ price' = [price EXCEPT ![p] = "revoked"]
  /\ UNCHANGED <<charges, receipt, preview, call, ask, faults>>

Unread == [pc |-> "first", live |-> {}, existing |-> {}, plan |-> None]

PreviewFirst(r) ==
  /\ preview[r].pc = "first" /\ ask[r].preview = r
  /\ preview' = [preview EXCEPT ![r] =
       IF ask[r].body.op = "generate" THEN [@ EXCEPT !.pc = "second", !.existing = Existing]
                                      ELSE [@ EXCEPT !.pc = "second", !.live = Live]]
  /\ UNCHANGED <<price, charges, receipt, call, ask, faults>>

PreviewSecond(r) ==
  /\ preview[r].pc = "second"
  /\ preview' = [preview EXCEPT ![r] =
       [Unread EXCEPT !.pc = "shown", !.plan =
         IF ask[r].body.op = "generate" THEN PlanOf(ask[r].body, Live, preview[r].existing)
                                        ELSE PlanOf(ask[r].body, preview[r].live, Existing)]]
  /\ UNCHANGED <<price, charges, receipt, call, ask, faults>>

------------------------------------------------------------------------------
\* generate and executeRange: one transaction

NoView == [live |-> {}, existing |-> {}, keys |-> {}]
NewCall == [pc |-> "idle", view |-> NoView, live |-> {}, rows |-> {}, answer |-> {}]
Ended == {"done", "conflict", "failed"}

Reviewed(r) == preview[ask[r].preview].plan
Repeatable(r) == ask[r].body.op = "generate"
Claimed(r) == ask[r].key \in DOMAIN receipt

\* The receipt row and the advisory lock are held to the end of the transaction
HoldsReceipt(r) == call[r].pc \in {"lock", "first", "second", "insert"}
HoldsLock(r) == call[r].pc \in {"first", "second", "insert"}
LockOf(r) == LET b == ask[r].body
             IN  IF b.op = "generate" THEN <<"period", b.month>> ELSE <<"member", b.member>>

Goto(r, pc) == call' = [call EXCEPT ![r].pc = pc]
Abort(r, why) == call' = [call EXCEPT ![r] = [NewCall EXCEPT !.pc = why]]

\* The operator executes what the preview showed.  In REPEATABLE READ the first
\* statement fixes the snapshot of all the others.
Begin(r) ==
  /\ call[r].pc = "idle"
  /\ preview[ask[r].preview].pc = "shown"
  /\ call' = [call EXCEPT ![r] = [@ EXCEPT !.pc = "claim", !.view =
       IF Repeatable(r)
       THEN [live |-> Live, existing |-> Existing, keys |-> DOMAIN receipt]
       ELSE NoView]]
  /\ UNCHANGED <<price, charges, receipt, preview, ask, faults>>

\* claimReceipt: the INSERT waits for a receipt of the key that is not committed
\* yet.  One that the snapshot does not see is a serialization failure.
ClaimReceipt(r) ==
  /\ call[r].pc = "claim"
  /\ \A q \in Request : ask[q].key = ask[r].key => ~HoldsReceipt(q)
  /\ CASE ~Claimed(r) -> Goto(r, "lock")
       [] Claimed(r) /\ Repeatable(r) /\ ask[r].key \notin call[r].view.keys -> Abort(r, "failed")
       [] OTHER ->
            LET found == receipt[ask[r].key]
            IN  IF ask[found.by].body # ask[r].body \/ Reviewed(found.by) # Reviewed(r)
                THEN Abort(r, "conflict")
                ELSE call' = [call EXCEPT ![r] =
                       [NewCall EXCEPT !.pc = "done", !.answer = found.result]]
  /\ UNCHANGED <<price, charges, receipt, preview, ask, faults>>

\* lockPeriod and lockRange
Lock(r) ==
  /\ call[r].pc = "lock"
  /\ \A q \in Request \ {r} : HoldsLock(q) => LockOf(q) # LockOf(r)
  /\ Goto(r, IF Repeatable(r) THEN "second" ELSE "first")
  /\ UNCHANGED <<price, charges, receipt, preview, ask, faults>>

\* The prices of a range are read by a statement of their own
ReadPrices(r) ==
  /\ call[r].pc = "first"
  /\ call' = [call EXCEPT ![r] = [@ EXCEPT !.pc = "second", !.live = PricesOf(ask[r].body, Live)]]
  /\ UNCHANGED <<price, charges, receipt, preview, ask, faults>>

FreshPlan(r) ==
  IF Repeatable(r) THEN PlanOf(ask[r].body, call[r].view.live, call[r].view.existing)
                   ELSE PlanOf(ask[r].body, call[r].live, Existing)

StillReviewedUnchecked(r) == Executable(FreshPlan(r))   \* mutant: the fingerprints are not compared
StillReviewed(r) == FreshPlan(r) = Reviewed(r) /\ Executable(FreshPlan(r))

Replan(r) ==
  /\ call[r].pc = "second"
  /\ IF StillReviewed(r)
     THEN call' = [call EXCEPT ![r] =
            [NewCall EXCEPT !.pc = "insert", !.answer =
              {[by |-> r, member |-> e.member, month |-> e.month, net |-> e.net, parts |-> e.parts] :
                 e \in Ready(FreshPlan(r))}]]
     ELSE Abort(r, "conflict")
  /\ UNCHANGED <<price, charges, receipt, preview, ask, faults>>

\* insertObligationInTransaction, month by month and member by member: the
\* unique index waits for a row that is not committed and refuses a committed one
Next1(r) ==
  LET todo == call[r].answer \ call[r].rows
  IN  CHOOSE c \in todo : \A d \in todo : c.month < d.month
                                       \/ (c.month = d.month /\ c.member <= d.member)
TakenNever(c) == FALSE   \* mutant: the unique index is not there
Taken(c) == Pair(c) \in Existing

Insert(r) ==
  /\ call[r].pc = "insert" /\ call[r].rows # call[r].answer
  /\ LET c == Next1(r)
     IN  /\ \A q \in Request \ {r} : \A d \in call[q].rows : Pair(d) # Pair(c)
         /\ IF Taken(c) THEN Abort(r, "failed")
            ELSE call' = [call EXCEPT ![r].rows = @ \cup {c}]
  /\ UNCHANGED <<price, charges, receipt, preview, ask, faults>>

\* finalizeReceipt with the audit record, and the commit
Finish(r) ==
  /\ call[r].pc = "insert" /\ call[r].rows = call[r].answer
  /\ charges' = charges \cup call[r].rows
  /\ receipt' = [k \in DOMAIN receipt \cup {ask[r].key} |->
       IF k = ask[r].key THEN [by |-> r, result |-> call[r].answer] ELSE receipt[k]]
  /\ call' = [call EXCEPT ![r] = [NewCall EXCEPT !.pc = "done", !.answer = call[r].answer]]
  /\ UNCHANGED <<price, preview, ask, faults>>

\* A statement of the transaction fails, or the process that runs it dies
Fail(r) ==
  /\ HoldsReceipt(r) /\ faults < MaxFaults
  /\ Abort(r, "failed")
  /\ faults' = faults + 1
  /\ UNCHANGED <<price, charges, receipt, preview, ask>>

------------------------------------------------------------------------------
Init ==
  /\ ask \in Scenes
  /\ price = [p \in DOMAIN Catalogue |-> IF p \in Listed THEN "live" ELSE "absent"]
  /\ charges = {}
  /\ receipt = <<>>
  /\ preview = [r \in Request |-> Unread]
  /\ call = [r \in Request |-> NewCall]
  /\ faults = 0

Prices == \E p \in DOMAIN Catalogue : CreatePrice(p) \/ RevokePrice(p)
Review(r) == PreviewFirst(r) \/ PreviewSecond(r)
Execute(r) ==
  \/ Begin(r) \/ ClaimReceipt(r) \/ Lock(r) \/ ReadPrices(r)
  \/ Replan(r) \/ Insert(r) \/ Finish(r) \/ Fail(r)

Next == Prices \/ \E r \in Request : Review(r) \/ Execute(r)

Spec == Init /\ [][Next]_vars

------------------------------------------------------------------------------
\* Properties

\* A member is charged once for a month, whoever generates it and whatever races
\* with it; the charges are those of the committed receipts, each of which tells
\* exactly what its execution charged; and all that is answered under a key is
\* the result of the one receipt of the key.
ChargesAreAccounted ==
  /\ \A c, d \in charges : Pair(c) = Pair(d) => c = d
  /\ charges = UNION {receipt[k].result : k \in DOMAIN receipt}
  /\ \A r \in Request : call[r].pc = "done" =>
       /\ Claimed(r)
       /\ call[r].answer = receipt[ask[r].key].result
       /\ ask[receipt[ask[r].key].by].body = ask[r].body

\* The price of a kind on a day by the prices the operator was shown
CentsOn(day, kind, prices) ==
  SumFunction([p \in {q \in prices : /\ Catalogue[q].kind = kind
                                     /\ Catalogue[q].from <= day /\ day < Catalogue[q].to} |->
                Catalogue[p].cents])
DaysOf(life, month) == {d \in Period(month).from .. Period(month).to - 1 : life.from <= d /\ d < life.to}
ByTheDay(life, month, prices) ==
  LET total == SumFunction([d \in DaysOf(life, month) |-> CentsOn(d, life.kind, prices)])
  IN  (2 * total + DaysPerMonth) \div (2 * DaysPerMonth)

\* A charge at these prices is exact: each day of the member at the price shown
\* for it, rounded to the nearest cent once for the base and once for each
\* enrolment, less the benefits, at most one of each exclusive group; the parts
\* add up to it and nobody is charged nothing.
Exact(c, prices) ==
  LET discounts == {part \in c.parts : part.cents < 0}
      full == [life \in Roster[c.member].sports \cup {Base(c.member, c.month)} |->
                 ByTheDay(life, c.month, prices)]
  IN  /\ c.net > 0 /\ c.net = SumFunction([part \in c.parts |-> part.cents])
      /\ c.net = SumFunction(full) + SumFunction([part \in discounts |-> part.cents])
      /\ \A life \in DOMAIN full :
           full[life] > 0 => [key |-> life.id, cents |-> full[life]] \in c.parts
      /\ \A part \in c.parts \ discounts :
           \E life \in DOMAIN full : part = [key |-> life.id, cents |-> full[life]]
      /\ \A a, b \in {x \in Benefits[c.member] : \E part \in discounts : part.key = x.id} :
           a.group # None /\ a.group = b.group => a = b

\* A charge is worth what the operator reviewed before confirming, to the cent,
\* and an execution charges all that the preview had ready and nothing else.
ChargesAreExact ==
  /\ \A c \in charges : Exact(c, Reviewed(c.by).prices)
  /\ \A k \in DOMAIN receipt :
       {Pair(c) : c \in receipt[k].result} = {<<e.member, e.month>> : e \in Ready(Reviewed(receipt[k].by))}
================================================================================
