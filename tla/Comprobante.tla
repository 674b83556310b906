------------------------------ MODULE Comprobante ------------------------------
(* The current-account receipts printed under one Idempotency-Key               *)
(* (apps/api/src/modules/socios/forms): requests on several replicas of the     *)
(* API claim a lease on the row of the key, one renders, the others follow,     *)
(* take over or replay; and the pool of pages they share in each replica with   *)
(* the forms, which are rendered without a lease and without a deadline.        *)
(*                                                                              *)
(* A step is one SQL statement with the code up to the next, or the code        *)
(* between two awaits.  A document is known by the request that rendered it.    *)
(* Time is a choice: a lease, a retention or a deadline may run out any time    *)
(* before its request has seen it run out.                                      *)
EXTENDS Naturals, FiniteSets, Sequences

CONSTANTS Call,       \* the requests
          None,       \* no request
          Replica,    \* the processes of the API
          Scenes,     \* [ask]: what each request is, and where it arrives
          Capacity,   \* pages a replica renders at a time (3)
          MaxRows,    \* bound of the rows that the key has one after the other
          MaxCrashes  \* bound of the crashes

ASSUME ComprobanteAssumption ==
  /\ Capacity \in Nat \ {0}
  /\ MaxRows \in Nat /\ MaxCrashes \in Nat
  /\ IsFiniteSet(Call) /\ None \notin Call
  /\ Scenes \subseteq [Call -> [kind : {"receipt", "form"}, at : Replica, fp : Nat]]

VARIABLES row,      \* the row of ctacte_comprobante_retries under the key
          call,     \* each request: its place in the code and its answer
          task,     \* renderTask of each request, which may outlive it
          slot,     \* the semaphore of each replica
          browser,  \* the browser of each replica
          ask,      \* what each request is, fixed
          crashes   \* crashes so far

vars == <<row, call, task, slot, browser, ask, crashes>>

NoRow == [status |-> "none", fp |-> 0, owner |-> None, lease |-> "expired", old |-> FALSE,
          doc |-> None, row |-> 0]
NoTask == [pc |-> "none", aborted |-> FALSE, row |-> 0]
NewCall == [pc |-> "idle", last |-> FALSE, doc |-> None, row |-> 0]
EmptySlots == [active |-> 0, waiters |-> <<>>]

\* The ways a request ends: with a document; 409; 504 as the owner whose timeout
\* is stored, as one that reads a stored timeout, as an owner that had lost the
\* lease, as a follower; with the error of the renderer; with its replica
Ended == {"done", "conflict", "expired", "terminal", "lapsed", "waited", "failed", "lost"}

------------------------------------------------------------------------------
\* Helpers

At(c) == ask[c].at
Fp(c) == ask[c].fp
IsForm(c) == ask[c].kind = "form"
Goto(c, pc) == call' = [call EXCEPT ![c].pc = pc]
Answer(c, doc, r) == call' = [call EXCEPT ![c] = [@ EXCEPT !.pc = "done", !.doc = doc, !.row = r]]

OwnsByKey(c) == row.status # "none"   \* mutant: WHERE idempotency_key only
Owns(c) == row.status = "rendering" /\ row.owner = c

\* The task is over: the request that still races with it goes on.
Thrown(c, tasks) ==
  /\ task' = [tasks EXCEPT ![c].pc = "over"]
  /\ IF call[c].pc = "race"
     THEN Goto(c, IF IsForm(c) THEN "failed" ELSE "failordinary")
     ELSE UNCHANGED call
Resolved(c, tasks, doc, r) ==
  /\ task' = [tasks EXCEPT ![c].pc = "over"]
  /\ IF call[c].pc = "race" THEN Answer(c, doc, r) ELSE UNCHANGED call

------------------------------------------------------------------------------
\* renderComprobante and emitForm

Ask(c) ==
  /\ call[c].pc = "idle"
  /\ IF IsForm(c)
     THEN Goto(c, "race") /\ task' = [task EXCEPT ![c].pc = "load"]
     ELSE Goto(c, "purge") /\ UNCHANGED task
  /\ UNCHANGED <<row, slot, browser, ask, crashes>>

\* The request holds the lease.  The claim that follows a lost timeout only
\* looks for a document: nobody renders for the lease it may have been given.
Rendering(c) ==
  IF call[c].last
  THEN Goto(c, "lapsed") /\ UNCHANGED task
  ELSE Goto(c, "race") /\ task' = [task EXCEPT ![c].pc = "load"]

PurgesAnyOld == row.status # "none" /\ row.old   \* mutant: status is not in the WHERE of the DELETE
Purges == row.status = "complete" /\ row.old

ClaimPurge(c) ==
  /\ call[c].pc = "purge"
  /\ row' = IF Purges THEN [NoRow EXCEPT !.row = row.row] ELSE row
  /\ Goto(c, "insert")
  /\ UNCHANGED <<task, slot, browser, ask, crashes>>

ClaimInsert(c) ==
  /\ call[c].pc = "insert"
  /\ IF row.status = "none"
     THEN /\ row' = [NoRow EXCEPT !.status = "rendering", !.fp = Fp(c), !.owner = c,
                                  !.lease = "live", !.row = row.row + 1]
          /\ Rendering(c)
     ELSE Goto(c, "reclaim") /\ UNCHANGED <<row, task>>
  /\ UNCHANGED <<slot, browser, ask, crashes>>

ReclaimsAny(c) ==   \* mutant: request_fingerprint is not in the WHERE
  row.status = "failed" \/ (row.status = "rendering" /\ row.lease = "expired")
Reclaims(c) ==
  /\ row.fp = Fp(c)
  /\ row.status = "failed" \/ (row.status = "rendering" /\ row.lease = "expired")

ClaimReclaim(c) ==
  /\ call[c].pc = "reclaim"
  /\ IF Reclaims(c)
     THEN /\ row' = [row EXCEPT !.status = "rendering", !.owner = c, !.lease = "live"]
          /\ Rendering(c)
     ELSE Goto(c, "look") /\ UNCHANGED <<row, task>>
  /\ UNCHANGED <<slot, browser, ask, crashes>>

\* The SELECT sees what the statements before it have not: the row may have
\* changed since, or be gone.
ClaimLook(c) ==
  LET other == row.status # "none" /\ row.fp # Fp(c) IN
  /\ call[c].pc = "look"
  /\ \/ ~other /\ row.status = "complete" /\ Answer(c, row.doc, row.row)
     \/ (other \/ row.status # "complete") /\ call[c].last /\ Goto(c, "lapsed")
     \/ other /\ ~call[c].last /\ Goto(c, "conflict")
     \/ ~other /\ row.status = "timeout" /\ ~call[c].last /\ Goto(c, "terminal")
     \/ ~other /\ row.status \notin {"complete", "timeout"} /\ ~call[c].last /\ Goto(c, "sleep")
  /\ UNCHANGED <<row, task, slot, browser, ask, crashes>>

WakeInTime(c) ==
  /\ call[c].pc = "sleep"
  /\ Goto(c, "purge")
  /\ UNCHANGED <<row, task, slot, browser, ask, crashes>>

WakeLate(c) ==
  /\ call[c].pc = "sleep"
  /\ Goto(c, "waited")
  /\ UNCHANGED <<row, task, slot, browser, ask, crashes>>

Deadline(c) ==
  /\ call[c].pc = "race" /\ ~IsForm(c)
  /\ task' = [task EXCEPT ![c].aborted = TRUE]
  /\ Goto(c, "failtimeout")
  /\ UNCHANGED <<row, slot, browser, ask, crashes>>

FailTimeout(c) ==
  /\ call[c].pc = "failtimeout"
  /\ IF Owns(c)
     THEN /\ row' = [row EXCEPT !.status = "timeout", !.owner = None, !.lease = "expired"]
          /\ call' = [call EXCEPT ![c].pc = "expired", ![c].row = row.row]
     ELSE call' = [call EXCEPT ![c].pc = "purge", ![c].last = TRUE] /\ UNCHANGED row
  /\ UNCHANGED <<task, slot, browser, ask, crashes>>

FailOrdinary(c) ==
  /\ call[c].pc = "failordinary"
  /\ row' = IF Owns(c) THEN [row EXCEPT !.status = "failed", !.owner = None, !.lease = "expired"]
            ELSE row
  /\ Goto(c, "failed")
  /\ UNCHANGED <<task, slot, browser, ask, crashes>>

\* The interval is cleared when the request has its answer.
Heartbeat(c) ==
  /\ \/ call[c].pc \in {"race", "failtimeout", "failordinary"}
     \/ call[c].last /\ call[c].pc \notin Ended
  /\ Owns(c) /\ row.lease = "expired"
  /\ row' = [row EXCEPT !.lease = "live"]
  /\ UNCHANGED <<call, task, slot, browser, ask, crashes>>

------------------------------------------------------------------------------
\* generateOwnedComprobante, and the part of emitForm that is the same

\* semaphore.acquire, once the browser is there
Acquire(c) ==
  LET s == slot[At(c)] IN
  /\ UNCHANGED call
  /\ IF s.active < Capacity
     THEN /\ slot' = [slot EXCEPT ![At(c)].active = @ + 1]
          /\ task' = [task EXCEPT ![c].pc = "page"]
     ELSE /\ slot' = [slot EXCEPT ![At(c)].waiters = Append(@, c)]
          /\ task' = [task EXCEPT ![c].pc = "queue"]

\* The member and the movements are read, or refused; generate looks at the
\* signal and waits for the browser.
Load(c) ==
  /\ task[c].pc = "load"
  /\ \/ ~task[c].aborted /\ browser[At(c)] = "up" /\ Acquire(c)
     \/ /\ ~task[c].aborted /\ browser[At(c)] = "none"
        /\ task' = [task EXCEPT ![c].pc = "init"]
        /\ UNCHANGED <<call, slot>>
     \/ Thrown(c, task) /\ UNCHANGED slot
  /\ UNCHANGED <<row, browser, ask, crashes>>

\* init: one launch per process; initPromise keeps its failure too.
Launch(c) ==
  /\ task[c].pc = "init"
  /\ \/ browser[At(c)] # "broken" /\ browser' = [browser EXCEPT ![At(c)] = "up"] /\ Acquire(c)
     \/ /\ browser[At(c)] # "up" /\ browser' = [browser EXCEPT ![At(c)] = "broken"]
        /\ Thrown(c, task) /\ UNCHANGED slot
  /\ UNCHANGED <<row, ask, crashes>>

DropsTheSlot(s) == [active |-> s.active - 1, waiters |-> s.waiters]   \* mutant: nobody is woken
\* release: the slot passes to the first waiter, or is free
Released(s) ==
  IF s.waiters = <<>> THEN [s EXCEPT !.active = @ - 1] ELSE [s EXCEPT !.waiters = Tail(@)]

\* The tasks, when the slot of replica r is released
Woken(r) ==
  LET left == {slot[r].waiters[i] : i \in DOMAIN slot[r].waiters}
              \ {Released(slot[r]).waiters[i] : i \in DOMAIN Released(slot[r]).waiters}
  IN [d \in Call |-> IF d \in left THEN [task[d] EXCEPT !.pc = "page"] ELSE task[d]]

\* The page is printed, unless the request was aborted, or fails.
PrintPage(c) ==
  /\ task[c].pc = "page"
  /\ slot' = [slot EXCEPT ![At(c)] = Released(@)]
  /\ \/ /\ ~task[c].aborted /\ ~IsForm(c)
        /\ task' = [Woken(At(c)) EXCEPT ![c].pc = "save"]
        /\ UNCHANGED call
     \/ IsForm(c) /\ Resolved(c, Woken(At(c)), None, 0)
     \/ Thrown(c, Woken(At(c)))
  /\ UNCHANGED <<row, browser, ask, crashes>>

Complete(c) ==
  /\ task[c].pc = "save"
  /\ IF Owns(c)
     THEN /\ row' = [row EXCEPT !.status = "complete", !.owner = None, !.lease = "expired", !.doc = c]
          /\ task' = [task EXCEPT ![c].pc = "audit", ![c].row = row.row]
          /\ UNCHANGED call
     ELSE Thrown(c, task) /\ UNCHANGED row
  /\ UNCHANGED <<slot, browser, ask, crashes>>

\* The audit is written, or not: the document is returned.
Audit(c) ==
  /\ task[c].pc = "audit"
  /\ Resolved(c, task, c, task[c].row)
  /\ UNCHANGED <<row, slot, browser, ask, crashes>>

------------------------------------------------------------------------------
\* Time and crashes

LeaseExpires ==
  /\ row.status = "rendering" /\ row.lease = "live"
  /\ row' = [row EXCEPT !.lease = "expired"]
  /\ UNCHANGED <<call, task, slot, browser, ask, crashes>>

\* expires_at, set by the INSERT and by nothing else
RetentionEnds ==
  /\ row.status # "none" /\ ~row.old /\ row.row < MaxRows
  /\ row' = [row EXCEPT !.old = TRUE]
  /\ UNCHANGED <<call, task, slot, browser, ask, crashes>>

Crash(r) ==
  /\ crashes < MaxCrashes
  /\ crashes' = crashes + 1
  /\ call' = [c \in Call |-> IF At(c) = r /\ call[c].pc \notin Ended \cup {"idle"}
                             THEN [call[c] EXCEPT !.pc = "lost"] ELSE call[c]]
  /\ task' = [c \in Call |-> IF At(c) = r /\ task[c].pc # "none"
                             THEN [task[c] EXCEPT !.pc = "over"] ELSE task[c]]
  /\ slot' = [slot EXCEPT ![r] = EmptySlots]
  /\ browser' = [browser EXCEPT ![r] = "none"]
  /\ UNCHANGED <<row, ask>>

------------------------------------------------------------------------------
Init ==
  /\ row = NoRow
  /\ call = [c \in Call |-> NewCall]
  /\ task = [c \in Call |-> NoTask]
  /\ slot = [r \in Replica |-> EmptySlots]
  /\ browser = [r \in Replica |-> "none"]
  /\ ask \in Scenes
  /\ crashes = 0

\* What the code does once it can
Coordinate(c) ==
  \/ ClaimPurge(c) \/ ClaimInsert(c) \/ ClaimReclaim(c) \/ ClaimLook(c)
  \/ Deadline(c) \/ FailTimeout(c) \/ FailOrdinary(c)
Render(c) == Load(c) \/ Launch(c) \/ PrintPage(c) \/ Complete(c) \/ Audit(c)

Next ==
  \/ \E c \in Call : Ask(c) \/ Coordinate(c) \/ Render(c) \/ Heartbeat(c)
                     \/ WakeInTime(c) \/ WakeLate(c)
  \/ LeaseExpires
  \/ RetentionEnds
  \/ \E r \in Replica : Crash(r)

\* Statements are answered, pages print or fail (the browser has timeouts of its
\* own), timers fire; a request that goes on sleeping sees its deadline.
Fairness ==
  \A c \in Call :
    /\ WF_vars(Coordinate(c))
    /\ WF_vars(Render(c))
    /\ WF_vars(WakeInTime(c) \/ WakeLate(c))
    /\ SF_vars(WakeLate(c))

Spec == Init /\ [][Next]_vars /\ Fairness
------------------------------------------------------------------------------
\* Properties

\* The row and the pages fit those who use them: a row that is being rendered
\* has one owner, and the active pages of a replica are those its tasks hold;
\* nobody waits while one is free (fail, complete, Semaphore).
TypeOK ==
  /\ (row.status = "rendering") <=> (row.owner # None)
  /\ (row.status = "complete") <=> (row.doc # None)
  /\ row.lease = "live" => row.status = "rendering"
  /\ \A r \in Replica :
       /\ slot[r].active = Cardinality({c \in Call : At(c) = r /\ task[c].pc = "page"})
       /\ slot[r].active <= Capacity
       /\ slot[r].waiters # <<>> => slot[r].active = Capacity
       /\ {slot[r].waiters[i] : i \in DOMAIN slot[r].waiters}
          = {c \in Call : At(c) = r /\ task[c].pc = "queue"}

\* Whoever rendered, followed, took over, came late or replays: the requests
\* answered from one row of the key asked for the same thing and are given the
\* same document, the one the row keeps for the next (claim, complete).
OneDocumentPerKey ==
  \A c \in Call :
    call[c].pc = "done" /\ ~IsForm(c)
    => /\ Fp(c) = Fp(call[c].doc)
       /\ row.row = call[c].row /\ row.status # "none"
          => row.status = "complete" /\ row.doc = call[c].doc
       /\ \A d \in Call :
            call[d].pc = "done" /\ ~IsForm(d) /\ call[d].row = call[c].row
            => call[d].doc = call[c].doc

\* "If failTimeout updates the row, any late render completion gets false": once
\* a request was told that its timeout is stored, nobody is given a document
\* under the key, from that row or from a later one, and nobody ever will be
\* (failTimeout, complete, claim).
TimeoutIsFinal ==
  \A c \in Call :
    call[c].pc = "expired"
    => /\ row.row = call[c].row /\ row.status = "timeout"
       /\ \A d \in Call :
            call[d].pc = "done" /\ ~IsForm(d) => call[d].row < call[c].row

\* Every request ends, and so does every task it leaves behind: no follower
\* waits for an owner that died, and no task for a page that was given back
\* (renderComprobante, Semaphore.release).
RequestsEnd ==
  \A c \in Call :
    call[c].pc # "idle" ~> call[c].pc \in Ended /\ task[c].pc \in {"none", "over"}
================================================================================
