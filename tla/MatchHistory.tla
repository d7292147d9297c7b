---------------------------- MODULE MatchHistory ----------------------------
(***************************************************************************)
(* One finished battle on its way into the match history: RecordMatchResult  *)
(* of battle-service publishes it over HTTP, up to Attempts times, and       *)
(* users-service upserts it (MatchPersistenceAdapter).  A request that timed *)
(* out keeps running in users-service beside the retry that follows it.      *)
(***************************************************************************)
EXTENDS Integers

CONSTANT Attempts    \* RecordMatchResultOptions.attempts, at least 1

ASSUME AttemptsAssumption == Attempts \in Nat \ {0}

Requests == 1..Attempts
Nobody == 0

VARIABLES
    document,   \* "good", "refused" by validation or "clashing" with a constraint
    sender,     \* "idle", "waiting", "backoff", "stored", "gave up"
    attempt,    \* the attempt under way, 0 before the first
    request,    \* where each attempt's request is
    retried,    \* requests whose upsert runs for the second time
    copies,     \* how many times the match's participants are stored; 0: no match
    written,    \* the same, in the transaction that holds the match
    holder      \* request whose transaction inserted or locked the row

vars == <<document, sender, attempt, request, retried, copies, written, holder>>

Init ==
    /\ document \in {"good", "refused", "clashing"}
    /\ sender = "idle"
    /\ attempt = 0
    /\ request = [q \in Requests |-> "unsent"]
    /\ retried = {}
    /\ copies = 0 /\ written = 0
    /\ holder = Nobody

Moves(q, to) == request' = [request EXCEPT ![q] = to]

-----------------------------------------------------------------------------
\* battle-service.

Publish ==
    /\ sender \in {"idle", "backoff"}
    /\ sender' = "waiting"
    /\ attempt' = attempt + 1
    /\ Moves(attempt + 1, "sent")
    /\ UNCHANGED <<document, retried, copies, written, holder>>

\* What a failed attempt leads to.
TryAgain == sender' = IF attempt < Attempts THEN "backoff" ELSE "gave up"

\* The 5 s of the publisher are over, whatever the request is doing; or it was
\* lost, which looks the same.
TimeOut ==
    /\ sender = "waiting"
    /\ TryAgain
    /\ UNCHANGED <<document, attempt, request, retried, copies, written, holder>>

\* 5xx may pass on a retry; 400 and 409 will not.
Answer ==
    /\ sender = "waiting"
    /\ \/ request[attempt] = "done" /\ sender' = "stored"
       \/ request[attempt] \in {"refused", "conflict"} /\ sender' = "gave up"
       \/ request[attempt] = "failed" /\ TryAgain
    /\ UNCHANGED <<document, attempt, request, retried, copies, written, holder>>

-----------------------------------------------------------------------------
\* users-service: one transaction per upsertOnce.

\* The controller validates the document.
Arrive(q) ==
    /\ request[q] = "sent"
    /\ Moves(q, IF document = "refused" THEN "refused" ELSE "find")
    /\ UNCHANGED <<document, sender, attempt, retried, copies, written, holder>>

\* findForUpdateById: the row lock is waited for; no row means an insert.
Find(q) ==
    /\ request[q] = "find"
    /\ \/ copies = 0 /\ Moves(q, "insert") /\ UNCHANGED holder
       \/ copies > 0 /\ holder = Nobody /\ holder' = q /\ Moves(q, "update")
    /\ UNCHANGED <<document, sender, attempt, retried, copies, written>>

\* Another insert not yet committed is waited for.
Insert(q) ==
    /\ request[q] = "insert"
    /\ document = "good"
    /\ copies = 0
    /\ holder = Nobody
    /\ holder' = q
    /\ written' = 1
    /\ Moves(q, "commit")
    /\ UNCHANGED <<document, sender, attempt, retried, copies>>

\* An insert meets a row committed meanwhile, or breaks another constraint.
Violates == copies > 0 \/ document = "clashing"

\* Fault: a primary-key violation is final.
InsertFails_NoRetry(q) ==
    /\ request[q] = "insert"
    /\ Violates
    /\ Moves(q, "conflict")
    /\ UNCHANGED <<document, sender, attempt, retried, copies, written, holder>>

\* The loser's primary-key violation: rolled back and tried once more. A second
\* violation is not a race and is propagated.
InsertFails(q) ==
    /\ request[q] = "insert"
    /\ Violates
    /\ Moves(q, IF q \in retried THEN "conflict" ELSE "find")
    /\ retried' = retried \cup {q}
    /\ UNCHANGED <<document, sender, attempt, copies, written, holder>>

\* Fault: the old participants are deleted in a transaction of their own.
Update_InTwo(q) ==
    /\ request[q] = "update"
    /\ \/ copies > 0 /\ copies' = 0 /\ UNCHANGED <<request, written>>
       \/ copies = 0 /\ written' = 1 /\ Moves(q, "commit") /\ UNCHANGED copies
    /\ UNCHANGED <<document, sender, attempt, retried, holder>>

\* replaceWith: the participants are cleared, then added.
Update(q) ==
    /\ request[q] = "update"
    /\ written' = 1
    /\ Moves(q, "commit")
    /\ UNCHANGED <<document, sender, attempt, retried, copies, holder>>

\* Fault: the answer is sent before the transaction commits.
Commit_AnswersFirst(q) ==
    /\ \/ request[q] = "commit" /\ Moves(q, "done") /\ UNCHANGED <<copies, holder>>
       \/ request[q] = "done" /\ holder = q /\ holder' = Nobody /\ copies' = written /\ UNCHANGED request
    /\ UNCHANGED <<document, sender, attempt, retried, written>>

Commit(q) ==
    /\ request[q] = "commit"
    /\ copies' = written
    /\ holder' = Nobody
    /\ Moves(q, "done")
    /\ UNCHANGED <<document, sender, attempt, retried, written>>

\* Fault: a rolled back transaction keeps its lock.
Fail_KeepsLock(q) ==
    /\ request[q] \in {"sent", "find", "insert", "update", "commit"}
    /\ Moves(q, "failed")
    /\ UNCHANGED <<document, sender, attempt, retried, copies, written, holder>>

\* The service or its database fails: the transaction is rolled back (5xx).
Fail(q) ==
    /\ request[q] \in {"sent", "find", "insert", "update", "commit"}
    /\ holder' = IF holder = q THEN Nobody ELSE holder
    /\ Moves(q, "failed")
    /\ UNCHANGED <<document, sender, attempt, retried, copies, written>>

\* Everything was said and done.
Finished ==
    /\ sender \in {"stored", "gave up"}
    /\ \A q \in Requests : request[q] \in {"unsent", "done", "refused", "conflict", "failed"}
    /\ UNCHANGED vars

Upsert(q) ==
    Arrive(q) \/ Find(q) \/ Insert(q) \/ InsertFails(q) \/ Update(q) \/ Commit(q)

Next ==
    \/ Publish \/ TimeOut \/ Answer
    \/ \E q \in Requests : Upsert(q) \/ Fail(q)
    \/ Finished

Spec == Init /\ [][Next]_vars

\* The sender's timers fire and answers reach it; a request that neither fails
\* nor waits for a lock goes on.
Fairness ==
    /\ WF_vars(Publish) /\ WF_vars(TimeOut \/ Answer)
    /\ \A q \in Requests : WF_vars(Upsert(q))

FairSpec == Spec /\ Fairness

-----------------------------------------------------------------------------
\* Properties.

HistoryTypeOK ==
    /\ document \in {"good", "refused", "clashing"}
    /\ sender \in {"idle", "waiting", "backoff", "stored", "gave up"}
    /\ attempt \in 0..Attempts
    /\ request \in [Requests -> {"unsent", "sent", "find", "insert", "update", "commit",
                                 "done", "refused", "conflict", "failed"}]
    /\ retried \subseteq Requests
    /\ copies \in Nat /\ written \in Nat
    /\ holder \in Requests \cup {Nobody}
    /\ sender = "backoff" => attempt < Attempts
    /\ sender = "idle" => attempt = 0
    /\ sender = "waiting" => attempt > 0

\* However many requests of one match overlap, its participants are stored once:
\* a retry replaces what the request it gave up on may have stored.
StoredOnce == copies <= 1

\* A match reported as stored is in the history.
ReportedStored == sender = "stored" => copies = 1

\* Two first upserts may both insert, but the loser's conflict never reaches the
\* sender of a good document, who would take it for a refusal and stop trying.
ConflictStaysInside ==
    document = "good" => \A q \in Requests : request[q] # "conflict"

\* The sender gives up on a document that cannot be stored or after its last attempt.
GivesUpForACause == sender = "gave up" => document # "good" \/ attempt = Attempts

\* A stored match is not lost again, whatever fails afterwards.
StoredForGood == [][copies = 1 => copies' = 1]_vars

\* Publishing ends, and no transaction waits for ever on another one's lock.
PublishingEnds == sender = "waiting" ~> sender \in {"stored", "gave up"}
RequestsEnd ==
    \A q \in Requests :
        request[q] = "sent" ~> request[q] \in {"done", "refused", "conflict", "failed"}
=============================================================================
