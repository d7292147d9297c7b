------------------------ MODULE MatchHistory_proofs ------------------------
(***************************************************************************)
(* Theorems about MatchHistory, for any number of attempts.                  *)
(***************************************************************************)
EXTENDS MatchHistory, TLAPS

\* What each request knows of the store: the row is locked exactly by the
\* transaction that may write it; a good document's upsert only runs again after
\* a lost race, so it finds the row; attempts not made yet have no request.
RequestOK(q) ==
    /\ holder = q <=> request[q] \in {"update", "commit"}
    /\ request[q] = "commit" => written = 1
    /\ request[q] = "done" => copies = 1
    /\ request[q] = "refused" => document = "refused"
    /\ document = "good" => request[q] # "conflict"
    /\ document = "good" /\ q \in retried => copies > 0 /\ request[q] # "insert"
    /\ q > attempt => request[q] = "unsent"

SenderOK == StoredOnce /\ ReportedStored /\ GivesUpForACause

HistoryInv == HistoryTypeOK /\ SenderOK /\ \A q \in Requests : RequestOK(q)

\* An attempt is only begun while there are attempts left.
LEMMA AttemptsLeft ==
    ASSUME HistoryTypeOK, sender \in {"idle", "backoff"}
    PROVE  attempt \in Nat /\ attempt + 1 \in Requests
<1>1. attempt \in 0..Attempts BY DEF HistoryTypeOK
<1>2. sender = "backoff" => attempt < Attempts BY DEF HistoryTypeOK
<1>3. sender = "idle" => attempt = 0 BY DEF HistoryTypeOK
<1>4. QED BY <1>1, <1>2, <1>3, AttemptsAssumption DEF Requests

\* Types are kept by every step of the sender and of a request.
LEMMA HistoryTypeStep == HistoryTypeOK /\ [Next]_vars => HistoryTypeOK'
<1> SUFFICES ASSUME HistoryTypeOK, [Next]_vars PROVE HistoryTypeOK'
    OBVIOUS
<1>1. CASE Publish
    <2>1. attempt \in Nat /\ attempt + 1 \in Requests BY <1>1, AttemptsLeft DEF Publish
    <2>2. attempt' \in 0..Attempts /\ attempt' > 0
        BY <1>1, <2>1, AttemptsAssumption DEF Publish, Requests
    <2>3. QED BY <1>1, <2>1, <2>2 DEF Publish, Moves, HistoryTypeOK
<1>2. CASE TimeOut \/ Answer
    <2>1. attempt \in 0..Attempts /\ attempt > 0 /\ attempt' = attempt
        BY <1>2 DEF TimeOut, Answer, HistoryTypeOK
    <2>2. sender' = "backoff" => attempt < Attempts
        BY <1>2, <2>1, AttemptsAssumption DEF TimeOut, Answer, TryAgain
    <2>3. sender' \in {"backoff", "stored", "gave up"} BY <1>2 DEF TimeOut, Answer, TryAgain
    <2>4. QED BY <1>2, <2>1, <2>2, <2>3 DEF TimeOut, Answer, HistoryTypeOK
<1>3. ASSUME NEW q \in Requests, Upsert(q) PROVE HistoryTypeOK'
    <2>1. CASE Arrive(q) BY <2>1 DEF Arrive, Moves, HistoryTypeOK
    <2>2. CASE Find(q) BY <2>2 DEF Find, Moves, HistoryTypeOK
    <2>3. CASE Insert(q) BY <2>3 DEF Insert, Moves, HistoryTypeOK
    <2>4. CASE InsertFails(q) BY <2>4 DEF InsertFails, Moves, HistoryTypeOK
    <2>5. CASE Update(q) BY <2>5 DEF Update, Moves, HistoryTypeOK
    <2>6. CASE Commit(q) BY <2>6 DEF Commit, Moves, HistoryTypeOK
    <2>7. QED BY <1>3, <2>1, <2>2, <2>3, <2>4, <2>5, <2>6 DEF Upsert
<1>4. ASSUME NEW q \in Requests, Fail(q) PROVE HistoryTypeOK'
    BY <1>4 DEF Fail, Moves, HistoryTypeOK
<1>5. CASE Finished \/ UNCHANGED vars BY <1>5 DEF Finished, vars, HistoryTypeOK
<1>6. QED BY <1>1, <1>2, <1>3, <1>4, <1>5 DEF Next

\* The sender's steps: it moves no request but the one it sends.
LEMMA SenderStep ==
    ASSUME HistoryInv, HistoryTypeOK', Publish \/ TimeOut \/ Answer
    PROVE  HistoryInv'
<1>0. DOMAIN request = Requests BY DEF HistoryInv, HistoryTypeOK
<1>1. CASE Publish
    <2>1. attempt \in Nat /\ attempt + 1 \in Requests
        BY <1>1, AttemptsLeft DEF Publish, HistoryInv
    <2>3. SenderOK'
        BY <1>1 DEF Publish, HistoryInv, SenderOK, StoredOnce, ReportedStored, GivesUpForACause
    <2>4. ASSUME NEW r \in Requests PROVE RequestOK(r)'
        <3>1. RequestOK(r) /\ RequestOK(attempt + 1) BY <2>1 DEF HistoryInv
        <3>2. request'[r] = IF r = attempt + 1 THEN "sent" ELSE request[r]
            BY <1>0, <1>1, <2>1 DEF Publish, Moves
        <3>3. request[attempt + 1] = "unsent" BY <2>1, <3>1 DEF RequestOK
        <3>4. r \in Nat /\ attempt' = attempt + 1 BY <1>1 DEF Publish, Requests
        <3>5. UNCHANGED <<document, retried, copies, written, holder>> BY <1>1 DEF Publish
        <3>6. QED BY <2>1, <3>1, <3>2, <3>3, <3>4, <3>5 DEF RequestOK
    <2>5. QED BY <2>3, <2>4 DEF HistoryInv
<1>2. CASE TimeOut \/ Answer
    <2>1. UNCHANGED <<document, attempt, request, retried, copies, written, holder>>
        BY <1>2 DEF TimeOut, Answer
    <2>2. attempt \in 1..Attempts
        <3>1. attempt \in 0..Attempts BY DEF HistoryInv, HistoryTypeOK
        <3>2. attempt > 0 BY <1>2 DEF HistoryInv, HistoryTypeOK, TimeOut, Answer
        <3>3. QED BY <3>1, <3>2, AttemptsAssumption
    <2>3. RequestOK(attempt) BY <2>2 DEF HistoryInv, Requests
    <2>4. sender' = "stored" => copies = 1
        BY <1>2, <2>3 DEF TimeOut, Answer, TryAgain, RequestOK
    <2>5. sender' = "gave up" => document # "good" \/ attempt = Attempts
        <3>1. request[attempt] \in {"refused", "conflict"} => document # "good"
            BY <2>3 DEF RequestOK
        <3>2. ~(attempt < Attempts) => attempt = Attempts BY <2>2, AttemptsAssumption
        <3>3. QED BY <1>2, <3>1, <3>2 DEF TimeOut, Answer, TryAgain
    <2>6. SenderOK'
        BY <2>1, <2>4, <2>5 DEF HistoryInv, SenderOK, StoredOnce, ReportedStored, GivesUpForACause
    <2>7. ASSUME NEW r \in Requests PROVE RequestOK(r)'
        BY <2>1, <2>7 DEF HistoryInv, RequestOK
    <2>8. QED BY <2>6, <2>7 DEF HistoryInv
<1>3. QED BY <1>1, <1>2

\* A request's steps: what they do to the request itself and to any other.
LEMMA RequestStep ==
    ASSUME HistoryInv, HistoryTypeOK', NEW q \in Requests, Upsert(q) \/ Fail(q)
    PROVE  HistoryInv'
<1>1. RequestOK(q) BY DEF HistoryInv
<1>2. DOMAIN request = Requests /\ copies \in Nat /\ holder \in Requests \cup {Nobody}
    BY DEF HistoryInv, HistoryTypeOK
<1>3. UNCHANGED <<document, sender, attempt>>
    BY DEF Upsert, Arrive, Find, Insert, InsertFails, Update, Commit, Fail
<1>4. copies' = copies \/ copies' = 1
    BY <1>1 DEF RequestOK, Upsert, Arrive, Find, Insert, InsertFails, Update, Commit, Fail
<1>5. SenderOK'
    <2>1. copies <= 1 /\ (sender = "stored" => copies = 1)
        BY DEF HistoryInv, SenderOK, StoredOnce, ReportedStored
    <2>2. StoredOnce' /\ ReportedStored' BY <1>3, <1>4, <2>1 DEF StoredOnce, ReportedStored
    <2>3. GivesUpForACause' BY <1>3 DEF HistoryInv, SenderOK, GivesUpForACause
    <2>4. QED BY <2>2, <2>3 DEF SenderOK
<1>6. copies <= 1 /\ Nobody \notin Requests
    BY DEF HistoryInv, SenderOK, StoredOnce, Nobody, Requests
<1>7. ASSUME NEW r \in Requests PROVE RequestOK(r)'
    <2>1. RequestOK(r) BY DEF HistoryInv
    <2>2. r > attempt => r # q
        BY <1>1 DEF RequestOK, Upsert, Arrive, Find, Insert, InsertFails, Update, Commit, Fail
    <2> USE <1>1, <1>2, <1>3, <1>6, <2>1, <2>2 DEF Moves, RequestOK
    <2>3. CASE Arrive(q) BY <2>3 DEF Arrive
    <2>4. CASE Find(q) BY <2>4 DEF Find
    <2>5. CASE Insert(q) BY <2>5 DEF Insert
    <2>6. CASE InsertFails(q) BY <2>6 DEF InsertFails, Violates
    <2>7. CASE Update(q) BY <2>7 DEF Update
    <2>8. CASE Commit(q) BY <2>8 DEF Commit
    <2>9. CASE Fail(q) BY <2>9 DEF Fail
    <2>10. QED BY <2>3, <2>4, <2>5, <2>6, <2>7, <2>8, <2>9 DEF Upsert
<1>8. QED BY <1>5, <1>7 DEF HistoryInv

LEMMA HistoryStep == HistoryInv /\ [Next]_vars => HistoryInv'
<1> SUFFICES ASSUME HistoryInv, [Next]_vars PROVE HistoryInv'
    OBVIOUS
<1>1. HistoryTypeOK' BY HistoryTypeStep DEF HistoryInv
<1>2. CASE UNCHANGED vars
    BY <1>2 DEF vars, HistoryInv, HistoryTypeOK, SenderOK, StoredOnce, ReportedStored,
        GivesUpForACause, RequestOK
<1>3. CASE Next BY <1>1, <1>2, <1>3, SenderStep, RequestStep DEF Next, Finished
<1>4. QED BY <1>2, <1>3

LEMMA HistoryInit == Init => HistoryInv
<1> SUFFICES ASSUME Init PROVE HistoryInv
    OBVIOUS
<1>1. HistoryTypeOK
    <2>1. attempt \in 0..Attempts BY AttemptsAssumption DEF Init
    <2>2. QED BY <2>1 DEF Init, HistoryTypeOK, Nobody
<1>2. SenderOK BY DEF Init, SenderOK, StoredOnce, ReportedStored, GivesUpForACause
<1>3. ASSUME NEW q \in Requests PROVE RequestOK(q)
    BY DEF Init, RequestOK, Nobody, Requests
<1>4. QED BY <1>1, <1>2, <1>3 DEF HistoryInv

\* Whatever overlaps, times out or fails, all parts of HistoryInv hold for ever.
THEOREM HistorySafe == Spec => [](HistoryTypeOK /\ HistoryInv)
<1>1. HistoryInv => HistoryTypeOK BY DEF HistoryInv
<1>2. QED BY <1>1, HistoryInit, HistoryStep, PTL DEF Spec

\* The participants of a match are stored once, a reported match is stored, a
\* lost race never reaches the sender, who only gives up for a cause
\* (MatchPersistenceAdapter.upsert, RecordMatchResult.execute).
THEOREM HistoryKept ==
    Spec => [](StoredOnce /\ ReportedStored /\ ConflictStaysInside /\ GivesUpForACause)
<1>1. HistoryInv => StoredOnce /\ ReportedStored /\ ConflictStaysInside /\ GivesUpForACause
    BY DEF HistoryInv, SenderOK, RequestOK, ConflictStaysInside
<1>2. QED BY <1>1, HistorySafe, PTL

\* However many attempts overlap, the participants of a match are stored once.
THEOREM StoredOnceSafe == Spec => []StoredOnce
BY HistoryKept, PTL

\* The request that lost the insert race ends as an update, never as a conflict.
THEOREM ConflictStaysInsideSafe == Spec => []ConflictStaysInside
BY HistoryKept, PTL

\* A stored match stays stored: only a commit touches it, and it writes all of it.
THEOREM StoredForGoodSafe == Spec => StoredForGood
<1>1. HistoryInv /\ [Next]_vars => [copies = 1 => copies' = 1]_vars
    <2> SUFFICES ASSUME HistoryInv, Next, copies = 1 PROVE copies' = 1
        OBVIOUS
    <2>1. ASSUME NEW q \in Requests, Commit(q) PROVE copies' = 1
        BY <2>1 DEF Commit, HistoryInv, RequestOK
    <2>2. QED BY <2>1 DEF Next, Publish, TimeOut, Answer, Upsert, Arrive, Find, Insert,
                 InsertFails, Update, Fail, Finished, vars
<1>2. QED BY <1>1, HistorySafe, PTL DEF Spec, StoredForGood
=============================================================================
