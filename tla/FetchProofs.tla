------------------------------ MODULE FetchProofs ------------------------------
(***************************************************************************)
(* Proofs about Fetch, for every bound on the retries.  The invariant says *)
(* what each place of the pipeline has behind it: how often it has sent    *)
(* (SentSoFar, Unsent), whether it has a session and whether that session  *)
(* lives (SessionsFollow), and what a close at that place is for           *)
(* (ClosesAreMeant); and that what was got onto is dealt with (Accounted). *)
(***************************************************************************)
EXTENDS Fetch, TLAPS

Fresh == {"resolve", "http"}
BeforeNavigate == {"http_wait", "connect", "prepare", "navigate"} \cup Opening \cup Attaching
WithSession == OnPage \cup Detaching \cup {"capturing", "closing_failed", "closing_done"}
WithoutSession == Fresh \cup {"http_wait", "connect", "attach"} \cup Opening

SentSoFar ==
  sent <= 2 * (attempt - 1) + (IF step \in Fresh THEN 0 ELSE IF step \in BeforeNavigate THEN 1 ELSE 2)

Unsent ==
  ~request.idempotent =>
    /\ step # "retrying" /\ sent <= 1
    /\ step \in (Fresh \cup BeforeNavigate) \ {"http_wait"} => sent = 0

AttemptsLeft == step = "retrying" => attempt <= request.retries

SessionsFollow ==
  /\ step \in WithSession => attached
  /\ step \in WithoutSession => session = "none"
  /\ step \in WithoutSession \cup {"attaching", "closing_unattached"} => ~attached
  /\ attached => session \in {"attached", "leaving", "gone"}
  /\ step = "detaching_done" => session \in {"leaving", "gone"}
  /\ (\E t \in mine : tabs[t] = "closed") => session \notin {"attached", "leaving"}

ClosesAreMeant ==
  /\ step \in {"closing_unattached", "closing_failed"} => created_target /\ ~request.keep
  /\ step = "closing_done" => close_after_success(capture)

ResultsAreFinal == outcome # "none" => step = "returned"

OpensIfNoneGiven == step \in Opening => ~request.given

\* A tab is owed from its own attempt on.
OwedSoFar ==
  \A t \in owed : t # Given => t < attempt \/ (t = attempt /\ attached)

\* The attempt that got onto a tab is still about it, or has dealt with it.
Accounted ==
  \A t \in owed : \/ t \in reported \/ tabs[t] = "closed"
                  \/ (t \in mine /\ attached /\ step \notin Resting)

FetchInv ==
  /\ FetchTypeOK
  /\ SentSoFar
  /\ Unsent
  /\ AttemptsLeft
  /\ OpensIfNoneGiven
  /\ SessionsFollow
  /\ ClosesAreMeant
  /\ ResultsAreFinal
  /\ OwedSoFar
  /\ Accounted
  /\ SuccessLeavesNoSession

USE DEF Given, Attempts, Tabs, Early, Opening, Attaching, OnPage, Closing, Detaching,
        Resting, Places, Fresh, BeforeNavigate, WithSession, WithoutSession

\* The initial state satisfies the invariant.
LEMMA FetchInitKeeps == FetchInit => FetchInv
  <1> SUFFICES ASSUME FetchInit PROVE FetchInv
    OBVIOUS
  <1> USE RetriesAssumption DEF FetchInit
  <1>1. FetchTypeOK
    <2>1. request \in Requests /\ request.retries \in Nat
      BY DEF Requests
    <2>2. attempt \in 1 .. request.retries + 1 /\ sent \in 0 .. 2 * attempt
      <3>1. attempt = 1 /\ sent = 0
        OBVIOUS
      <3> QED
        BY <2>1, <3>1
    <2> QED
      BY <2>1, <2>2 DEF FetchTypeOK
  <1>2. SentSoFar
    <2>1. sent = 0 /\ attempt = 1 /\ step = "resolve"
      OBVIOUS
    <2> QED
      BY <2>1 DEF SentSoFar
  <1>6. Unsent /\ AttemptsLeft /\ OpensIfNoneGiven
    BY DEF Unsent, AttemptsLeft, OpensIfNoneGiven
  <1>3. SessionsFollow
    BY DEF SessionsFollow
  <1>4. ClosesAreMeant /\ ResultsAreFinal
    BY DEF ClosesAreMeant, ResultsAreFinal
  <1>5. OwedSoFar /\ Accounted /\ SuccessLeavesNoSession
    BY DEF OwedSoFar, Accounted, SuccessLeavesNoSession
  <1> QED
    BY <1>1, <1>2, <1>3, <1>4, <1>5, <1>6 DEF FetchInv

\* The tab an attempt knows is one there can be.
LEMMA AttemptsAndTabs ==
  ASSUME FetchTypeOK
  PROVE  /\ request.retries \in Nat
         /\ attempt \in Attempts
         /\ mine \subseteq Tabs
  <1>1. request.retries \in 0 .. MaxRetries /\ attempt \in 1 .. request.retries + 1
    BY DEF FetchTypeOK, Requests
  <1>2. attempt \in Attempts /\ request.retries \in Nat
    BY <1>1, RetriesAssumption
  <1> QED
    BY <1>2 DEF FetchTypeOK

\* A tab is only opened if none was given.
LEMMA OpensStep == OpensIfNoneGiven /\ [FetchNext]_fetchVars => OpensIfNoneGiven'
  <1> SUFFICES ASSUME OpensIfNoneGiven, [FetchNext]_fetchVars PROVE OpensIfNoneGiven'
    OBVIOUS
  <1> USE RetriesAssumption DEF result, driver, browser
  <1>1. ASSUME Resolves PROVE OpensIfNoneGiven'
    BY <1>1 DEF Resolves, OpensIfNoneGiven, Retries, Returns, Fails, retriesLeft, method_is_idempotent
  <1>2. ASSUME FailsEarly PROVE OpensIfNoneGiven'
    BY <1>2 DEF FailsEarly, OpensIfNoneGiven, Retries, Returns, Fails, retriesLeft, method_is_idempotent
  <1>3. ASSUME SendsHttp PROVE OpensIfNoneGiven'
    BY <1>3 DEF SendsHttp, OpensIfNoneGiven, Retries, Returns, Fails, retriesLeft, method_is_idempotent
  <1>4. ASSUME HttpAnswers PROVE OpensIfNoneGiven'
    BY <1>4 DEF HttpAnswers, OpensIfNoneGiven, Retries, Returns, Fails, retriesLeft, method_is_idempotent
  <1>5. ASSUME HttpFails PROVE OpensIfNoneGiven'
    BY <1>5 DEF HttpFails, OpensIfNoneGiven, Retries, Returns, Fails, retriesLeft, method_is_idempotent
  <1>6. ASSUME Escalates PROVE OpensIfNoneGiven'
    BY <1>6 DEF Escalates, OpensIfNoneGiven, Retries, Returns, Fails, retriesLeft, method_is_idempotent
  <1>7. ASSUME Connects PROVE OpensIfNoneGiven'
    BY <1>7 DEF Connects, OpensIfNoneGiven, Retries, Returns, Fails, retriesLeft, method_is_idempotent
  <1>8. ASSUME AsksForTab PROVE OpensIfNoneGiven'
    BY <1>8 DEF AsksForTab, OpensIfNoneGiven, Retries, Returns, Fails, retriesLeft, method_is_idempotent
  <1>9. ASSUME TabOpens PROVE OpensIfNoneGiven'
    BY <1>9 DEF TabOpens, OpensIfNoneGiven, Retries, Returns, Fails, retriesLeft, method_is_idempotent
  <1>10. ASSUME OpenFails PROVE OpensIfNoneGiven'
    BY <1>10 DEF OpenFails, OpensIfNoneGiven, Retries, Returns, Fails, retriesLeft, method_is_idempotent
  <1>11. ASSUME AsksForSession PROVE OpensIfNoneGiven'
    BY <1>11 DEF AsksForSession, OpensIfNoneGiven, Retries, Returns, Fails, retriesLeft, method_is_idempotent
  <1>12. ASSUME Attaches PROVE OpensIfNoneGiven'
    BY <1>12 DEF Attaches, OpensIfNoneGiven, Retries, Returns, Fails, retriesLeft, method_is_idempotent
  <1>13. ASSUME AttachFails PROVE OpensIfNoneGiven'
    BY <1>13 DEF AttachFails, OpensIfNoneGiven, Retries, Returns, Fails, retriesLeft, method_is_idempotent
  <1>14. ASSUME Prepares PROVE OpensIfNoneGiven'
    BY <1>14 DEF Prepares, OpensIfNoneGiven, Retries, Returns, Fails, retriesLeft, method_is_idempotent
  <1>15. ASSUME Navigates PROVE OpensIfNoneGiven'
    BY <1>15 DEF Navigates, OpensIfNoneGiven, Retries, Returns, Fails, retriesLeft, method_is_idempotent
  <1>16. ASSUME Navigated PROVE OpensIfNoneGiven'
    BY <1>16 DEF Navigated, OpensIfNoneGiven, Retries, Returns, Fails, retriesLeft, method_is_idempotent
  <1>17. ASSUME PageReady PROVE OpensIfNoneGiven'
    BY <1>17 DEF PageReady, OpensIfNoneGiven, Retries, Returns, Fails, retriesLeft, method_is_idempotent
  <1>18. ASSUME StageFails PROVE OpensIfNoneGiven'
    BY <1>18 DEF StageFails, OpensIfNoneGiven, Retries, Returns, Fails, retriesLeft, method_is_idempotent
  <1>19. ASSUME Captures PROVE OpensIfNoneGiven'
    BY <1>19 DEF Captures, OpensIfNoneGiven, Retries, Returns, Fails, retriesLeft, method_is_idempotent
  <1>20. ASSUME SendsClose PROVE OpensIfNoneGiven'
    BY <1>20 DEF SendsClose, OpensIfNoneGiven, Retries, Returns, Fails, retriesLeft, method_is_idempotent
  <1>21. ASSUME TabCloses PROVE OpensIfNoneGiven'
    BY <1>21 DEF TabCloses, OpensIfNoneGiven, Retries, Returns, Fails, retriesLeft, method_is_idempotent
  <1>22. ASSUME CloseFails PROVE OpensIfNoneGiven'
    BY <1>22 DEF CloseFails, OpensIfNoneGiven, Retries, Returns, Fails, retriesLeft, method_is_idempotent
  <1>23. ASSUME DetachEnds PROVE OpensIfNoneGiven'
    BY <1>23 DEF DetachEnds, OpensIfNoneGiven, Retries, Returns, Fails, retriesLeft, method_is_idempotent
  <1>24. ASSUME Tick PROVE OpensIfNoneGiven'
    BY <1>24 DEF Tick, OpensIfNoneGiven, Retries, Returns, Fails, retriesLeft, method_is_idempotent
  <1>25. ASSUME CutShort PROVE OpensIfNoneGiven'
    BY <1>25 DEF CutShort, OpensIfNoneGiven, Retries, Returns, Fails, retriesLeft, method_is_idempotent
  <1>26. ASSUME TriesAgain PROVE OpensIfNoneGiven'
    BY <1>26 DEF TriesAgain, OpensIfNoneGiven, Retries, Returns, Fails, retriesLeft, method_is_idempotent
  <1>27. ASSUME NEW t \in Tabs, BrowserOpens(t) PROVE OpensIfNoneGiven'
    BY <1>27 DEF BrowserOpens, OpensIfNoneGiven, Retries, Returns, Fails, retriesLeft, method_is_idempotent
  <1>28. ASSUME NEW t \in Tabs, BrowserEndsTab(t) PROVE OpensIfNoneGiven'
    BY <1>28 DEF BrowserEndsTab, OpensIfNoneGiven, Retries, Returns, Fails, retriesLeft, method_is_idempotent
  <1>29. ASSUME NEW t \in Tabs, TabVanishes(t) PROVE OpensIfNoneGiven'
    BY <1>29 DEF TabVanishes, OpensIfNoneGiven, Retries, Returns, Fails, retriesLeft, method_is_idempotent
  <1>30. ASSUME BrowserAttaches PROVE OpensIfNoneGiven'
    BY <1>30 DEF BrowserAttaches, OpensIfNoneGiven, Retries, Returns, Fails, retriesLeft, method_is_idempotent
  <1>31. ASSUME BrowserDetaches PROVE OpensIfNoneGiven'
    BY <1>31 DEF BrowserDetaches, OpensIfNoneGiven, Retries, Returns, Fails, retriesLeft, method_is_idempotent
  <1>32. ASSUME UNCHANGED fetchVars PROVE OpensIfNoneGiven'
    BY <1>32 DEF fetchVars, OpensIfNoneGiven, Retries, Returns, Fails, retriesLeft, method_is_idempotent
  <1> QED
    BY <1>1, <1>2, <1>3, <1>4, <1>5, <1>6, <1>7, <1>8, <1>9, <1>10, <1>11, <1>12, <1>13, <1>14, <1>15, <1>16, <1>17, <1>18, <1>19, <1>20, <1>21, <1>22, <1>23, <1>24, <1>25, <1>26, <1>27, <1>28, <1>29, <1>30, <1>31, <1>32 DEF FetchNext, PipelineStep, BrowserRuns

\* Only what may go out again is sent again.
LEMMA UnsentStep == FetchTypeOK /\ Unsent /\ [FetchNext]_fetchVars => Unsent'
  <1> SUFFICES ASSUME FetchTypeOK, Unsent, [FetchNext]_fetchVars PROVE Unsent'
    OBVIOUS
  <1> USE RetriesAssumption DEF result, driver, browser
  <1>1. ASSUME Resolves PROVE Unsent'
    BY <1>1 DEF Resolves, Unsent, FetchTypeOK, Retries, Returns, Fails, retriesLeft, method_is_idempotent
  <1>2. ASSUME FailsEarly PROVE Unsent'
    BY <1>2 DEF FailsEarly, Unsent, FetchTypeOK, Retries, Returns, Fails, retriesLeft, method_is_idempotent
  <1>3. ASSUME SendsHttp PROVE Unsent'
    BY <1>3 DEF SendsHttp, Unsent, FetchTypeOK, Retries, Returns, Fails, retriesLeft, method_is_idempotent
  <1>4. ASSUME HttpAnswers PROVE Unsent'
    BY <1>4 DEF HttpAnswers, Unsent, FetchTypeOK, Retries, Returns, Fails, retriesLeft, method_is_idempotent
  <1>5. ASSUME HttpFails PROVE Unsent'
    BY <1>5 DEF HttpFails, Unsent, FetchTypeOK, Retries, Returns, Fails, retriesLeft, method_is_idempotent
  <1>6. ASSUME Escalates PROVE Unsent'
    BY <1>6 DEF Escalates, Unsent, FetchTypeOK, Retries, Returns, Fails, retriesLeft, method_is_idempotent
  <1>7. ASSUME Connects PROVE Unsent'
    BY <1>7 DEF Connects, Unsent, FetchTypeOK, Retries, Returns, Fails, retriesLeft, method_is_idempotent
  <1>8. ASSUME AsksForTab PROVE Unsent'
    BY <1>8 DEF AsksForTab, Unsent, FetchTypeOK, Retries, Returns, Fails, retriesLeft, method_is_idempotent
  <1>9. ASSUME TabOpens PROVE Unsent'
    BY <1>9 DEF TabOpens, Unsent, FetchTypeOK, Retries, Returns, Fails, retriesLeft, method_is_idempotent
  <1>10. ASSUME OpenFails PROVE Unsent'
    BY <1>10 DEF OpenFails, Unsent, FetchTypeOK, Retries, Returns, Fails, retriesLeft, method_is_idempotent
  <1>11. ASSUME AsksForSession PROVE Unsent'
    BY <1>11 DEF AsksForSession, Unsent, FetchTypeOK, Retries, Returns, Fails, retriesLeft, method_is_idempotent
  <1>12. ASSUME Attaches PROVE Unsent'
    BY <1>12 DEF Attaches, Unsent, FetchTypeOK, Retries, Returns, Fails, retriesLeft, method_is_idempotent
  <1>13. ASSUME AttachFails PROVE Unsent'
    BY <1>13 DEF AttachFails, Unsent, FetchTypeOK, Retries, Returns, Fails, retriesLeft, method_is_idempotent
  <1>14. ASSUME Prepares PROVE Unsent'
    BY <1>14 DEF Prepares, Unsent, FetchTypeOK, Retries, Returns, Fails, retriesLeft, method_is_idempotent
  <1>15. ASSUME Navigates PROVE Unsent'
    BY <1>15 DEF Navigates, Unsent, FetchTypeOK, Retries, Returns, Fails, retriesLeft, method_is_idempotent
  <1>16. ASSUME Navigated PROVE Unsent'
    BY <1>16 DEF Navigated, Unsent, FetchTypeOK, Retries, Returns, Fails, retriesLeft, method_is_idempotent
  <1>17. ASSUME PageReady PROVE Unsent'
    BY <1>17 DEF PageReady, Unsent, FetchTypeOK, Retries, Returns, Fails, retriesLeft, method_is_idempotent
  <1>18. ASSUME StageFails PROVE Unsent'
    BY <1>18 DEF StageFails, Unsent, FetchTypeOK, Retries, Returns, Fails, retriesLeft, method_is_idempotent
  <1>19. ASSUME Captures PROVE Unsent'
    BY <1>19 DEF Captures, Unsent, FetchTypeOK, Retries, Returns, Fails, retriesLeft, method_is_idempotent
  <1>20. ASSUME SendsClose PROVE Unsent'
    BY <1>20 DEF SendsClose, Unsent, FetchTypeOK, Retries, Returns, Fails, retriesLeft, method_is_idempotent
  <1>21. ASSUME TabCloses PROVE Unsent'
    BY <1>21 DEF TabCloses, Unsent, FetchTypeOK, Retries, Returns, Fails, retriesLeft, method_is_idempotent
  <1>22. ASSUME CloseFails PROVE Unsent'
    BY <1>22 DEF CloseFails, Unsent, FetchTypeOK, Retries, Returns, Fails, retriesLeft, method_is_idempotent
  <1>23. ASSUME DetachEnds PROVE Unsent'
    BY <1>23 DEF DetachEnds, Unsent, FetchTypeOK, Retries, Returns, Fails, retriesLeft, method_is_idempotent
  <1>24. ASSUME Tick PROVE Unsent'
    BY <1>24 DEF Tick, Unsent, FetchTypeOK, Retries, Returns, Fails, retriesLeft, method_is_idempotent
  <1>25. ASSUME CutShort PROVE Unsent'
    BY <1>25 DEF CutShort, Unsent, FetchTypeOK, Retries, Returns, Fails, retriesLeft, method_is_idempotent
  <1>26. ASSUME TriesAgain PROVE Unsent'
    BY <1>26 DEF TriesAgain, Unsent, FetchTypeOK, Retries, Returns, Fails, retriesLeft, method_is_idempotent
  <1>27. ASSUME NEW t \in Tabs, BrowserOpens(t) PROVE Unsent'
    BY <1>27 DEF BrowserOpens, Unsent, FetchTypeOK, Retries, Returns, Fails, retriesLeft, method_is_idempotent
  <1>28. ASSUME NEW t \in Tabs, BrowserEndsTab(t) PROVE Unsent'
    BY <1>28 DEF BrowserEndsTab, Unsent, FetchTypeOK, Retries, Returns, Fails, retriesLeft, method_is_idempotent
  <1>29. ASSUME NEW t \in Tabs, TabVanishes(t) PROVE Unsent'
    BY <1>29 DEF TabVanishes, Unsent, FetchTypeOK, Retries, Returns, Fails, retriesLeft, method_is_idempotent
  <1>30. ASSUME BrowserAttaches PROVE Unsent'
    BY <1>30 DEF BrowserAttaches, Unsent, FetchTypeOK, Retries, Returns, Fails, retriesLeft, method_is_idempotent
  <1>31. ASSUME BrowserDetaches PROVE Unsent'
    BY <1>31 DEF BrowserDetaches, Unsent, FetchTypeOK, Retries, Returns, Fails, retriesLeft, method_is_idempotent
  <1>32. ASSUME UNCHANGED fetchVars PROVE Unsent'
    BY <1>32 DEF fetchVars, Unsent, FetchTypeOK, Retries, Returns, Fails, retriesLeft, method_is_idempotent
  <1> QED
    BY <1>1, <1>2, <1>3, <1>4, <1>5, <1>6, <1>7, <1>8, <1>9, <1>10, <1>11, <1>12, <1>13, <1>14, <1>15, <1>16, <1>17, <1>18, <1>19, <1>20, <1>21, <1>22, <1>23, <1>24, <1>25, <1>26, <1>27, <1>28, <1>29, <1>30, <1>31, <1>32 DEF FetchNext, PipelineStep, BrowserRuns

\* A retry is only begun while there is one left.
LEMMA AttemptsLeftStep == FetchTypeOK /\ AttemptsLeft /\ [FetchNext]_fetchVars => AttemptsLeft'
  <1> SUFFICES ASSUME FetchTypeOK, AttemptsLeft, [FetchNext]_fetchVars PROVE AttemptsLeft'
    OBVIOUS
  <1> USE RetriesAssumption DEF result, driver, browser
  <1>1. ASSUME Resolves PROVE AttemptsLeft'
    BY <1>1 DEF Resolves, AttemptsLeft, Retries, Returns, Fails, retriesLeft, method_is_idempotent
  <1>2. ASSUME FailsEarly PROVE AttemptsLeft'
    BY <1>2 DEF FailsEarly, AttemptsLeft, Retries, Returns, Fails, retriesLeft, method_is_idempotent
  <1>3. ASSUME SendsHttp PROVE AttemptsLeft'
    BY <1>3 DEF SendsHttp, AttemptsLeft, Retries, Returns, Fails, retriesLeft, method_is_idempotent
  <1>4. ASSUME HttpAnswers PROVE AttemptsLeft'
    BY <1>4 DEF HttpAnswers, AttemptsLeft, Retries, Returns, Fails, retriesLeft, method_is_idempotent
  <1>5. ASSUME HttpFails PROVE AttemptsLeft'
    BY <1>5 DEF HttpFails, AttemptsLeft, Retries, Returns, Fails, retriesLeft, method_is_idempotent
  <1>6. ASSUME Escalates PROVE AttemptsLeft'
    BY <1>6 DEF Escalates, AttemptsLeft, Retries, Returns, Fails, retriesLeft, method_is_idempotent
  <1>7. ASSUME Connects PROVE AttemptsLeft'
    BY <1>7 DEF Connects, AttemptsLeft, Retries, Returns, Fails, retriesLeft, method_is_idempotent
  <1>8. ASSUME AsksForTab PROVE AttemptsLeft'
    BY <1>8 DEF AsksForTab, AttemptsLeft, Retries, Returns, Fails, retriesLeft, method_is_idempotent
  <1>9. ASSUME TabOpens PROVE AttemptsLeft'
    BY <1>9 DEF TabOpens, AttemptsLeft, Retries, Returns, Fails, retriesLeft, method_is_idempotent
  <1>10. ASSUME OpenFails PROVE AttemptsLeft'
    BY <1>10 DEF OpenFails, AttemptsLeft, Retries, Returns, Fails, retriesLeft, method_is_idempotent
  <1>11. ASSUME AsksForSession PROVE AttemptsLeft'
    BY <1>11 DEF AsksForSession, AttemptsLeft, Retries, Returns, Fails, retriesLeft, method_is_idempotent
  <1>12. ASSUME Attaches PROVE AttemptsLeft'
    BY <1>12 DEF Attaches, AttemptsLeft, Retries, Returns, Fails, retriesLeft, method_is_idempotent
  <1>13. ASSUME AttachFails PROVE AttemptsLeft'
    BY <1>13 DEF AttachFails, AttemptsLeft, Retries, Returns, Fails, retriesLeft, method_is_idempotent
  <1>14. ASSUME Prepares PROVE AttemptsLeft'
    BY <1>14 DEF Prepares, AttemptsLeft, Retries, Returns, Fails, retriesLeft, method_is_idempotent
  <1>15. ASSUME Navigates PROVE AttemptsLeft'
    BY <1>15 DEF Navigates, AttemptsLeft, Retries, Returns, Fails, retriesLeft, method_is_idempotent
  <1>16. ASSUME Navigated PROVE AttemptsLeft'
    BY <1>16 DEF Navigated, AttemptsLeft, Retries, Returns, Fails, retriesLeft, method_is_idempotent
  <1>17. ASSUME PageReady PROVE AttemptsLeft'
    BY <1>17 DEF PageReady, AttemptsLeft, Retries, Returns, Fails, retriesLeft, method_is_idempotent
  <1>18. ASSUME StageFails PROVE AttemptsLeft'
    BY <1>18 DEF StageFails, AttemptsLeft, Retries, Returns, Fails, retriesLeft, method_is_idempotent
  <1>19. ASSUME Captures PROVE AttemptsLeft'
    BY <1>19 DEF Captures, AttemptsLeft, Retries, Returns, Fails, retriesLeft, method_is_idempotent
  <1>20. ASSUME SendsClose PROVE AttemptsLeft'
    BY <1>20 DEF SendsClose, AttemptsLeft, Retries, Returns, Fails, retriesLeft, method_is_idempotent
  <1>21. ASSUME TabCloses PROVE AttemptsLeft'
    BY <1>21 DEF TabCloses, AttemptsLeft, Retries, Returns, Fails, retriesLeft, method_is_idempotent
  <1>22. ASSUME CloseFails PROVE AttemptsLeft'
    BY <1>22 DEF CloseFails, AttemptsLeft, Retries, Returns, Fails, retriesLeft, method_is_idempotent
  <1>23. ASSUME DetachEnds PROVE AttemptsLeft'
    BY <1>23 DEF DetachEnds, AttemptsLeft, Retries, Returns, Fails, retriesLeft, method_is_idempotent
  <1>24. ASSUME Tick PROVE AttemptsLeft'
    BY <1>24 DEF Tick, AttemptsLeft, Retries, Returns, Fails, retriesLeft, method_is_idempotent
  <1>25. ASSUME CutShort PROVE AttemptsLeft'
    BY <1>25 DEF CutShort, AttemptsLeft, Retries, Returns, Fails, retriesLeft, method_is_idempotent
  <1>26. ASSUME TriesAgain PROVE AttemptsLeft'
    BY <1>26 DEF TriesAgain, AttemptsLeft, Retries, Returns, Fails, retriesLeft, method_is_idempotent
  <1>27. ASSUME NEW t \in Tabs, BrowserOpens(t) PROVE AttemptsLeft'
    BY <1>27 DEF BrowserOpens, AttemptsLeft, Retries, Returns, Fails, retriesLeft, method_is_idempotent
  <1>28. ASSUME NEW t \in Tabs, BrowserEndsTab(t) PROVE AttemptsLeft'
    BY <1>28 DEF BrowserEndsTab, AttemptsLeft, Retries, Returns, Fails, retriesLeft, method_is_idempotent
  <1>29. ASSUME NEW t \in Tabs, TabVanishes(t) PROVE AttemptsLeft'
    BY <1>29 DEF TabVanishes, AttemptsLeft, Retries, Returns, Fails, retriesLeft, method_is_idempotent
  <1>30. ASSUME BrowserAttaches PROVE AttemptsLeft'
    BY <1>30 DEF BrowserAttaches, AttemptsLeft, Retries, Returns, Fails, retriesLeft, method_is_idempotent
  <1>31. ASSUME BrowserDetaches PROVE AttemptsLeft'
    BY <1>31 DEF BrowserDetaches, AttemptsLeft, Retries, Returns, Fails, retriesLeft, method_is_idempotent
  <1>32. ASSUME UNCHANGED fetchVars PROVE AttemptsLeft'
    BY <1>32 DEF fetchVars, AttemptsLeft, Retries, Returns, Fails, retriesLeft, method_is_idempotent
  <1> QED
    BY <1>1, <1>2, <1>3, <1>4, <1>5, <1>6, <1>7, <1>8, <1>9, <1>10, <1>11, <1>12, <1>13, <1>14, <1>15, <1>16, <1>17, <1>18, <1>19, <1>20, <1>21, <1>22, <1>23, <1>24, <1>25, <1>26, <1>27, <1>28, <1>29, <1>30, <1>31, <1>32 DEF FetchNext, PipelineStep, BrowserRuns

\* A fetch that has its result does nothing more.
LEMMA FinalStep == ResultsAreFinal /\ [FetchNext]_fetchVars => ResultsAreFinal'
  <1> SUFFICES ASSUME ResultsAreFinal, [FetchNext]_fetchVars PROVE ResultsAreFinal'
    OBVIOUS
  <1> USE RetriesAssumption DEF result, driver, browser
  <1>1. ASSUME Resolves PROVE ResultsAreFinal'
    BY <1>1 DEF Resolves, ResultsAreFinal, underTimer, Retries, Returns, Fails, retriesLeft, method_is_idempotent
  <1>2. ASSUME FailsEarly PROVE ResultsAreFinal'
    BY <1>2 DEF FailsEarly, ResultsAreFinal, underTimer, Retries, Returns, Fails, retriesLeft, method_is_idempotent
  <1>3. ASSUME SendsHttp PROVE ResultsAreFinal'
    BY <1>3 DEF SendsHttp, ResultsAreFinal, underTimer, Retries, Returns, Fails, retriesLeft, method_is_idempotent
  <1>4. ASSUME HttpAnswers PROVE ResultsAreFinal'
    BY <1>4 DEF HttpAnswers, ResultsAreFinal, underTimer, Retries, Returns, Fails, retriesLeft, method_is_idempotent
  <1>5. ASSUME HttpFails PROVE ResultsAreFinal'
    BY <1>5 DEF HttpFails, ResultsAreFinal, underTimer, Retries, Returns, Fails, retriesLeft, method_is_idempotent
  <1>6. ASSUME Escalates PROVE ResultsAreFinal'
    BY <1>6 DEF Escalates, ResultsAreFinal, underTimer, Retries, Returns, Fails, retriesLeft, method_is_idempotent
  <1>7. ASSUME Connects PROVE ResultsAreFinal'
    BY <1>7 DEF Connects, ResultsAreFinal, underTimer, Retries, Returns, Fails, retriesLeft, method_is_idempotent
  <1>8. ASSUME AsksForTab PROVE ResultsAreFinal'
    BY <1>8 DEF AsksForTab, ResultsAreFinal, underTimer, Retries, Returns, Fails, retriesLeft, method_is_idempotent
  <1>9. ASSUME TabOpens PROVE ResultsAreFinal'
    BY <1>9 DEF TabOpens, ResultsAreFinal, underTimer, Retries, Returns, Fails, retriesLeft, method_is_idempotent
  <1>10. ASSUME OpenFails PROVE ResultsAreFinal'
    BY <1>10 DEF OpenFails, ResultsAreFinal, underTimer, Retries, Returns, Fails, retriesLeft, method_is_idempotent
  <1>11. ASSUME AsksForSession PROVE ResultsAreFinal'
    BY <1>11 DEF AsksForSession, ResultsAreFinal, underTimer, Retries, Returns, Fails, retriesLeft, method_is_idempotent
  <1>12. ASSUME Attaches PROVE ResultsAreFinal'
    BY <1>12 DEF Attaches, ResultsAreFinal, underTimer, Retries, Returns, Fails, retriesLeft, method_is_idempotent
  <1>13. ASSUME AttachFails PROVE ResultsAreFinal'
    BY <1>13 DEF AttachFails, ResultsAreFinal, underTimer, Retries, Returns, Fails, retriesLeft, method_is_idempotent
  <1>14. ASSUME Prepares PROVE ResultsAreFinal'
    BY <1>14 DEF Prepares, ResultsAreFinal, underTimer, Retries, Returns, Fails, retriesLeft, method_is_idempotent
  <1>15. ASSUME Navigates PROVE ResultsAreFinal'
    BY <1>15 DEF Navigates, ResultsAreFinal, underTimer, Retries, Returns, Fails, retriesLeft, method_is_idempotent
  <1>16. ASSUME Navigated PROVE ResultsAreFinal'
    BY <1>16 DEF Navigated, ResultsAreFinal, underTimer, Retries, Returns, Fails, retriesLeft, method_is_idempotent
  <1>17. ASSUME PageReady PROVE ResultsAreFinal'
    BY <1>17 DEF PageReady, ResultsAreFinal, underTimer, Retries, Returns, Fails, retriesLeft, method_is_idempotent
  <1>18. ASSUME StageFails PROVE ResultsAreFinal'
    BY <1>18 DEF StageFails, ResultsAreFinal, underTimer, Retries, Returns, Fails, retriesLeft, method_is_idempotent
  <1>19. ASSUME Captures PROVE ResultsAreFinal'
    BY <1>19 DEF Captures, ResultsAreFinal, underTimer, Retries, Returns, Fails, retriesLeft, method_is_idempotent
  <1>20. ASSUME SendsClose PROVE ResultsAreFinal'
    BY <1>20 DEF SendsClose, ResultsAreFinal, underTimer, Retries, Returns, Fails, retriesLeft, method_is_idempotent
  <1>21. ASSUME TabCloses PROVE ResultsAreFinal'
    BY <1>21 DEF TabCloses, ResultsAreFinal, underTimer, Retries, Returns, Fails, retriesLeft, method_is_idempotent
  <1>22. ASSUME CloseFails PROVE ResultsAreFinal'
    BY <1>22 DEF CloseFails, ResultsAreFinal, underTimer, Retries, Returns, Fails, retriesLeft, method_is_idempotent
  <1>23. ASSUME DetachEnds PROVE ResultsAreFinal'
    BY <1>23 DEF DetachEnds, ResultsAreFinal, underTimer, Retries, Returns, Fails, retriesLeft, method_is_idempotent
  <1>24. ASSUME Tick PROVE ResultsAreFinal'
    BY <1>24 DEF Tick, ResultsAreFinal, underTimer, Retries, Returns, Fails, retriesLeft, method_is_idempotent
  <1>25. ASSUME CutShort PROVE ResultsAreFinal'
    BY <1>25 DEF CutShort, ResultsAreFinal, underTimer, Retries, Returns, Fails, retriesLeft, method_is_idempotent
  <1>26. ASSUME TriesAgain PROVE ResultsAreFinal'
    BY <1>26 DEF TriesAgain, ResultsAreFinal, underTimer, Retries, Returns, Fails, retriesLeft, method_is_idempotent
  <1>27. ASSUME NEW t \in Tabs, BrowserOpens(t) PROVE ResultsAreFinal'
    BY <1>27 DEF BrowserOpens, ResultsAreFinal, underTimer, Retries, Returns, Fails, retriesLeft, method_is_idempotent
  <1>28. ASSUME NEW t \in Tabs, BrowserEndsTab(t) PROVE ResultsAreFinal'
    BY <1>28 DEF BrowserEndsTab, ResultsAreFinal, underTimer, Retries, Returns, Fails, retriesLeft, method_is_idempotent
  <1>29. ASSUME NEW t \in Tabs, TabVanishes(t) PROVE ResultsAreFinal'
    BY <1>29 DEF TabVanishes, ResultsAreFinal, underTimer, Retries, Returns, Fails, retriesLeft, method_is_idempotent
  <1>30. ASSUME BrowserAttaches PROVE ResultsAreFinal'
    BY <1>30 DEF BrowserAttaches, ResultsAreFinal, underTimer, Retries, Returns, Fails, retriesLeft, method_is_idempotent
  <1>31. ASSUME BrowserDetaches PROVE ResultsAreFinal'
    BY <1>31 DEF BrowserDetaches, ResultsAreFinal, underTimer, Retries, Returns, Fails, retriesLeft, method_is_idempotent
  <1>32. ASSUME UNCHANGED fetchVars PROVE ResultsAreFinal'
    BY <1>32 DEF fetchVars, ResultsAreFinal, underTimer, Retries, Returns, Fails, retriesLeft, method_is_idempotent
  <1> QED
    BY <1>1, <1>2, <1>3, <1>4, <1>5, <1>6, <1>7, <1>8, <1>9, <1>10, <1>11, <1>12, <1>13, <1>14, <1>15, <1>16, <1>17, <1>18, <1>19, <1>20, <1>21, <1>22, <1>23, <1>24, <1>25, <1>26, <1>27, <1>28, <1>29, <1>30, <1>31, <1>32 DEF FetchNext, PipelineStep, BrowserRuns

\* What is closed at a place is closed for that place's reason.
LEMMA MeantStep == FetchTypeOK /\ ClosesAreMeant /\ [FetchNext]_fetchVars => ClosesAreMeant'
  <1> SUFFICES ASSUME FetchTypeOK, ClosesAreMeant, [FetchNext]_fetchVars PROVE ClosesAreMeant'
    OBVIOUS
  <1> USE RetriesAssumption DEF result, driver, browser
  <1>1. ASSUME Resolves PROVE ClosesAreMeant'
    BY <1>1 DEF Resolves, ClosesAreMeant, created_target, close_after_success, closesUnattached, FetchTypeOK, Retries, Returns, Fails, retriesLeft, method_is_idempotent
  <1>2. ASSUME FailsEarly PROVE ClosesAreMeant'
    BY <1>2 DEF FailsEarly, ClosesAreMeant, created_target, close_after_success, closesUnattached, FetchTypeOK, Retries, Returns, Fails, retriesLeft, method_is_idempotent
  <1>3. ASSUME SendsHttp PROVE ClosesAreMeant'
    BY <1>3 DEF SendsHttp, ClosesAreMeant, created_target, close_after_success, closesUnattached, FetchTypeOK, Retries, Returns, Fails, retriesLeft, method_is_idempotent
  <1>4. ASSUME HttpAnswers PROVE ClosesAreMeant'
    BY <1>4 DEF HttpAnswers, ClosesAreMeant, created_target, close_after_success, closesUnattached, FetchTypeOK, Retries, Returns, Fails, retriesLeft, method_is_idempotent
  <1>5. ASSUME HttpFails PROVE ClosesAreMeant'
    BY <1>5 DEF HttpFails, ClosesAreMeant, created_target, close_after_success, closesUnattached, FetchTypeOK, Retries, Returns, Fails, retriesLeft, method_is_idempotent
  <1>6. ASSUME Escalates PROVE ClosesAreMeant'
    BY <1>6 DEF Escalates, ClosesAreMeant, created_target, close_after_success, closesUnattached, FetchTypeOK, Retries, Returns, Fails, retriesLeft, method_is_idempotent
  <1>7. ASSUME Connects PROVE ClosesAreMeant'
    BY <1>7 DEF Connects, ClosesAreMeant, created_target, close_after_success, closesUnattached, FetchTypeOK, Retries, Returns, Fails, retriesLeft, method_is_idempotent
  <1>8. ASSUME AsksForTab PROVE ClosesAreMeant'
    BY <1>8 DEF AsksForTab, ClosesAreMeant, created_target, close_after_success, closesUnattached, FetchTypeOK, Retries, Returns, Fails, retriesLeft, method_is_idempotent
  <1>9. ASSUME TabOpens PROVE ClosesAreMeant'
    BY <1>9 DEF TabOpens, ClosesAreMeant, created_target, close_after_success, closesUnattached, FetchTypeOK, Retries, Returns, Fails, retriesLeft, method_is_idempotent
  <1>10. ASSUME OpenFails PROVE ClosesAreMeant'
    BY <1>10 DEF OpenFails, ClosesAreMeant, created_target, close_after_success, closesUnattached, FetchTypeOK, Retries, Returns, Fails, retriesLeft, method_is_idempotent
  <1>11. ASSUME AsksForSession PROVE ClosesAreMeant'
    BY <1>11 DEF AsksForSession, ClosesAreMeant, created_target, close_after_success, closesUnattached, FetchTypeOK, Retries, Returns, Fails, retriesLeft, method_is_idempotent
  <1>12. ASSUME Attaches PROVE ClosesAreMeant'
    BY <1>12 DEF Attaches, ClosesAreMeant, created_target, close_after_success, closesUnattached, FetchTypeOK, Retries, Returns, Fails, retriesLeft, method_is_idempotent
  <1>13. ASSUME AttachFails PROVE ClosesAreMeant'
    BY <1>13 DEF AttachFails, ClosesAreMeant, created_target, close_after_success, closesUnattached, FetchTypeOK, Retries, Returns, Fails, retriesLeft, method_is_idempotent
  <1>14. ASSUME Prepares PROVE ClosesAreMeant'
    BY <1>14 DEF Prepares, ClosesAreMeant, created_target, close_after_success, closesUnattached, FetchTypeOK, Retries, Returns, Fails, retriesLeft, method_is_idempotent
  <1>15. ASSUME Navigates PROVE ClosesAreMeant'
    BY <1>15 DEF Navigates, ClosesAreMeant, created_target, close_after_success, closesUnattached, FetchTypeOK, Retries, Returns, Fails, retriesLeft, method_is_idempotent
  <1>16. ASSUME Navigated PROVE ClosesAreMeant'
    BY <1>16 DEF Navigated, ClosesAreMeant, created_target, close_after_success, closesUnattached, FetchTypeOK, Retries, Returns, Fails, retriesLeft, method_is_idempotent
  <1>17. ASSUME PageReady PROVE ClosesAreMeant'
    BY <1>17 DEF PageReady, ClosesAreMeant, created_target, close_after_success, closesUnattached, FetchTypeOK, Retries, Returns, Fails, retriesLeft, method_is_idempotent
  <1>18. ASSUME StageFails PROVE ClosesAreMeant'
    BY <1>18 DEF StageFails, ClosesAreMeant, created_target, close_after_success, closesUnattached, FetchTypeOK, Retries, Returns, Fails, retriesLeft, method_is_idempotent
  <1>19. ASSUME Captures PROVE ClosesAreMeant'
    BY <1>19 DEF Captures, ClosesAreMeant, created_target, close_after_success, closesUnattached, FetchTypeOK, Retries, Returns, Fails, retriesLeft, method_is_idempotent
  <1>20. ASSUME SendsClose PROVE ClosesAreMeant'
    BY <1>20 DEF SendsClose, ClosesAreMeant, created_target, close_after_success, closesUnattached, FetchTypeOK, Retries, Returns, Fails, retriesLeft, method_is_idempotent
  <1>21. ASSUME TabCloses PROVE ClosesAreMeant'
    BY <1>21 DEF TabCloses, ClosesAreMeant, created_target, close_after_success, closesUnattached, FetchTypeOK, Retries, Returns, Fails, retriesLeft, method_is_idempotent
  <1>22. ASSUME CloseFails PROVE ClosesAreMeant'
    BY <1>22 DEF CloseFails, ClosesAreMeant, created_target, close_after_success, closesUnattached, FetchTypeOK, Retries, Returns, Fails, retriesLeft, method_is_idempotent
  <1>23. ASSUME DetachEnds PROVE ClosesAreMeant'
    BY <1>23 DEF DetachEnds, ClosesAreMeant, created_target, close_after_success, closesUnattached, FetchTypeOK, Retries, Returns, Fails, retriesLeft, method_is_idempotent
  <1>24. ASSUME Tick PROVE ClosesAreMeant'
    BY <1>24 DEF Tick, ClosesAreMeant, created_target, close_after_success, closesUnattached, FetchTypeOK, Retries, Returns, Fails, retriesLeft, method_is_idempotent
  <1>25. ASSUME CutShort PROVE ClosesAreMeant'
    BY <1>25 DEF CutShort, ClosesAreMeant, created_target, close_after_success, closesUnattached, FetchTypeOK, Retries, Returns, Fails, retriesLeft, method_is_idempotent
  <1>26. ASSUME TriesAgain PROVE ClosesAreMeant'
    BY <1>26 DEF TriesAgain, ClosesAreMeant, created_target, close_after_success, closesUnattached, FetchTypeOK, Retries, Returns, Fails, retriesLeft, method_is_idempotent
  <1>27. ASSUME NEW t \in Tabs, BrowserOpens(t) PROVE ClosesAreMeant'
    BY <1>27 DEF BrowserOpens, ClosesAreMeant, created_target, close_after_success, closesUnattached, FetchTypeOK, Retries, Returns, Fails, retriesLeft, method_is_idempotent
  <1>28. ASSUME NEW t \in Tabs, BrowserEndsTab(t) PROVE ClosesAreMeant'
    BY <1>28 DEF BrowserEndsTab, ClosesAreMeant, created_target, close_after_success, closesUnattached, FetchTypeOK, Retries, Returns, Fails, retriesLeft, method_is_idempotent
  <1>29. ASSUME NEW t \in Tabs, TabVanishes(t) PROVE ClosesAreMeant'
    BY <1>29 DEF TabVanishes, ClosesAreMeant, created_target, close_after_success, closesUnattached, FetchTypeOK, Retries, Returns, Fails, retriesLeft, method_is_idempotent
  <1>30. ASSUME BrowserAttaches PROVE ClosesAreMeant'
    BY <1>30 DEF BrowserAttaches, ClosesAreMeant, created_target, close_after_success, closesUnattached, FetchTypeOK, Retries, Returns, Fails, retriesLeft, method_is_idempotent
  <1>31. ASSUME BrowserDetaches PROVE ClosesAreMeant'
    BY <1>31 DEF BrowserDetaches, ClosesAreMeant, created_target, close_after_success, closesUnattached, FetchTypeOK, Retries, Returns, Fails, retriesLeft, method_is_idempotent
  <1>32. ASSUME UNCHANGED fetchVars PROVE ClosesAreMeant'
    BY <1>32 DEF fetchVars, ClosesAreMeant, created_target, close_after_success, closesUnattached, FetchTypeOK, Retries, Returns, Fails, retriesLeft, method_is_idempotent
  <1> QED
    BY <1>1, <1>2, <1>3, <1>4, <1>5, <1>6, <1>7, <1>8, <1>9, <1>10, <1>11, <1>12, <1>13, <1>14, <1>15, <1>16, <1>17, <1>18, <1>19, <1>20, <1>21, <1>22, <1>23, <1>24, <1>25, <1>26, <1>27, <1>28, <1>29, <1>30, <1>31, <1>32 DEF FetchNext, PipelineStep, BrowserRuns

\* An attempt sends at most twice, once on each path.
LEMMA SentStep == FetchTypeOK /\ SentSoFar /\ [FetchNext]_fetchVars => SentSoFar'
  <1> SUFFICES ASSUME FetchTypeOK, SentSoFar, [FetchNext]_fetchVars PROVE SentSoFar'
    OBVIOUS
  <1> USE RetriesAssumption DEF result, driver, browser
  <1>1. ASSUME Resolves PROVE SentSoFar'
    BY <1>1 DEF Resolves, SentSoFar, FetchTypeOK, Retries, Returns, Fails, retriesLeft, method_is_idempotent
  <1>2. ASSUME FailsEarly PROVE SentSoFar'
    BY <1>2 DEF FailsEarly, SentSoFar, FetchTypeOK, Retries, Returns, Fails, retriesLeft, method_is_idempotent
  <1>3. ASSUME SendsHttp PROVE SentSoFar'
    BY <1>3 DEF SendsHttp, SentSoFar, FetchTypeOK, Retries, Returns, Fails, retriesLeft, method_is_idempotent
  <1>4. ASSUME HttpAnswers PROVE SentSoFar'
    BY <1>4 DEF HttpAnswers, SentSoFar, FetchTypeOK, Retries, Returns, Fails, retriesLeft, method_is_idempotent
  <1>5. ASSUME HttpFails PROVE SentSoFar'
    BY <1>5 DEF HttpFails, SentSoFar, FetchTypeOK, Retries, Returns, Fails, retriesLeft, method_is_idempotent
  <1>6. ASSUME Escalates PROVE SentSoFar'
    BY <1>6 DEF Escalates, SentSoFar, FetchTypeOK, Retries, Returns, Fails, retriesLeft, method_is_idempotent
  <1>7. ASSUME Connects PROVE SentSoFar'
    BY <1>7 DEF Connects, SentSoFar, FetchTypeOK, Retries, Returns, Fails, retriesLeft, method_is_idempotent
  <1>8. ASSUME AsksForTab PROVE SentSoFar'
    BY <1>8 DEF AsksForTab, SentSoFar, FetchTypeOK, Retries, Returns, Fails, retriesLeft, method_is_idempotent
  <1>9. ASSUME TabOpens PROVE SentSoFar'
    BY <1>9 DEF TabOpens, SentSoFar, FetchTypeOK, Retries, Returns, Fails, retriesLeft, method_is_idempotent
  <1>10. ASSUME OpenFails PROVE SentSoFar'
    BY <1>10 DEF OpenFails, SentSoFar, FetchTypeOK, Retries, Returns, Fails, retriesLeft, method_is_idempotent
  <1>11. ASSUME AsksForSession PROVE SentSoFar'
    BY <1>11 DEF AsksForSession, SentSoFar, FetchTypeOK, Retries, Returns, Fails, retriesLeft, method_is_idempotent
  <1>12. ASSUME Attaches PROVE SentSoFar'
    BY <1>12 DEF Attaches, SentSoFar, FetchTypeOK, Retries, Returns, Fails, retriesLeft, method_is_idempotent
  <1>13. ASSUME AttachFails PROVE SentSoFar'
    BY <1>13 DEF AttachFails, SentSoFar, FetchTypeOK, Retries, Returns, Fails, retriesLeft, method_is_idempotent
  <1>14. ASSUME Prepares PROVE SentSoFar'
    BY <1>14 DEF Prepares, SentSoFar, FetchTypeOK, Retries, Returns, Fails, retriesLeft, method_is_idempotent
  <1>15. ASSUME Navigates PROVE SentSoFar'
    BY <1>15 DEF Navigates, SentSoFar, FetchTypeOK, Retries, Returns, Fails, retriesLeft, method_is_idempotent
  <1>16. ASSUME Navigated PROVE SentSoFar'
    BY <1>16 DEF Navigated, SentSoFar, FetchTypeOK, Retries, Returns, Fails, retriesLeft, method_is_idempotent
  <1>17. ASSUME PageReady PROVE SentSoFar'
    BY <1>17 DEF PageReady, SentSoFar, FetchTypeOK, Retries, Returns, Fails, retriesLeft, method_is_idempotent
  <1>18. ASSUME StageFails PROVE SentSoFar'
    BY <1>18 DEF StageFails, SentSoFar, FetchTypeOK, Retries, Returns, Fails, retriesLeft, method_is_idempotent
  <1>19. ASSUME Captures PROVE SentSoFar'
    BY <1>19 DEF Captures, SentSoFar, FetchTypeOK, Retries, Returns, Fails, retriesLeft, method_is_idempotent
  <1>20. ASSUME SendsClose PROVE SentSoFar'
    BY <1>20 DEF SendsClose, SentSoFar, FetchTypeOK, Retries, Returns, Fails, retriesLeft, method_is_idempotent
  <1>21. ASSUME TabCloses PROVE SentSoFar'
    BY <1>21 DEF TabCloses, SentSoFar, FetchTypeOK, Retries, Returns, Fails, retriesLeft, method_is_idempotent
  <1>22. ASSUME CloseFails PROVE SentSoFar'
    BY <1>22 DEF CloseFails, SentSoFar, FetchTypeOK, Retries, Returns, Fails, retriesLeft, method_is_idempotent
  <1>23. ASSUME DetachEnds PROVE SentSoFar'
    BY <1>23 DEF DetachEnds, SentSoFar, FetchTypeOK, Retries, Returns, Fails, retriesLeft, method_is_idempotent
  <1>24. ASSUME Tick PROVE SentSoFar'
    BY <1>24 DEF Tick, SentSoFar, FetchTypeOK, Retries, Returns, Fails, retriesLeft, method_is_idempotent
  <1>25. ASSUME CutShort PROVE SentSoFar'
    BY <1>25 DEF CutShort, SentSoFar, FetchTypeOK, Retries, Returns, Fails, retriesLeft, method_is_idempotent
  <1>26. ASSUME TriesAgain PROVE SentSoFar'
    BY <1>26 DEF TriesAgain, SentSoFar, FetchTypeOK, Retries, Returns, Fails, retriesLeft, method_is_idempotent
  <1>27. ASSUME NEW t \in Tabs, BrowserOpens(t) PROVE SentSoFar'
    BY <1>27 DEF BrowserOpens, SentSoFar, FetchTypeOK, Retries, Returns, Fails, retriesLeft, method_is_idempotent
  <1>28. ASSUME NEW t \in Tabs, BrowserEndsTab(t) PROVE SentSoFar'
    BY <1>28 DEF BrowserEndsTab, SentSoFar, FetchTypeOK, Retries, Returns, Fails, retriesLeft, method_is_idempotent
  <1>29. ASSUME NEW t \in Tabs, TabVanishes(t) PROVE SentSoFar'
    BY <1>29 DEF TabVanishes, SentSoFar, FetchTypeOK, Retries, Returns, Fails, retriesLeft, method_is_idempotent
  <1>30. ASSUME BrowserAttaches PROVE SentSoFar'
    BY <1>30 DEF BrowserAttaches, SentSoFar, FetchTypeOK, Retries, Returns, Fails, retriesLeft, method_is_idempotent
  <1>31. ASSUME BrowserDetaches PROVE SentSoFar'
    BY <1>31 DEF BrowserDetaches, SentSoFar, FetchTypeOK, Retries, Returns, Fails, retriesLeft, method_is_idempotent
  <1>32. ASSUME UNCHANGED fetchVars PROVE SentSoFar'
    BY <1>32 DEF fetchVars, SentSoFar, FetchTypeOK, Retries, Returns, Fails, retriesLeft, method_is_idempotent
  <1> QED
    BY <1>1, <1>2, <1>3, <1>4, <1>5, <1>6, <1>7, <1>8, <1>9, <1>10, <1>11, <1>12, <1>13, <1>14, <1>15, <1>16, <1>17, <1>18, <1>19, <1>20, <1>21, <1>22, <1>23, <1>24, <1>25, <1>26, <1>27, <1>28, <1>29, <1>30, <1>31, <1>32 DEF FetchNext, PipelineStep, BrowserRuns

\* Where a session must be and what has become of it.
LEMMA SessionsStep == FetchTypeOK /\ SessionsFollow /\ [FetchNext]_fetchVars => SessionsFollow'
  <1> SUFFICES ASSUME FetchTypeOK, SessionsFollow, [FetchNext]_fetchVars PROVE SessionsFollow'
    OBVIOUS
  <1> USE RetriesAssumption DEF result, driver, browser
  <1>1. ASSUME Resolves PROVE SessionsFollow'
    BY <1>1 DEF Resolves, SessionsFollow, FetchTypeOK, detached, Retries, Returns, Fails, retriesLeft, method_is_idempotent
  <1>2. ASSUME FailsEarly PROVE SessionsFollow'
    BY <1>2 DEF FailsEarly, SessionsFollow, FetchTypeOK, detached, Retries, Returns, Fails, retriesLeft, method_is_idempotent
  <1>3. ASSUME SendsHttp PROVE SessionsFollow'
    BY <1>3 DEF SendsHttp, SessionsFollow, FetchTypeOK, detached, Retries, Returns, Fails, retriesLeft, method_is_idempotent
  <1>4. ASSUME HttpAnswers PROVE SessionsFollow'
    BY <1>4 DEF HttpAnswers, SessionsFollow, FetchTypeOK, detached, Retries, Returns, Fails, retriesLeft, method_is_idempotent
  <1>5. ASSUME HttpFails PROVE SessionsFollow'
    BY <1>5 DEF HttpFails, SessionsFollow, FetchTypeOK, detached, Retries, Returns, Fails, retriesLeft, method_is_idempotent
  <1>6. ASSUME Escalates PROVE SessionsFollow'
    BY <1>6 DEF Escalates, SessionsFollow, FetchTypeOK, detached, Retries, Returns, Fails, retriesLeft, method_is_idempotent
  <1>7. ASSUME Connects PROVE SessionsFollow'
    BY <1>7 DEF Connects, SessionsFollow, FetchTypeOK, detached, Retries, Returns, Fails, retriesLeft, method_is_idempotent
  <1>8. ASSUME AsksForTab PROVE SessionsFollow'
    BY <1>8 DEF AsksForTab, SessionsFollow, FetchTypeOK, detached, Retries, Returns, Fails, retriesLeft, method_is_idempotent
  <1>9. ASSUME TabOpens PROVE SessionsFollow'
    BY <1>9 DEF TabOpens, SessionsFollow, FetchTypeOK, detached, Retries, Returns, Fails, retriesLeft, method_is_idempotent
  <1>10. ASSUME OpenFails PROVE SessionsFollow'
    BY <1>10 DEF OpenFails, SessionsFollow, FetchTypeOK, detached, Retries, Returns, Fails, retriesLeft, method_is_idempotent
  <1>11. ASSUME AsksForSession PROVE SessionsFollow'
    BY <1>11 DEF AsksForSession, SessionsFollow, FetchTypeOK, detached, Retries, Returns, Fails, retriesLeft, method_is_idempotent
  <1>12. ASSUME Attaches PROVE SessionsFollow'
    BY <1>12 DEF Attaches, SessionsFollow, FetchTypeOK, detached, Retries, Returns, Fails, retriesLeft, method_is_idempotent
  <1>13. ASSUME AttachFails PROVE SessionsFollow'
    BY <1>13 DEF AttachFails, SessionsFollow, FetchTypeOK, detached, Retries, Returns, Fails, retriesLeft, method_is_idempotent
  <1>14. ASSUME Prepares PROVE SessionsFollow'
    BY <1>14 DEF Prepares, SessionsFollow, FetchTypeOK, detached, Retries, Returns, Fails, retriesLeft, method_is_idempotent
  <1>15. ASSUME Navigates PROVE SessionsFollow'
    BY <1>15 DEF Navigates, SessionsFollow, FetchTypeOK, detached, Retries, Returns, Fails, retriesLeft, method_is_idempotent
  <1>16. ASSUME Navigated PROVE SessionsFollow'
    BY <1>16 DEF Navigated, SessionsFollow, FetchTypeOK, detached, Retries, Returns, Fails, retriesLeft, method_is_idempotent
  <1>17. ASSUME PageReady PROVE SessionsFollow'
    BY <1>17 DEF PageReady, SessionsFollow, FetchTypeOK, detached, Retries, Returns, Fails, retriesLeft, method_is_idempotent
  <1>18. ASSUME StageFails PROVE SessionsFollow'
    BY <1>18 DEF StageFails, SessionsFollow, FetchTypeOK, detached, Retries, Returns, Fails, retriesLeft, method_is_idempotent
  <1>19. ASSUME Captures PROVE SessionsFollow'
    BY <1>19 DEF Captures, SessionsFollow, FetchTypeOK, detached, Retries, Returns, Fails, retriesLeft, method_is_idempotent
  <1>20. ASSUME SendsClose PROVE SessionsFollow'
    BY <1>20 DEF SendsClose, SessionsFollow, FetchTypeOK, detached, Retries, Returns, Fails, retriesLeft, method_is_idempotent
  <1>21. ASSUME TabCloses PROVE SessionsFollow'
    BY <1>21 DEF TabCloses, SessionsFollow, FetchTypeOK, detached, Retries, Returns, Fails, retriesLeft, method_is_idempotent
  <1>22. ASSUME CloseFails PROVE SessionsFollow'
    BY <1>22 DEF CloseFails, SessionsFollow, FetchTypeOK, detached, Retries, Returns, Fails, retriesLeft, method_is_idempotent
  <1>23. ASSUME DetachEnds PROVE SessionsFollow'
    BY <1>23 DEF DetachEnds, SessionsFollow, FetchTypeOK, detached, Retries, Returns, Fails, retriesLeft, method_is_idempotent
  <1>24. ASSUME Tick PROVE SessionsFollow'
    BY <1>24 DEF Tick, SessionsFollow, FetchTypeOK, detached, Retries, Returns, Fails, retriesLeft, method_is_idempotent
  <1>25. ASSUME CutShort PROVE SessionsFollow'
    BY <1>25 DEF CutShort, SessionsFollow, FetchTypeOK, detached, Retries, Returns, Fails, retriesLeft, method_is_idempotent
  <1>26. ASSUME TriesAgain PROVE SessionsFollow'
    BY <1>26 DEF TriesAgain, SessionsFollow, FetchTypeOK, detached, Retries, Returns, Fails, retriesLeft, method_is_idempotent
  <1>27. ASSUME NEW t \in Tabs, BrowserOpens(t) PROVE SessionsFollow'
    BY <1>27 DEF BrowserOpens, SessionsFollow, FetchTypeOK, detached, Retries, Returns, Fails, retriesLeft, method_is_idempotent
  <1>28. ASSUME NEW t \in Tabs, BrowserEndsTab(t) PROVE SessionsFollow'
    BY <1>28 DEF BrowserEndsTab, SessionsFollow, FetchTypeOK, detached, Retries, Returns, Fails, retriesLeft, method_is_idempotent
  <1>29. ASSUME NEW t \in Tabs, TabVanishes(t) PROVE SessionsFollow'
    BY <1>29 DEF TabVanishes, SessionsFollow, FetchTypeOK, detached, Retries, Returns, Fails, retriesLeft, method_is_idempotent
  <1>30. ASSUME BrowserAttaches PROVE SessionsFollow'
    BY <1>30 DEF BrowserAttaches, SessionsFollow, FetchTypeOK, detached, Retries, Returns, Fails, retriesLeft, method_is_idempotent
  <1>31. ASSUME BrowserDetaches PROVE SessionsFollow'
    BY <1>31 DEF BrowserDetaches, SessionsFollow, FetchTypeOK, detached, Retries, Returns, Fails, retriesLeft, method_is_idempotent
  <1>32. ASSUME UNCHANGED fetchVars PROVE SessionsFollow'
    BY <1>32 DEF fetchVars, SessionsFollow, FetchTypeOK, detached, Retries, Returns, Fails, retriesLeft, method_is_idempotent
  <1> QED
    BY <1>1, <1>2, <1>3, <1>4, <1>5, <1>6, <1>7, <1>8, <1>9, <1>10, <1>11, <1>12, <1>13, <1>14, <1>15, <1>16, <1>17, <1>18, <1>19, <1>20, <1>21, <1>22, <1>23, <1>24, <1>25, <1>26, <1>27, <1>28, <1>29, <1>30, <1>31, <1>32 DEF FetchNext, PipelineStep, BrowserRuns

\* The type invariant is preserved; what was sent stays within two per attempt.
LEMMA FetchTypeStep == FetchTypeOK /\ SentSoFar /\ AttemptsLeft /\ OpensIfNoneGiven /\ [FetchNext]_fetchVars => FetchTypeOK'
  <1> SUFFICES ASSUME FetchTypeOK, SentSoFar, AttemptsLeft, OpensIfNoneGiven, [FetchNext]_fetchVars PROVE FetchTypeOK'
    OBVIOUS
  <1> USE RetriesAssumption DEF result, driver, browser
  <1>1. ASSUME Resolves PROVE FetchTypeOK'
    BY <1>1 DEF Resolves, FetchTypeOK, SentSoFar, AttemptsLeft, detached, Retries, Returns, Fails, retriesLeft, method_is_idempotent
  <1>2. ASSUME FailsEarly PROVE FetchTypeOK'
    BY <1>2 DEF FailsEarly, FetchTypeOK, SentSoFar, AttemptsLeft, detached, Retries, Returns, Fails, retriesLeft, method_is_idempotent
  <1>3. ASSUME SendsHttp PROVE FetchTypeOK'
    BY <1>3 DEF SendsHttp, FetchTypeOK, SentSoFar, AttemptsLeft, detached, Retries, Returns, Fails, retriesLeft, method_is_idempotent
  <1>4. ASSUME HttpAnswers PROVE FetchTypeOK'
    BY <1>4 DEF HttpAnswers, FetchTypeOK, SentSoFar, AttemptsLeft, detached, Retries, Returns, Fails, retriesLeft, method_is_idempotent
  <1>5. ASSUME HttpFails PROVE FetchTypeOK'
    BY <1>5 DEF HttpFails, FetchTypeOK, SentSoFar, AttemptsLeft, detached, Retries, Returns, Fails, retriesLeft, method_is_idempotent
  <1>6. ASSUME Escalates PROVE FetchTypeOK'
    BY <1>6 DEF Escalates, FetchTypeOK, SentSoFar, AttemptsLeft, detached, Retries, Returns, Fails, retriesLeft, method_is_idempotent
  <1>7. ASSUME Connects PROVE FetchTypeOK'
    BY <1>7 DEF Connects, FetchTypeOK, SentSoFar, AttemptsLeft, detached, Retries, Returns, Fails, retriesLeft, method_is_idempotent
  <1>8. ASSUME AsksForTab PROVE FetchTypeOK'
    BY <1>8 DEF AsksForTab, FetchTypeOK, SentSoFar, AttemptsLeft, detached, Retries, Returns, Fails, retriesLeft, method_is_idempotent
  <1>9. ASSUME TabOpens PROVE FetchTypeOK'
    BY <1>9, AttemptsAndTabs DEF TabOpens, OpensIfNoneGiven, FetchTypeOK
  <1>10. ASSUME OpenFails PROVE FetchTypeOK'
    BY <1>10 DEF OpenFails, FetchTypeOK, SentSoFar, AttemptsLeft, detached, Retries, Returns, Fails, retriesLeft, method_is_idempotent
  <1>11. ASSUME AsksForSession PROVE FetchTypeOK'
    BY <1>11 DEF AsksForSession, FetchTypeOK, SentSoFar, AttemptsLeft, detached, Retries, Returns, Fails, retriesLeft, method_is_idempotent
  <1>12. ASSUME Attaches PROVE FetchTypeOK'
    BY <1>12, AttemptsAndTabs DEF Attaches, FetchTypeOK, SentSoFar, AttemptsLeft, detached, Retries, Returns, Fails, retriesLeft, method_is_idempotent
  <1>13. ASSUME AttachFails PROVE FetchTypeOK'
    BY <1>13, AttemptsAndTabs DEF AttachFails, FetchTypeOK, created_target, detached, retained, Retries, Returns, Fails, retriesLeft, method_is_idempotent
  <1>14. ASSUME Prepares PROVE FetchTypeOK'
    BY <1>14 DEF Prepares, FetchTypeOK, SentSoFar, AttemptsLeft, detached, Retries, Returns, Fails, retriesLeft, method_is_idempotent
  <1>15. ASSUME Navigates PROVE FetchTypeOK'
    BY <1>15 DEF Navigates, FetchTypeOK, SentSoFar, AttemptsLeft, detached, Retries, Returns, Fails, retriesLeft, method_is_idempotent
  <1>16. ASSUME Navigated PROVE FetchTypeOK'
    BY <1>16 DEF Navigated, FetchTypeOK, SentSoFar, AttemptsLeft, detached, Retries, Returns, Fails, retriesLeft, method_is_idempotent
  <1>17. ASSUME PageReady PROVE FetchTypeOK'
    BY <1>17 DEF PageReady, FetchTypeOK, SentSoFar, AttemptsLeft, detached, Retries, Returns, Fails, retriesLeft, method_is_idempotent
  <1>18. ASSUME StageFails PROVE FetchTypeOK'
    BY <1>18 DEF StageFails, FetchTypeOK, SentSoFar, AttemptsLeft, detached, Retries, Returns, Fails, retriesLeft, method_is_idempotent
  <1>19. ASSUME Captures PROVE FetchTypeOK'
    BY <1>19 DEF Captures, FetchTypeOK, SentSoFar, AttemptsLeft, detached, Retries, Returns, Fails, retriesLeft, method_is_idempotent
  <1>20. ASSUME SendsClose PROVE FetchTypeOK'
    BY <1>20 DEF SendsClose, FetchTypeOK, SentSoFar, AttemptsLeft, detached, Retries, Returns, Fails, retriesLeft, method_is_idempotent
  <1>21. ASSUME TabCloses PROVE FetchTypeOK'
    BY <1>21 DEF TabCloses, FetchTypeOK, SentSoFar, AttemptsLeft, detached, Retries, Returns, Fails, retriesLeft, method_is_idempotent
  <1>22. ASSUME CloseFails PROVE FetchTypeOK'
    <2>1. told' \subseteq Tabs /\ reported' \subseteq Tabs /\ outcome' \in {"none", "ok", "failed"} /\ step' \in Places
      BY <1>22, AttemptsAndTabs DEF CloseFails, FetchTypeOK, retained, Retries, Returns, Fails
    <2>2. session' \in {"none", "asked", "attached", "leaving", "gone"}
      BY <1>22 DEF CloseFails, FetchTypeOK, detached
    <2> QED
      BY <1>22, <2>1, <2>2 DEF CloseFails, FetchTypeOK
  <1>23. ASSUME DetachEnds PROVE FetchTypeOK'
    <2>1. told' \subseteq Tabs /\ reported' \subseteq Tabs /\ outcome' \in {"none", "ok", "failed"} /\ step' \in Places
      BY <1>23, AttemptsAndTabs DEF DetachEnds, FetchTypeOK, retained, Retries, Returns, Fails
    <2>2. session' \in {"none", "asked", "attached", "leaving", "gone"}
      BY <1>23 DEF DetachEnds, FetchTypeOK, detached
    <2> QED
      BY <1>23, <2>1, <2>2 DEF DetachEnds, FetchTypeOK
  <1>24. ASSUME Tick PROVE FetchTypeOK'
    BY <1>24 DEF Tick, FetchTypeOK, SentSoFar, AttemptsLeft, detached, Retries, Returns, Fails, retriesLeft, method_is_idempotent
  <1>25. ASSUME CutShort PROVE FetchTypeOK'
    BY <1>25 DEF CutShort, FetchTypeOK, SentSoFar, AttemptsLeft, detached, Retries, Returns, Fails, retriesLeft, method_is_idempotent
  <1>26. ASSUME TriesAgain PROVE FetchTypeOK'
    <2>1. attempt <= request.retries /\ sent \in 0 .. 2 * attempt /\ attempt \in Nat
      BY <1>26 DEF TriesAgain, FetchTypeOK, AttemptsLeft
    <2>2. attempt' = attempt + 1 /\ sent' = sent /\ request' = request
      BY <1>26 DEF TriesAgain
    <2>3. attempt' \in 1 .. request'.retries + 1 /\ sent' \in 0 .. 2 * attempt'
      BY <2>1, <2>2, AttemptsAndTabs
    <2> QED
      BY <1>26, <2>3 DEF TriesAgain, FetchTypeOK
  <1>27. ASSUME NEW t \in Tabs, BrowserOpens(t) PROVE FetchTypeOK'
    BY <1>27 DEF BrowserOpens, FetchTypeOK, SentSoFar, AttemptsLeft, detached, Retries, Returns, Fails, retriesLeft, method_is_idempotent
  <1>28. ASSUME NEW t \in Tabs, BrowserEndsTab(t) PROVE FetchTypeOK'
    BY <1>28 DEF BrowserEndsTab, FetchTypeOK, SentSoFar, AttemptsLeft, detached, Retries, Returns, Fails, retriesLeft, method_is_idempotent
  <1>29. ASSUME NEW t \in Tabs, TabVanishes(t) PROVE FetchTypeOK'
    BY <1>29 DEF TabVanishes, FetchTypeOK, SentSoFar, AttemptsLeft, detached, Retries, Returns, Fails, retriesLeft, method_is_idempotent
  <1>30. ASSUME BrowserAttaches PROVE FetchTypeOK'
    BY <1>30 DEF BrowserAttaches, FetchTypeOK, SentSoFar, AttemptsLeft, detached, Retries, Returns, Fails, retriesLeft, method_is_idempotent
  <1>31. ASSUME BrowserDetaches PROVE FetchTypeOK'
    BY <1>31 DEF BrowserDetaches, FetchTypeOK, SentSoFar, AttemptsLeft, detached, Retries, Returns, Fails, retriesLeft, method_is_idempotent
  <1>32. ASSUME UNCHANGED fetchVars PROVE FetchTypeOK'
    BY <1>32 DEF fetchVars, FetchTypeOK, SentSoFar, AttemptsLeft, detached, Retries, Returns, Fails, retriesLeft, method_is_idempotent
  <1> QED
    BY <1>1, <1>2, <1>3, <1>4, <1>5, <1>6, <1>7, <1>8, <1>9, <1>10, <1>11, <1>12, <1>13, <1>14, <1>15, <1>16, <1>17, <1>18, <1>19, <1>20, <1>21, <1>22, <1>23, <1>24, <1>25, <1>26, <1>27, <1>28, <1>29, <1>30, <1>31, <1>32 DEF FetchNext, PipelineStep, BrowserRuns

\* Attempts and what they owe only go forward together.
LEMMA OwedStep == FetchTypeOK /\ OwedSoFar /\ [FetchNext]_fetchVars => OwedSoFar'
  <1> SUFFICES ASSUME FetchTypeOK, OwedSoFar, [FetchNext]_fetchVars PROVE OwedSoFar'
    OBVIOUS
  <1>0. attempt \in Nat /\ owed \subseteq Tabs /\ Tabs \subseteq Nat
    BY AttemptsAndTabs DEF FetchTypeOK
  <1>1. ASSUME Attaches PROVE OwedSoFar'
    BY <1>1 DEF Attaches, OwedSoFar, FetchTypeOK
  <1>2. ASSUME CutShort PROVE OwedSoFar'
    BY <1>2 DEF CutShort, OwedSoFar
  <1>3. ASSUME TriesAgain PROVE OwedSoFar'
    <2>1. \A t \in owed : t # Given => t < attempt + 1
      BY <1>0 DEF OwedSoFar
    <2>2. attempt' = attempt + 1 /\ owed' = owed
      BY <1>3 DEF TriesAgain
    <2>3. \A t \in owed' : t # Given => t < attempt'
      BY <2>1, <2>2
    <2> QED
      BY <2>3 DEF OwedSoFar
  <1>4. ASSUME UNCHANGED <<attempt, attached, owed>> PROVE OwedSoFar'
    BY <1>4 DEF OwedSoFar
  <1>5. \/ Attaches \/ CutShort \/ TriesAgain
        \/ UNCHANGED <<attempt, attached, owed>>
    BY DEF FetchNext, PipelineStep, BrowserRuns, fetchVars, driver,
       Resolves, FailsEarly, SendsHttp, HttpAnswers, HttpFails, Escalates, Connects,
       AsksForTab, TabOpens, OpenFails, AsksForSession, Attaches, AttachFails,
       Prepares, Navigates, Navigated, PageReady, StageFails, Captures, SendsClose,
       TabCloses, CloseFails, DetachEnds, Tick, CutShort, TriesAgain, BrowserOpens,
       BrowserEndsTab, TabVanishes, BrowserAttaches, BrowserDetaches
  <1> QED
    BY <1>1, <1>2, <1>3, <1>4, <1>5

\* A tab once closed stays so.
LEMMA ClosedStays ==
  FetchTypeOK /\ SessionsFollow /\ OpensIfNoneGiven /\ OwedSoFar /\ [FetchNext]_fetchVars
    => \A t \in owed : tabs[t] = "closed" => tabs'[t] = "closed"
  <1> SUFFICES ASSUME FetchTypeOK, SessionsFollow, OpensIfNoneGiven, OwedSoFar, [FetchNext]_fetchVars,
                      NEW t \in owed, tabs[t] = "closed"
               PROVE  tabs'[t] = "closed"
    OBVIOUS
  <1>0. attempt \in Nat \ {0} /\ t \in Tabs
    BY AttemptsAndTabs DEF FetchTypeOK
  <1>1. ASSUME AsksForTab PROVE t # attempt
    BY <1>0, <1>1 DEF AsksForTab, SessionsFollow, OwedSoFar
  <1>2. ASSUME UNCHANGED tabs PROVE tabs'[t] = "closed"
    BY <1>2
  <1>3. ASSUME AsksForTab PROVE tabs'[t] = "closed"
    BY <1>0, <1>1, <1>3 DEF AsksForTab, FetchTypeOK
  <1>4. ASSUME SendsClose PROVE tabs'[t] = "closed"
    BY <1>0, <1>4 DEF SendsClose, FetchTypeOK
  <1>5. ASSUME NEW u \in Tabs, BrowserOpens(u) \/ BrowserEndsTab(u) \/ TabVanishes(u)
        PROVE  tabs'[t] = "closed"
    BY <1>0, <1>5 DEF BrowserOpens, BrowserEndsTab, TabVanishes, FetchTypeOK
  <1>6. \/ AsksForTab \/ SendsClose \/ UNCHANGED tabs
        \/ \E u \in Tabs : BrowserOpens(u) \/ BrowserEndsTab(u) \/ TabVanishes(u)
    BY DEF FetchNext, PipelineStep, BrowserRuns, fetchVars, browser,
       Resolves, FailsEarly, SendsHttp, HttpAnswers, HttpFails, Escalates, Connects,
       TabOpens, OpenFails, AsksForSession, Attaches, AttachFails, Prepares, Navigates,
       Navigated, PageReady, StageFails, Captures, TabCloses, CloseFails, DetachEnds,
       Tick, CutShort, TriesAgain, BrowserAttaches, BrowserDetaches
  <1> QED
    BY <1>2, <1>3, <1>4, <1>5, <1>6

\* An attempt that is on a tab ends by naming it, by its close or by being cut.
LEMMA EndsTell ==
  ASSUME FetchTypeOK, SessionsFollow, [FetchNext]_fetchVars, attached,
         step \notin Resting, step' \in Resting,
         NEW t \in mine \cap owed'
  PROVE  t \in reported' \/ tabs[t] = "closed"
  <1> USE DEF FetchTypeOK, SessionsFollow, Retries, Returns, Fails, retained
  <1>0. \A u \in mine : u = t
    OBVIOUS
  <1>1. CASE TabCloses
    BY <1>0, <1>1 DEF TabCloses
  <1>2. CASE CloseFails
    BY <1>2 DEF CloseFails
  <1>3. CASE DetachEnds
    BY <1>3 DEF DetachEnds
  <1>4. CASE CutShort
    BY <1>4 DEF CutShort
  <1>5. CASE AttachFails
    BY <1>5 DEF AttachFails
  <1>6. CASE OpenFails \/ FailsEarly \/ HttpAnswers \/ HttpFails
    BY <1>6 DEF OpenFails, FailsEarly, HttpAnswers, HttpFails
  <1>7. TabCloses \/ CloseFails \/ DetachEnds \/ CutShort \/ AttachFails \/ OpenFails
          \/ FailsEarly \/ HttpAnswers \/ HttpFails
    BY DEF FetchNext, PipelineStep, BrowserRuns, fetchVars,
       Resolves, SendsHttp, Escalates, Connects, AsksForTab, TabOpens, AsksForSession,
       Attaches, Prepares, Navigates, Navigated, PageReady, StageFails, Captures,
       SendsClose, Tick, TriesAgain, BrowserOpens, BrowserEndsTab, TabVanishes,
       BrowserAttaches, BrowserDetaches
  <1> QED
    BY <1>1, <1>2, <1>3, <1>4, <1>5, <1>6, <1>7

\* Nothing already reported is unsaid, and a tab becomes owed only by being got
\* onto; while an attempt is on a tab it keeps to it.
LEMMA AttemptsKeepTheirTab ==
  ASSUME FetchTypeOK, SessionsFollow, [FetchNext]_fetchVars
  PROVE  /\ reported \subseteq reported'
         /\ owed' \subseteq owed \/ (attached' /\ step' \notin Resting /\ mine' = mine
                                     /\ owed' = owed \cup mine)
         /\ attached /\ step \notin Resting => attached' /\ mine' = mine
         /\ step \in Resting => step' \in Resting \/ TriesAgain
  <1>1. CASE Connects \/ TabOpens
    BY <1>1 DEF Connects, TabOpens, result, SessionsFollow
  <1>2. CASE Attaches
    BY <1>2 DEF Attaches, result
  <1>3. CASE CutShort
    BY <1>3 DEF CutShort, Retries, Returns
  <1>4. CASE TriesAgain
    BY <1>4 DEF TriesAgain, result
  <1>5. CASE UNCHANGED <<mine, attached, owed>>
    <2>1. reported \subseteq reported'
      BY <1>5 DEF FetchNext, PipelineStep, BrowserRuns, fetchVars, result, Retries, Returns, Fails,
       Resolves, FailsEarly, SendsHttp, HttpAnswers, HttpFails, Escalates, Connects,
       AsksForTab, TabOpens, OpenFails, AsksForSession, Attaches, AttachFails,
       Prepares, Navigates, Navigated, PageReady, StageFails, Captures, SendsClose,
       TabCloses, CloseFails, DetachEnds, Tick, CutShort, TriesAgain, BrowserOpens,
       BrowserEndsTab, TabVanishes, BrowserAttaches, BrowserDetaches
    <2>2. step \in Resting => step' \in Resting \/ TriesAgain
      BY DEF FetchNext, PipelineStep, BrowserRuns, fetchVars, Untimed, underTimer,
       Resolves, FailsEarly, SendsHttp, HttpAnswers, HttpFails, Escalates, Connects,
       AsksForTab, TabOpens, OpenFails, AsksForSession, Attaches, AttachFails,
       Prepares, Navigates, Navigated, PageReady, StageFails, Captures, SendsClose,
       TabCloses, CloseFails, DetachEnds, Tick, CutShort, TriesAgain, BrowserOpens,
       BrowserEndsTab, TabVanishes, BrowserAttaches, BrowserDetaches
    <2> QED
      BY <1>5, <2>1, <2>2
  <1>6. \/ Connects \/ TabOpens \/ Attaches \/ CutShort \/ TriesAgain
        \/ UNCHANGED <<mine, attached, owed>>
    BY DEF FetchNext, PipelineStep, BrowserRuns, fetchVars, driver,
       Resolves, FailsEarly, SendsHttp, HttpAnswers, HttpFails, Escalates, AsksForTab,
       OpenFails, AsksForSession, AttachFails, Prepares, Navigates, Navigated,
       PageReady, StageFails, Captures, SendsClose, TabCloses, CloseFails, DetachEnds,
       Tick, BrowserOpens, BrowserEndsTab, TabVanishes, BrowserAttaches, BrowserDetaches
  <1> QED
    BY <1>1, <1>2, <1>3, <1>4, <1>5, <1>6

\* The end of an attempt names its tab or has seen it closed, and a retry, which
\* forgets the name, finds it said.
LEMMA AccountedStep ==
  FetchTypeOK /\ SessionsFollow /\ OpensIfNoneGiven /\ OwedSoFar /\ Accounted /\ [FetchNext]_fetchVars
    => Accounted'
  <1> SUFFICES ASSUME FetchTypeOK, SessionsFollow, OpensIfNoneGiven, OwedSoFar, Accounted,
                      [FetchNext]_fetchVars, NEW t \in owed'
               PROVE  \/ t \in reported' \/ tabs'[t] = "closed"
                      \/ t \in mine' /\ attached' /\ step' \notin Resting
    BY DEF Accounted
  <1>1. CASE t \notin owed
    BY <1>1, AttemptsKeepTheirTab
  <1>2. CASE t \in owed /\ (t \in reported \/ tabs[t] = "closed")
    BY <1>2, AttemptsKeepTheirTab, ClosedStays
  <1>3. CASE t \in owed /\ t \in mine /\ attached /\ step \notin Resting
    <2>1. CASE step' \in Resting
      BY <1>3, <2>1, EndsTell, ClosedStays
    <2>2. CASE step' \notin Resting
      BY <1>3, <2>2, AttemptsKeepTheirTab
    <2> QED
      BY <2>1, <2>2
  <1> QED
    BY <1>1, <1>2, <1>3 DEF Accounted

\* Success comes after the detach or the close.
LEMMA NoSessionStep == FetchTypeOK /\ SessionsFollow /\ ResultsAreFinal /\ SuccessLeavesNoSession /\ [FetchNext]_fetchVars => SuccessLeavesNoSession'
  <1> SUFFICES ASSUME FetchTypeOK, SessionsFollow, ResultsAreFinal, SuccessLeavesNoSession, [FetchNext]_fetchVars PROVE SuccessLeavesNoSession'
    OBVIOUS
  <1> USE RetriesAssumption DEF result, driver, browser
  <1>1. ASSUME Resolves PROVE SuccessLeavesNoSession'
    BY <1>1 DEF Resolves, SuccessLeavesNoSession, ResultsAreFinal, SessionsFollow, FetchTypeOK, detached, Retries, Returns, Fails, retriesLeft, method_is_idempotent
  <1>2. ASSUME FailsEarly PROVE SuccessLeavesNoSession'
    BY <1>2 DEF FailsEarly, SuccessLeavesNoSession, ResultsAreFinal, SessionsFollow, FetchTypeOK, detached, Retries, Returns, Fails, retriesLeft, method_is_idempotent
  <1>3. ASSUME SendsHttp PROVE SuccessLeavesNoSession'
    BY <1>3 DEF SendsHttp, SuccessLeavesNoSession, ResultsAreFinal, SessionsFollow, FetchTypeOK, detached, Retries, Returns, Fails, retriesLeft, method_is_idempotent
  <1>4. ASSUME HttpAnswers PROVE SuccessLeavesNoSession'
    BY <1>4 DEF HttpAnswers, SuccessLeavesNoSession, ResultsAreFinal, SessionsFollow, FetchTypeOK, detached, Retries, Returns, Fails, retriesLeft, method_is_idempotent
  <1>5. ASSUME HttpFails PROVE SuccessLeavesNoSession'
    BY <1>5 DEF HttpFails, SuccessLeavesNoSession, ResultsAreFinal, SessionsFollow, FetchTypeOK, detached, Retries, Returns, Fails, retriesLeft, method_is_idempotent
  <1>6. ASSUME Escalates PROVE SuccessLeavesNoSession'
    BY <1>6 DEF Escalates, SuccessLeavesNoSession, ResultsAreFinal, SessionsFollow, FetchTypeOK, detached, Retries, Returns, Fails, retriesLeft, method_is_idempotent
  <1>7. ASSUME Connects PROVE SuccessLeavesNoSession'
    BY <1>7 DEF Connects, SuccessLeavesNoSession, ResultsAreFinal, SessionsFollow, FetchTypeOK, detached, Retries, Returns, Fails, retriesLeft, method_is_idempotent
  <1>8. ASSUME AsksForTab PROVE SuccessLeavesNoSession'
    BY <1>8 DEF AsksForTab, SuccessLeavesNoSession, ResultsAreFinal, SessionsFollow, FetchTypeOK, detached, Retries, Returns, Fails, retriesLeft, method_is_idempotent
  <1>9. ASSUME TabOpens PROVE SuccessLeavesNoSession'
    BY <1>9 DEF TabOpens, SuccessLeavesNoSession, ResultsAreFinal, SessionsFollow, FetchTypeOK, detached, Retries, Returns, Fails, retriesLeft, method_is_idempotent
  <1>10. ASSUME OpenFails PROVE SuccessLeavesNoSession'
    BY <1>10 DEF OpenFails, SuccessLeavesNoSession, ResultsAreFinal, SessionsFollow, FetchTypeOK, detached, Retries, Returns, Fails, retriesLeft, method_is_idempotent
  <1>11. ASSUME AsksForSession PROVE SuccessLeavesNoSession'
    BY <1>11 DEF AsksForSession, SuccessLeavesNoSession, ResultsAreFinal, SessionsFollow, FetchTypeOK, detached, Retries, Returns, Fails, retriesLeft, method_is_idempotent
  <1>12. ASSUME Attaches PROVE SuccessLeavesNoSession'
    BY <1>12 DEF Attaches, SuccessLeavesNoSession, ResultsAreFinal, SessionsFollow, FetchTypeOK, detached, Retries, Returns, Fails, retriesLeft, method_is_idempotent
  <1>13. ASSUME AttachFails PROVE SuccessLeavesNoSession'
    BY <1>13 DEF AttachFails, SuccessLeavesNoSession, ResultsAreFinal, SessionsFollow, FetchTypeOK, detached, Retries, Returns, Fails, retriesLeft, method_is_idempotent
  <1>14. ASSUME Prepares PROVE SuccessLeavesNoSession'
    BY <1>14 DEF Prepares, SuccessLeavesNoSession, ResultsAreFinal, SessionsFollow, FetchTypeOK, detached, Retries, Returns, Fails, retriesLeft, method_is_idempotent
  <1>15. ASSUME Navigates PROVE SuccessLeavesNoSession'
    BY <1>15 DEF Navigates, SuccessLeavesNoSession, ResultsAreFinal, SessionsFollow, FetchTypeOK, detached, Retries, Returns, Fails, retriesLeft, method_is_idempotent
  <1>16. ASSUME Navigated PROVE SuccessLeavesNoSession'
    BY <1>16 DEF Navigated, SuccessLeavesNoSession, ResultsAreFinal, SessionsFollow, FetchTypeOK, detached, Retries, Returns, Fails, retriesLeft, method_is_idempotent
  <1>17. ASSUME PageReady PROVE SuccessLeavesNoSession'
    BY <1>17 DEF PageReady, SuccessLeavesNoSession, ResultsAreFinal, SessionsFollow, FetchTypeOK, detached, Retries, Returns, Fails, retriesLeft, method_is_idempotent
  <1>18. ASSUME StageFails PROVE SuccessLeavesNoSession'
    BY <1>18 DEF StageFails, SuccessLeavesNoSession, ResultsAreFinal, SessionsFollow, FetchTypeOK, detached, Retries, Returns, Fails, retriesLeft, method_is_idempotent
  <1>19. ASSUME Captures PROVE SuccessLeavesNoSession'
    BY <1>19 DEF Captures, SuccessLeavesNoSession, ResultsAreFinal, SessionsFollow, FetchTypeOK, detached, Retries, Returns, Fails, retriesLeft, method_is_idempotent
  <1>20. ASSUME SendsClose PROVE SuccessLeavesNoSession'
    BY <1>20 DEF SendsClose, SuccessLeavesNoSession, ResultsAreFinal, SessionsFollow, FetchTypeOK, detached, Retries, Returns, Fails, retriesLeft, method_is_idempotent
  <1>21. ASSUME TabCloses PROVE SuccessLeavesNoSession'
    BY <1>21 DEF TabCloses, SuccessLeavesNoSession, ResultsAreFinal, SessionsFollow, FetchTypeOK, detached, Retries, Returns, Fails, retriesLeft, method_is_idempotent
  <1>22. ASSUME CloseFails PROVE SuccessLeavesNoSession'
    BY <1>22 DEF CloseFails, SuccessLeavesNoSession, ResultsAreFinal, SessionsFollow, FetchTypeOK, detached, Retries, Returns, Fails, retriesLeft, method_is_idempotent
  <1>23. ASSUME DetachEnds PROVE SuccessLeavesNoSession'
    BY <1>23 DEF DetachEnds, SuccessLeavesNoSession, ResultsAreFinal, SessionsFollow, FetchTypeOK, detached, Retries, Returns, Fails, retriesLeft, method_is_idempotent
  <1>24. ASSUME Tick PROVE SuccessLeavesNoSession'
    BY <1>24 DEF Tick, SuccessLeavesNoSession, ResultsAreFinal, SessionsFollow, FetchTypeOK, detached, Retries, Returns, Fails, retriesLeft, method_is_idempotent
  <1>25. ASSUME CutShort PROVE SuccessLeavesNoSession'
    BY <1>25 DEF CutShort, SuccessLeavesNoSession, ResultsAreFinal, SessionsFollow, FetchTypeOK, detached, Retries, Returns, Fails, retriesLeft, method_is_idempotent
  <1>26. ASSUME TriesAgain PROVE SuccessLeavesNoSession'
    BY <1>26 DEF TriesAgain, SuccessLeavesNoSession, ResultsAreFinal, SessionsFollow, FetchTypeOK, detached, Retries, Returns, Fails, retriesLeft, method_is_idempotent
  <1>27. ASSUME NEW t \in Tabs, BrowserOpens(t) PROVE SuccessLeavesNoSession'
    BY <1>27 DEF BrowserOpens, SuccessLeavesNoSession, ResultsAreFinal, SessionsFollow, FetchTypeOK, detached, Retries, Returns, Fails, retriesLeft, method_is_idempotent
  <1>28. ASSUME NEW t \in Tabs, BrowserEndsTab(t) PROVE SuccessLeavesNoSession'
    BY <1>28 DEF BrowserEndsTab, SuccessLeavesNoSession, ResultsAreFinal, SessionsFollow, FetchTypeOK, detached, Retries, Returns, Fails, retriesLeft, method_is_idempotent
  <1>29. ASSUME NEW t \in Tabs, TabVanishes(t) PROVE SuccessLeavesNoSession'
    BY <1>29 DEF TabVanishes, SuccessLeavesNoSession, ResultsAreFinal, SessionsFollow, FetchTypeOK, detached, Retries, Returns, Fails, retriesLeft, method_is_idempotent
  <1>30. ASSUME BrowserAttaches PROVE SuccessLeavesNoSession'
    BY <1>30 DEF BrowserAttaches, SuccessLeavesNoSession, ResultsAreFinal, SessionsFollow, FetchTypeOK, detached, Retries, Returns, Fails, retriesLeft, method_is_idempotent
  <1>31. ASSUME BrowserDetaches PROVE SuccessLeavesNoSession'
    BY <1>31 DEF BrowserDetaches, SuccessLeavesNoSession, ResultsAreFinal, SessionsFollow, FetchTypeOK, detached, Retries, Returns, Fails, retriesLeft, method_is_idempotent
  <1>32. ASSUME UNCHANGED fetchVars PROVE SuccessLeavesNoSession'
    BY <1>32 DEF fetchVars, SuccessLeavesNoSession, ResultsAreFinal, SessionsFollow, FetchTypeOK, detached, Retries, Returns, Fails, retriesLeft, method_is_idempotent
  <1> QED
    BY <1>1, <1>2, <1>3, <1>4, <1>5, <1>6, <1>7, <1>8, <1>9, <1>10, <1>11, <1>12, <1>13, <1>14, <1>15, <1>16, <1>17, <1>18, <1>19, <1>20, <1>21, <1>22, <1>23, <1>24, <1>25, <1>26, <1>27, <1>28, <1>29, <1>30, <1>31, <1>32 DEF FetchNext, PipelineStep, BrowserRuns

\* The invariant holds in every reachable state.
THEOREM FetchInvariant == FetchSpec => []FetchInv
  <1>1. FetchInv /\ [FetchNext]_fetchVars => FetchInv'
    BY UnsentStep, AttemptsLeftStep, OpensStep, FinalStep, MeantStep, SentStep, SessionsStep,
       FetchTypeStep, OwedStep, AccountedStep, NoSessionStep
       DEF FetchInv
  <1> QED
    BY FetchInitKeeps, <1>1, PTL DEF FetchSpec

\* The type invariant: among others, never more than two sends per attempt.
THEOREM FetchTypeCorrect == FetchSpec => []FetchTypeOK
  <1>1. FetchInv => FetchTypeOK
    BY DEF FetchInv
  <1> QED
    BY FetchInvariant, <1>1, PTL

\* Retries and escalation never send a request twice that may go out once.
THEOREM NothingIsSentTwice == FetchSpec => []SentOnceUnlessIdempotent
  <1>1. FetchInv => SentOnceUnlessIdempotent
    BY DEF FetchInv, FetchTypeOK, Requests, Unsent, SentOnceUnlessIdempotent
  <1> QED
    BY FetchInvariant, <1>1, PTL

\* Of every tab any attempt of a fetch got onto and was not cut short on, the close
\* was confirmed or an attempt's trace has the name, for any number of retries
\* (finish_failed_target, finish_target).
THEOREM TabsAreAccountedFor == FetchSpec => []AttachedTabsAreAccountedFor
  <1>1. FetchInv => AttachedTabsAreAccountedFor
    BY DEF FetchInv, Accounted, AttachedTabsAreAccountedFor
  <1> QED
    BY FetchInvariant, <1>1, PTL

\* A fetch that succeeds has let go of its session.
THEOREM SuccessDetaches == FetchSpec => []SuccessLeavesNoSession
  <1>1. FetchInv => SuccessLeavesNoSession
    BY DEF FetchInv
  <1> QED
    BY FetchInvariant, <1>1, PTL

\* Tabs start closing for one of the reasons there are, and for no other.
THEOREM ClosesHaveAReason == FetchSpec => TabsAreClosedOnlyWhenMeant
  <1>1. ASSUME FetchInv, [FetchNext]_fetchVars, NEW t \in Tabs, tabs[t] = "open", tabs'[t] = "closing"
        PROVE  IF request.keep THEN \/ capture = "verified"
                                    \/ capture = "download" /\ t # Given
               ELSE t # Given
    <2>1. SendsClose /\ t \in mine
      <3>1. SendsClose
        BY <1>1 DEF FetchInv, FetchTypeOK, FetchNext, PipelineStep, BrowserRuns, browser, fetchVars,
           Resolves, FailsEarly, SendsHttp, HttpAnswers, HttpFails, Escalates, Connects,
           AsksForTab, TabOpens, OpenFails, AsksForSession, Attaches, AttachFails, Prepares,
           Navigates, Navigated, PageReady, StageFails, Captures, TabCloses, CloseFails,
           DetachEnds, Tick, CutShort, TriesAgain, BrowserOpens, BrowserEndsTab, TabVanishes,
           BrowserAttaches, BrowserDetaches
      <3> QED
        BY <1>1, <3>1 DEF SendsClose, FetchInv, FetchTypeOK
    <2>2. created_target => t # Given
      BY <1>1, <2>1, AttemptsAndTabs DEF FetchInv, FetchTypeOK, created_target
    <2> QED
      BY <1>1, <2>1, <2>2 DEF SendsClose, FetchInv, FetchTypeOK, ClosesAreMeant,
         close_after_success
  <1>2. FetchInv /\ [FetchNext]_fetchVars =>
          [\A t \in Tabs : tabs[t] = "open" /\ tabs'[t] = "closing" =>
             IF request.keep THEN \/ capture = "verified"
                                  \/ capture = "download" /\ t # Given
             ELSE t # Given]_fetchVars
    BY <1>1
  <1> QED
    BY FetchInvariant, <1>2, PTL DEF FetchSpec, TabsAreClosedOnlyWhenMeant
================================================================================
