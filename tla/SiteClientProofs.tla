-------------------------- MODULE SiteClientProofs ---------------------------
(***************************************************************************)
(* What ffc's client of a site does.  For any number of processes and      *)
(* requests, and however many answers are lost: no refresh token is spent  *)
(* twice, the config file keeps the good one, unless an answer was lost    *)
(* with it, and no write is repeated that the site has accepted the token  *)
(* of ever since (TokenRefresh).  For any commands and requests that fail: *)
(* what is told of a job on the site is what the job did (SiteJobs), and   *)
(* what is read into a file or put on the site comes whole or not at all   *)
(* (SiteFiles), and customizations arrive as one site had them             *)
(* (Customize).                                                            *)
(***************************************************************************)
EXTENDS TokenRefresh, SiteJobs, SiteFiles, Customize, SelectionProofs

\* Up to the repeat of a request; how often its method has run by then.
Once == {"login", "decide", "probe", "lock", "file", "site", "save", "again"}

\* One job at a time is under the config's lock.
OneUnder ==
  \A j, k \in Jobs : pc[j] \in Under /\ pc[k] \in Under => j = k

\* The file is behind the site only while a job saves the new pair.
Signed ==
  stored = issued \/ stored \in lost \/ \E j \in Jobs : pc[j] = "save"

RefreshInv ==
  /\ TypeOK
  /\ OneUnder
  /\ Signed
  /\ stored <= issued
  /\ \A j \in Jobs : pc[j] = "new" => ran[j] = 0
  /\ \A j \in Jobs : pc[j] \in Once => ran[j] <= 1
  /\ \A j \in Starts : ran[j] = 0

LEMMA OwnerIsProc == \A j \in Jobs : Owner[j] \in Procs
  BY DEF Procs

LEMMA InitInv == Init => RefreshInv
<1> SUFFICES ASSUME Init PROVE RefreshInv
  OBVIOUS
<1>1. /\ 1 \in Pairs
      /\ 1..issued = {1}
  BY BoundsAreNat DEF Init, Pairs
<1>2. TypeOK
  <2>1. /\ pc \in [Jobs -> {"new"}] /\ used \in [Jobs -> {0}]
        /\ ran \in [Jobs -> {0}] /\ good \subseteq Requests
    BY DEF Init
  <2>2. token \in [Procs -> {0}] /\ failed \in [Procs -> {0}]
    BY DEF Init
  <2>3. stored \in Pairs /\ expired \in BOOLEAN /\ issued \in Pairs
    BY <1>1 DEF Init
  <2>4. live \subseteq 1..issued /\ lost \subseteq 1..issued
    BY <1>1 DEF Init
  <2> QED
    BY <2>1, <2>2, <2>3, <2>4 DEF TypeOK
<1> QED
  BY <1>2, KindsDiffer DEF Init, RefreshInv, OneUnder, Signed, Under, Once, Jobs

\* A request is sent or repeated.
LEMMA AttemptInv ==
  ASSUME RefreshInv, NEW j \in Jobs,
         Attempt(j, "new", "login") \/ Attempt(j, "again", "relogin")
  PROVE  RefreshInv'
<1> DEFINE tok == token[Owner[j]]
<1>1. /\ j \in Requests /\ j \notin Starts /\ tok \in Pairs
      /\ used' = [used EXCEPT ![j] = tok]
      /\ UNCHANGED <<token, failed, stored, expired, issued, live, lost>>
  BY OwnerIsProc, KindsDiffer
     DEF Attempt, RefreshInv, TypeOK, clientVars, fileVars, siteVars
<1>2. good' \subseteq Requests
  BY <1>1 DEF Attempt, RefreshInv, TypeOK
<1>3. PICK to \in {"login", "relogin", "done"} : pc' = [pc EXCEPT ![j] = to]
  BY DEF Attempt, Go
<1>4. \/ pc[j] = "new" /\ pc'[j] \in {"login", "done"}
      \/ pc[j] = "again" /\ pc'[j] \in {"relogin", "done"}
  BY DEF Attempt, Go, RefreshInv, TypeOK
<1>5. ran[j] \in 0..1 /\ (pc[j] = "new" => ran[j] = 0)
  BY <1>4 DEF RefreshInv, TypeOK, Once
<1>6. ran' \in {ran, [ran EXCEPT ![j] = @ + 1]}
  BY DEF Attempt
<1>7. ran' \in [Jobs -> 0..2]
  BY <1>5, <1>6 DEF RefreshInv, TypeOK
<1>8. TypeOK'
  <2>1. pc' \in [Jobs -> {"new", "login", "again", "relogin"} \cup LoggingIn \cup Ends]
    BY <1>3 DEF RefreshInv, TypeOK, Ends
  <2>2. used' \in [Jobs -> Pairs \cup {0}]
    BY <1>1 DEF RefreshInv, TypeOK
  <2> QED
    BY <1>1, <1>2, <1>7, <2>1, <2>2 DEF RefreshInv, TypeOK
<1>9. /\ \A k \in Jobs : k # j => pc'[k] = pc[k] /\ ran'[k] = ran[k]
      /\ pc'[j] \notin Under \cup {"new"} /\ pc[j] \notin Under
      /\ pc'[j] \in Once => ran'[j] <= 1
  BY <1>3, <1>4, <1>5, <1>6 DEF RefreshInv, TypeOK, Under, Once
<1> QED
  BY <1>1, <1>8, <1>9 DEF RefreshInv, OneUnder, Signed, Under, Jobs

\* The steps that leave the site's pairs and the file as they are, and take no
\* job under the config's lock.
LEMMA ClientInv ==
  ASSUME RefreshInv, NEW j \in Jobs,
         \/ Load(j) \/ Send(j) \/ Repeat(j) \/ LockLogin(j) \/ GivesUp(j)
         \/ Decide(j) \/ Probe(j) \/ LockLoginAgain(j) \/ Reprobe(j)
  PROVE  RefreshInv'
<1> USE BoundsAreNat, OwnerIsProc, KindsDiffer
        DEF RefreshInv, TypeOK, OneUnder, Signed, Pairs, Under, Once, LoggingIn,
            Ends, Go, jobVars, clientVars, fileVars, siteVars,
            Requests
<1>1. CASE Load(j)
  BY <1>1 DEF Load
<1>2. CASE Send(j)
  BY <1>2, AttemptInv DEF Send
<1>3. CASE Repeat(j)
  BY <1>3, AttemptInv DEF Repeat
<1>4. CASE LockLogin(j)
  BY <1>4 DEF LockLogin
<1>5. CASE GivesUp(j)
  BY <1>5 DEF GivesUp
<1>6. CASE Decide(j)
  BY <1>6 DEF Decide, Decision
<1>7. CASE Probe(j)
  BY <1>7 DEF Probe
<1>8. CASE LockLoginAgain(j)
  BY <1>8 DEF LockLoginAgain
<1>9. CASE Reprobe(j)
  BY <1>9 DEF Reprobe
<1> QED
  BY <1>1, <1>2, <1>3, <1>4, <1>5, <1>6, <1>7, <1>8, <1>9

\* A new pair leaves the old ones in their bounds.
LEMMA IssueBounds ==
  ASSUME RefreshInv, NEW j \in Jobs, NEW next, Issue(j, next)
  PROVE  /\ issued' \in Pairs /\ stored' \in Pairs /\ stored' <= issued'
         /\ stored \in 1..issued' /\ lost \subseteq 1..issued'
         /\ live' \subseteq 1..issued'
<1>1. issued' = issued + 1 /\ issued \in Pairs /\ issued < MaxPairs /\ stored' = stored
  BY DEF Issue, RefreshInv, TypeOK, fileVars
<1>2. issued' \in Pairs /\ 1..issued \subseteq 1..issued' /\ issued' \in 1..issued'
  BY <1>1, BoundsAreNat DEF Pairs
<1>3. live' = live \cup {issued'}
  BY DEF Issue
<1>4. stored \in 1..issued
  BY <1>1, BoundsAreNat DEF RefreshInv, TypeOK, Pairs
<1>5. stored' <= issued'
  BY <1>1, <1>4, BoundsAreNat DEF Pairs
<1> QED
  BY <1>1, <1>2, <1>3, <1>4, <1>5 DEF RefreshInv, TypeOK

\* The steps of a refresh.
LEMMA LockedInv ==
  ASSUME RefreshInv, NEW j \in Jobs,
         \/ LockConfig(j) \/ ConfigFails(j) \/ Reuse(j) \/ AskSite(j)
         \/ SiteIssues(j) \/ AnswerLost(j) \/ SiteDown(j) \/ SiteRefuses(j)
         \/ Save(j) \/ SaveFails(j)
  PROVE  RefreshInv'
<1> USE BoundsAreNat, OwnerIsProc, KindsDiffer
        DEF RefreshInv, TypeOK, OneUnder, Signed, Pairs, Under, Once, LoggingIn,
            Ends, Go, Fails, jobVars, clientVars, fileVars, siteVars,
            Requests
<1>1. CASE LockConfig(j)
  BY <1>1 DEF LockConfig, ConfigFree
<1>2. CASE ConfigFails(j)
  BY <1>2 DEF ConfigFails
<1>3. CASE Reuse(j)
  BY <1>3 DEF Reuse, Succeed
<1>4. CASE AskSite(j)
  BY <1>4 DEF AskSite
<1>5. CASE SiteIssues(j)
  <2>1. Issue(j, "save") /\ lost' = lost
    BY <1>5 DEF SiteIssues
  <2>2. issued' \in Pairs /\ stored' <= issued' /\ lost' \subseteq 1..issued'
    BY <2>1, IssueBounds
  <2> QED
    BY <2>1, <2>2, IssueBounds DEF Issue
<1>6. CASE AnswerLost(j)
  <2>1. /\ Issue(j, IF j \in Starts THEN "done" ELSE "failed")
        /\ lost' = lost \cup {stored}
    BY <1>6 DEF AnswerLost, Presented
  <2>2. issued' \in Pairs /\ stored' \in lost' /\ lost' \subseteq 1..issued'
    BY <2>1, IssueBounds DEF Issue
  <2> QED
    BY <2>1, <2>2, IssueBounds DEF Issue
<1>7. CASE SiteDown(j)
  BY <1>7 DEF SiteDown
<1>8. CASE SiteRefuses(j)
  BY <1>8 DEF SiteRefuses
<1>9. CASE Save(j)
  <2>1. /\ stored' = issued /\ expired' = FALSE
        /\ UNCHANGED <<used, ran, good, failed, issued, live, lost>>
        /\ pc[j] = "save" /\ pc' \in {[pc EXCEPT ![j] = "done"], [pc EXCEPT ![j] = "again"]}
        /\ token' = [token EXCEPT ![Owner[j]] = issued]
    BY <1>9 DEF Save, Succeed
  <2>2. TypeOK'
    BY <2>1
  <2>3. OneUnder' /\ Signed' /\ stored' <= issued'
    BY <2>1
  <2> QED
    BY <2>1, <2>2, <2>3
<1>10. CASE SaveFails(j)
  <2>1. stored \in lost' /\ lost' \subseteq 1..issued
    BY <1>10 DEF SaveFails
  <2> QED
    BY <1>10, <2>1 DEF SaveFails
<1> QED
  BY <1>1, <1>2, <1>3, <1>4, <1>5, <1>6, <1>7, <1>8, <1>9, <1>10

LEMMA NextInv == RefreshInv /\ [Next]_vars => RefreshInv'
<1> SUFFICES ASSUME RefreshInv, [Next]_vars PROVE RefreshInv'
  OBVIOUS
<1>1. CASE UNCHANGED vars
  BY <1>1 DEF vars, jobVars, clientVars, fileVars, siteVars, RefreshInv, TypeOK,
              OneUnder, Signed
<1>2. ASSUME NEW j \in Jobs, Step(j) PROVE RefreshInv'
  BY <1>2, ClientInv, LockedInv DEF Step
<1>3. ASSUME NEW i \in Pairs, Lapse(i) \/ Restore(i) PROVE RefreshInv'
  BY <1>3 DEF Lapse, Restore, RefreshInv, TypeOK, OneUnder, Signed, jobVars,
              clientVars, fileVars
<1>4. ASSUME NEW p \in Procs, Crash(p) PROVE RefreshInv'
  <2>1. /\ \A k \in Jobs : pc'[k] = pc[k] \/ pc'[k] = "dead"
        /\ pc' \in [Jobs -> {"new", "login", "again", "relogin"} \cup LoggingIn \cup Ends]
    BY <1>4 DEF Crash, RefreshInv, TypeOK, Ends
  <2>2. stored \in 1..issued
    BY BoundsAreNat DEF RefreshInv, TypeOK, Pairs
  <2>3. lost \subseteq lost' /\ lost' \subseteq 1..issued
    BY <1>4, <2>2 DEF Crash, RefreshInv, TypeOK
  <2>4. Signed'
    <3>1. CASE \E k \in Jobs : Owner[k] = p /\ pc[k] = "save"
      <4>1. stored \in lost'
        BY <1>4, <3>1 DEF Crash
      <4> QED
        BY <1>4, <4>1 DEF Crash, Signed, fileVars
    <3>2. CASE ~ \E k \in Jobs : Owner[k] = p /\ pc[k] = "save"
      <4>1. \A k \in Jobs : pc[k] = "save" => pc'[k] = "save"
        BY <1>4, <3>2 DEF Crash, RefreshInv, TypeOK
      <4> QED
        BY <1>4, <2>3, <4>1 DEF Crash, RefreshInv, Signed, fileVars, siteVars
    <3> QED
      BY <3>1, <3>2
  <2>5. UNCHANGED <<used, ran, good, token, failed, stored, expired, issued, live>>
    BY <1>4 DEF Crash, jobVars, clientVars, fileVars, siteVars
  <2>6. TypeOK'
    BY <2>1, <2>3, <2>5 DEF RefreshInv, TypeOK
  <2> QED
    BY <2>1, <2>4, <2>5, <2>6 DEF RefreshInv, OneUnder, Under, Once
<1>5. CASE Expire
  BY <1>5 DEF Expire, RefreshInv, TypeOK, OneUnder, Signed, jobVars, clientVars,
              siteVars
<1> QED
  BY <1>1, <1>2, <1>3, <1>4, <1>5 DEF Next

THEOREM InvHolds == Spec => []RefreshInv
<1>1. Init => RefreshInv
  BY InitInv
<1>2. RefreshInv /\ [Next]_vars => RefreshInv'
  BY NextInv
<1> QED
  BY <1>1, <1>2, PTL DEF Spec

\* The state is well typed; in particular no method runs more than twice.
THEOREM TypeCorrect == Spec => []TypeOK
<1>1. RefreshInv => TypeOK
  BY DEF RefreshInv
<1> QED
  BY <1>1, InvHolds, PTL

\* A refresh token in a request to the site is good, unless the answer to an
\* earlier one with it was lost.
THEOREM NeverSpentTwice == Spec => []SpentOnce
<1>1. RefreshInv => SpentOnce
  BY DEF RefreshInv, OneUnder, Signed, SpentOnce, Presented, Under
<1> QED
  BY <1>1, InvHolds, PTL

\* The config's refresh token is the good one while nobody refreshes.
THEOREM SignInKept == Spec => []StaysSignedIn
<1>1. RefreshInv => StaysSignedIn
  BY DEF RefreshInv, Signed, StaysSignedIn, ConfigFree, Under
<1> QED
  BY <1>1, InvHolds, PTL
-----------------------------------------------------------------------------
(* Repeated writes.                                                        *)

\* The site accepts the token of a request that it has accepted since it was
\* sent.
GoodIsLive == \A j \in good : used[j] \in live

\* A write that refreshes the token has had its own refused.
RefusedFirst ==
  \A j \in Writes : pc[j] \in {"lock", "file", "site", "save"} => j \notin good

RepeatInv == TypeOK /\ GoodIsLive /\ RefusedFirst

LEMMA InitRepeat == Init => GoodIsLive /\ RefusedFirst
  BY DEF Init, GoodIsLive, RefusedFirst

\* The steps of a job but for a request being sent.
LEMMA StepRepeat ==
  ASSUME RepeatInv, NEW j \in Jobs, Step(j), ~Send(j), ~Repeat(j)
  PROVE  GoodIsLive' /\ RefusedFirst'
<1> USE KindsDiffer DEF RepeatInv, GoodIsLive, RefusedFirst, Go, Fails, Succeed
<1>1. good' = good
  BY DEF Step, Load, LockLogin, GivesUp, Decide, Probe, LockLoginAgain, Reprobe,
         LockConfig, ConfigFails, Reuse, AskSite, SiteIssues, AnswerLost, Issue,
         SiteDown, SiteRefuses, Save, SaveFails, jobVars
<1>2. live \subseteq live'
  BY DEF Step, Load, LockLogin, GivesUp, Decide, Probe, LockLoginAgain, Reprobe,
         LockConfig, ConfigFails, Reuse, AskSite, SiteIssues, AnswerLost, Issue,
         SiteDown, SiteRefuses, Save, SaveFails, siteVars
<1>3. \A k \in Requests : used'[k] = used[k]
  <2>1. CASE Load(j)
    BY <2>1 DEF Load, TypeOK, Jobs
  <2>2. CASE ~Load(j)
    <3> used' = used
      BY <2>2 DEF Step, LockLogin, GivesUp, Decide, Probe, LockLoginAgain,
         Reprobe, LockConfig, ConfigFails, Reuse, AskSite, SiteIssues,
         AnswerLost, Issue, SiteDown, SiteRefuses, Save, SaveFails, jobVars
    <3> QED
      OBVIOUS
  <2> QED
    BY <2>1, <2>2
<1>4. GoodIsLive'
  BY <1>1, <1>2, <1>3 DEF TypeOK
<1>5. \A k \in Jobs : k # j => pc'[k] = pc[k]
  BY DEF Step, Load, LockLogin, GivesUp, Decide, Probe, LockLoginAgain, Reprobe,
         LockConfig, ConfigFails, Reuse, AskSite, SiteIssues, AnswerLost, Issue,
         SiteDown, SiteRefuses, Save, SaveFails, TypeOK
<1>6. ASSUME j \in Writes, pc'[j] \in {"lock", "file", "site", "save"}
      PROVE  j \notin good
  <2>1. \/ pc[j] \in {"lock", "file", "site", "save"}
        \/ pc[j] = "probe" /\ used[j] \notin live
    BY <1>6 DEF Step, Load, LockLogin, GivesUp, Decide, Decision, Probe,
         LockLoginAgain, Reprobe, LockConfig, ConfigFails, Reuse, AskSite,
         SiteIssues, AnswerLost, Issue, SiteDown, SiteRefuses, Save, SaveFails,
         TypeOK, Jobs, Requests
  <2> QED
    BY <1>6, <2>1
<1> QED
  BY <1>1, <1>4, <1>5, <1>6 DEF Jobs, Requests

LEMMA NextRepeat ==
  RefreshInv /\ GoodIsLive /\ RefusedFirst /\ [Next]_vars
    => GoodIsLive' /\ RefusedFirst'
<1> SUFFICES ASSUME RefreshInv, RepeatInv, [Next]_vars
             PROVE  GoodIsLive' /\ RefusedFirst'
  BY DEF RefreshInv, RepeatInv
<1> USE DEF RepeatInv, GoodIsLive, RefusedFirst
<1>1. CASE UNCHANGED vars
  BY <1>1 DEF vars, jobVars, siteVars
<1>2. ASSUME NEW j \in Jobs, Step(j) PROVE GoodIsLive' /\ RefusedFirst'
  <2>1. CASE Send(j) \/ Repeat(j)
    <3>1. /\ used' = [used EXCEPT ![j] = token[Owner[j]]]
          /\ good' = IF token[Owner[j]] \in live THEN good \cup {j} ELSE good \ {j}
          /\ live' = live
          /\ \E to \in {"login", "relogin", "done"} : pc' = [pc EXCEPT ![j] = to]
      BY <2>1 DEF Send, Repeat, Attempt, Go, siteVars
    <3>2. GoodIsLive'
      BY <3>1 DEF TypeOK, Jobs
    <3>3. RefusedFirst'
      BY <3>1 DEF TypeOK, Jobs, Requests
    <3> QED
      BY <3>2, <3>3
  <2>2. CASE ~Send(j) /\ ~Repeat(j)
    BY <1>2, <2>2, StepRepeat
  <2> QED
    BY <2>1, <2>2
<1>3. ASSUME NEW i \in Pairs, Lapse(i) PROVE GoodIsLive' /\ RefusedFirst'
  BY <1>3 DEF Lapse
<1>4. ASSUME NEW i \in Pairs, Restore(i) PROVE GoodIsLive' /\ RefusedFirst'
  BY <1>4 DEF Restore, jobVars
<1>5. ASSUME NEW p \in Procs, Crash(p) PROVE GoodIsLive' /\ RefusedFirst'
  BY <1>5 DEF Crash, jobVars, siteVars, TypeOK, Jobs, Requests
<1>6. CASE Expire
  BY <1>6 DEF Expire, jobVars, siteVars
<1> QED
  BY <1>1, <1>2, <1>3, <1>4, <1>5, <1>6 DEF Next

\* A write begins its repeat only in a step whose request is no longer good.
LEMMA RepeatStep ==
  ASSUME RepeatInv, [Next]_vars, NEW j \in Writes, pc[j] # "again", pc'[j] = "again"
  PROVE  j \notin good
<1> USE KindsDiffer DEF RepeatInv, GoodIsLive, RefusedFirst, Jobs, Requests, TypeOK
<1>1. ASSUME NEW k \in Jobs, Step(k) PROVE j \notin good
  <2>1. k = j /\ (Probe(j) \/ Reuse(j) \/ Save(j))
    BY <1>1 DEF Step, Load, Send, Repeat, Attempt, LockLogin, GivesUp, Decide,
         Decision, Probe, LockLoginAgain, Reprobe, LockConfig, ConfigFails,
         Reuse, AskSite, SiteIssues, AnswerLost, Issue, SiteDown, SiteRefuses,
         Save, SaveFails, Go, Fails, Succeed, Ends
  <2>2. CASE Probe(j)
    BY <2>2 DEF Probe, Go
  <2>3. CASE Reuse(j) \/ Save(j)
    BY <2>3 DEF Reuse, Save, Succeed, Go
  <2> QED
    BY <2>1, <2>2, <2>3
<1>2. ~UNCHANGED vars /\ ~Expire
  BY DEF vars, Expire
<1>3. \A i \in Pairs : ~Lapse(i) /\ ~Restore(i)
  BY DEF Lapse, Restore
<1>4. \A p \in Procs : ~Crash(p)
  BY DEF Crash
<1> QED
  BY <1>1, <1>2, <1>3, <1>4 DEF Next

\* A write is not repeated, whoever else refreshed in the meantime, if the site
\* has accepted its token ever since it was sent.
THEOREM WritesOnce == Spec => RepeatedWhenRefused
<1>1. Init => GoodIsLive /\ RefusedFirst
  BY InitRepeat
<1>2. RefreshInv /\ GoodIsLive /\ RefusedFirst /\ [Next]_vars
        => GoodIsLive' /\ RefusedFirst'
  BY NextRepeat
<1>3. RefreshInv /\ GoodIsLive /\ RefusedFirst /\ [Next]_vars
        => [\A j \in Writes :
              pc[j] # "again" /\ pc'[j] = "again" => j \notin good]_vars
  BY RepeatStep DEF RepeatInv, RefreshInv
<1> QED
  BY <1>1, <1>2, <1>3, InvHolds, PTL DEF Spec, RepeatedWhenRefused

-----------------------------------------------------------------------------
(***************************************************************************)
(* Data Imports and prepared reports: the inductive invariant.             *)
(***************************************************************************)
Waits == {"create", "upload", "preview", "discard", "read", "start", "poll", "warnings",
          "check", "first", "find", "make", "wait", "fetch"}
AskTypes == Imports \cup [cmd : {"report"}, filters : Filters, fresh : BOOLEAN, reuse : BOOLEAN, name : Nat]
States == {"Pending", "In Progress", "Success", "Partial Success", "Error", "Timed Out"}
Polls == [status : States, success : Nat, failed : Nat]
RunAtWork == [at : Waits, ask : AskTypes, had : SUBSET Nat]
RunWithLogs == [at : {"logs"}, ask : AskTypes, st : Polls]
RunWithCounts == [at : {"ended"}, ask : AskTypes, exit : {"ok", "partial", "died"}, good : Nat, bad : Nat]
RunWithResult == [at : {"ended"}, ask : AskTypes, exit : {"result"}, of : Nat, had : SUBSET Nat]
Exits == {"failed", "refused", "lost", "left", "blocked", "ready", "retry", "waited", "none", "noresult", "interrupted"}
RunEnded == [at : {"ended"}, ask : AskTypes, exit : Exits]
RunStates == {NotRun} \cup RunAtWork \cup RunWithLogs \cup RunWithCounts \cup RunWithResult \cup RunEnded
JobRuns == run \in [Runs -> RunStates]

Imported == [there : {TRUE}, file : {"none", "parsed"}, warns : BOOLEAN, status : States, logs : Seq(BOOLEAN)]
Prepared == [filters : Filters, status : {"queued", "done", "failed"}]
Over(status, logs) ==
  /\ status = "Success" => Count(logs, TRUE) = Total
  /\ status = "Partial Success" /\ marks => Count(logs, FALSE) > 0
JobSite ==
  /\ marks \in BOOLEAN /\ restarts \in Nat /\ dataJob \in {"none", "queued", "running", "over"}
  /\ import = NoImport \/ import \in Imported
  /\ reports \in Seq(Prepared)
  /\ import.there => Len(import.logs) <= Total
  /\ restarts = 0 => dataJob = "none" /\ (import.there => import.status = "Pending")
  /\ import.there /\ (restarts = 0 \/ (dataJob = "queued" /\ restarts = 1)) =>
       import.status = "Pending" /\ import.logs = <<>>
  /\ import.there /\ restarts = 1 =>
       /\ dataJob # "none"
       /\ dataJob = "running" => \/ import.status \in {"Pending", "In Progress"}
                                 \/ import.status = "Partial Success" /\ ~marks
       /\ dataJob = "over" => Over(import.status, import.logs)

\* What a command may rely on.
LogsAre(fine, bad) ==
  import.there /\ restarts = 1 =>
    /\ fine = Count(import.logs, TRUE) /\ bad = Count(import.logs, FALSE)
    /\ dataJob = "over" \/ Len(import.logs) = Total
Polled(st) ==
  /\ st.status \in {"Success", "Error", "Timed Out", "Partial Success"}
  /\ restarts = 1 /\ import.there /\ st.status = "Success" => st.success = Total
  /\ restarts = 1 /\ import.there /\ st.status = "Partial Success" /\ st.success + st.failed < Total => st.failed > 0
Old(c) == \A i \in run[c].had : i \in DOMAIN reports /\ reports[i].status = "done"
AtReport == {"check", "first", "find", "make", "wait", "fetch"}
JobGood(c) ==
  /\ run[c].at # "idle" /\ run[c].ask.cmd = "import" => MayImport(c)
  /\ MayImport(c) /\ run[c].at \in {"idle", "create"} => import = NoImport /\ restarts = 0
  /\ run[c].at \in {"create", "upload", "preview", "discard"} => run[c].ask.cmd = "import"
  /\ run[c].at \in {"upload", "preview", "discard"} => import.there
  /\ run[c].at = "logs" => restarts > 0 /\ LogsAre(run[c].st.success, run[c].st.failed) /\ Polled(run[c].st)
  /\ CommandEnded(c, {"ok", "partial", "died"}) =>
       /\ restarts > 0 /\ LogsAre(run[c].good, run[c].bad)
       /\ run[c].exit = "ok" /\ import.there /\ restarts = 1 => run[c].good = Total
  /\ run[c].at \in Waits => Old(c)
  /\ run[c].at \in AtReport =>
       /\ run[c].ask.cmd = "report"
       /\ run[c].at = "check" => ~run[c].ask.fresh
       /\ run[c].at \in {"wait", "fetch"} /\ run[c].ask.fresh /\ ~run[c].ask.reuse => run[c].ask.name \notin run[c].had
  /\ CommandEnded(c, {"result"}) =>
       /\ run[c].ask.cmd = "report" /\ run[c].of \in DOMAIN reports
       /\ Matches(run[c].of, run[c].ask.filters) /\ reports[run[c].of].status = "done"
       /\ run[c].ask.fresh /\ ~run[c].ask.reuse => run[c].of \notin run[c].had
JobEach == \A c \in Runs : JobGood(c)

\* Who still has, or tells of, a Data Import that was never started.
Minds(c) == \/ run[c].at \in {"upload", "preview", "discard", "start"}
            \/ CommandEnded(c, {"left", "ready", "blocked", "retry"})
JobLeft == import.there /\ restarts = 0 => deaf # {} \/ \E c \in Runs : Minds(c)

JobsInv == JobRuns /\ JobSite /\ JobEach /\ JobLeft

-----------------------------------------------------------------------------
LEMMA CountIs ==
  ASSUME NEW logs \in Seq(BOOLEAN)
  PROVE  /\ Count(logs, TRUE) \in Nat /\ Count(logs, FALSE) \in Nat
         /\ Count(logs, TRUE) + Count(logs, FALSE) = Len(logs)
<1> DEFINE yes == {i \in DOMAIN logs : logs[i] = TRUE}
           no  == {i \in DOMAIN logs : logs[i] = FALSE}
<1>1. DOMAIN logs = 1 .. Len(logs) /\ Len(logs) \in Nat
  OBVIOUS
<1>2. IsFiniteSet(DOMAIN logs) /\ Cardinality(DOMAIN logs) = Len(logs)
  BY <1>1, FS_Interval
<1>3. yes \cup no = DOMAIN logs /\ yes \cap no = {}
  <2>1. ASSUME NEW i \in DOMAIN logs  PROVE  logs[i] \in BOOLEAN
    OBVIOUS
  <2>2. ASSUME NEW i \in DOMAIN logs  PROVE  logs[i] = TRUE \/ logs[i] = FALSE
    BY <2>1, Zenon
  <2> QED
    BY <2>2, Zenon
<1>4. IsFiniteSet(yes) /\ IsFiniteSet(no)
  BY <1>2, FS_Subset
<1>5. Cardinality(yes \cup no) = Cardinality(yes) + Cardinality(no) - Cardinality(yes \cap no)
  BY <1>4, FS_Union
<1>6. Cardinality(yes \cap no) = 0 /\ Cardinality(yes) \in Nat /\ Cardinality(no) \in Nat
  BY <1>3, <1>4, FS_EmptySet, FS_CardinalityType
<1>7. Cardinality(yes) + Cardinality(no) = Len(logs)
  <2> DEFINE a == Cardinality(yes)
             b == Cardinality(no)
  <2>1. Len(logs) = a + b - 0
    <3>1. Cardinality(DOMAIN logs) = a + b - Cardinality(yes \cap no)
      BY <1>3, <1>5, Zenon
    <3> QED
      BY <3>1, <1>2, <1>6, Zenon
  <2>2. a \in Nat /\ b \in Nat
    BY <1>6, Zenon
  <2> HIDE DEF a, b, yes, no
  <2>3. a + b = Len(logs)
    BY <2>1, <2>2
  <2> QED
    BY <2>3, Zenon DEF a, b
<1> QED
  BY <1>6, <1>7 DEF Count

LEMMA NewestIs ==
  ASSUME NEW S \in SUBSET Nat, NEW n \in Nat, \A i \in S : i <= n, S # {}
  PROVE  Newest(S) \in S
<1> DEFINE Back == {n - i : i \in S}
<1>1. Back \in SUBSET Nat /\ Back # {}
  <2>1. ASSUME NEW i \in S  PROVE  n - i \in Nat
    BY <2>1
  <2>2. PICK i \in S : TRUE
    OBVIOUS
  <2> QED
    BY <2>1, <2>2
<1>2. PICK x \in Back : \A y \in Back : x <= y
  <2> HIDE DEF Back
  <2> QED
    BY <1>1, LeastIsThere
<1>3. PICK i \in S : x = n - i
  OBVIOUS
<1>4. ASSUME NEW j \in S  PROVE  n - i <= n - j
  BY <1>2, <1>3
<1>5. ASSUME NEW j \in S  PROVE  j <= i
  <2>1. i \in Nat /\ j \in Nat
    OBVIOUS
  <2> QED
    BY <2>1, <1>4
<1> QED
  BY <1>5 DEF Newest

LEMMA RunIs ==
  ASSUME JobRuns, NEW c \in Runs
  PROVE  /\ run[c].at \in Waits => run[c] \in RunAtWork
         /\ run[c].at = "logs" => run[c] \in RunWithLogs
         /\ run[c].at = "idle" => run[c] = NotRun
         /\ run[c].at # "idle" => run[c].ask \in AskTypes
         /\ CommandEnded(c, {"ok", "partial", "died"}) => run[c] \in RunWithCounts
         /\ CommandEnded(c, {"result"}) => run[c] \in RunWithResult
<1>1. run[c] \in RunStates
  BY DEF JobRuns
<1> QED
  BY <1>1 DEF RunStates, RunAtWork, RunWithLogs, RunWithCounts, RunWithResult, RunEnded, NotRun, Waits, Exits,
              CommandEnded, CommandAt

\* Another record at a command.
LEMMA RunBecomes ==
  ASSUME JobRuns, NEW c \in Runs, NEW r \in RunStates, run' = [run EXCEPT ![c] = r]
  PROVE  JobRuns' /\ run'[c] = r /\ \A d \in Runs \ {c} : run'[d] = run[d]
BY DEF JobRuns

\* A command goes on.
GoesOn(c, where) ==
  /\ JobRuns' /\ \A d \in Runs \ {c} : run'[d] = run[d]
  /\ run'[c].at = where /\ run'[c].ask = run[c].ask /\ run'[c].had = run[c].had
LEMMA Moves ==
  ASSUME JobRuns, NEW c \in Runs, run[c].at \in Waits, NEW where \in Waits, CommandTo(c, where)
  PROVE  GoesOn(c, where)
<1> DEFINE r == [run[c] EXCEPT !.at = where]
<1>1. run[c] \in RunAtWork
  BY RunIs
<1>2. r \in RunAtWork /\ r.at = where /\ r.ask = run[c].ask /\ r.had = run[c].had
  BY <1>1 DEF RunAtWork
<1>3. run' = [run EXCEPT ![c] = r]
  BY DEF CommandTo
<1> HIDE DEF r
<1>4. r \in RunStates
  BY <1>2 DEF RunStates
<1> QED
  BY <1>2, <1>3, <1>4, RunBecomes DEF GoesOn

\* A command ends without a result.
LEMMA EndsThen ==
  ASSUME JobRuns, NEW c \in Runs, run[c].at \in Waits \cup {"logs"}, NEW exit \in Exits, CommandEnds(c, exit)
  PROVE  /\ JobRuns' /\ \A d \in Runs \ {c} : run'[d] = run[d]
         /\ run'[c].at = "ended" /\ run'[c].exit = exit /\ run'[c].ask = run[c].ask
         /\ (run[c].ask.cmd = "import" => MayImport(c)) => JobGood(c)'
<1> DEFINE r == [at |-> "ended", exit |-> exit, ask |-> run[c].ask]
<1>1. run[c].ask \in AskTypes
  BY RunIs DEF Waits
<1>2. r \in RunStates /\ r.at = "ended" /\ r.exit = exit /\ r.ask = run[c].ask
  BY <1>1 DEF RunStates, RunEnded
<1>3. run' = [run EXCEPT ![c] = r]
  BY DEF CommandEnds
<1> HIDE DEF r
<1>4. JobRuns' /\ run'[c] = r /\ \A d \in Runs \ {c} : run'[d] = run[d]
  BY <1>2, <1>3, RunBecomes
<1>5. (run[c].ask.cmd = "import" => MayImport(c)) => JobGood(c)'
  BY <1>2, <1>4 DEF JobGood, CommandEnded, CommandAt, Waits, AtReport, Exits
<1> QED
  BY <1>2, <1>4, <1>5
-----------------------------------------------------------------------------
\* What a step may do to the site for a command that does not move.
ReportsStay ==
  \A i \in DOMAIN reports : /\ i \in DOMAIN reports' /\ reports'[i].filters = reports[i].filters
                            /\ reports[i].status = "done" => reports'[i].status = "done"
LogsStay ==
  /\ restarts > 0 => restarts' > 0
  /\ restarts > 0 /\ import'.there /\ restarts' = 1 =>
       /\ import.there /\ restarts = 1
       /\ dataJob = "over" \/ Len(import.logs) = Total => import'.logs = import.logs
       /\ dataJob = "over" => dataJob' = "over"

LEMMA StillGood ==
  ASSUME NEW d \in Runs, JobGood(d), run'[d] = run[d], ReportsStay, LogsStay,
         MayImport(d) /\ run[d].at \in {"idle", "create"} => import' = NoImport /\ restarts' = 0,
         run[d].at \in {"upload", "preview", "discard"} => import'.there
  PROVE  JobGood(d)'
<1>1. \A fine, bad : restarts > 0 /\ LogsAre(fine, bad) => restarts' > 0 /\ LogsAre(fine, bad)'
  BY DEF LogsAre, LogsStay
<1>2. ASSUME run[d].at = "logs"  PROVE  (LogsAre(run[d].st.success, run[d].st.failed) /\ Polled(run[d].st))'
  BY <1>1, <1>2 DEF JobGood, Polled, LogsStay, LogsAre
<1>3. ASSUME CommandEnded(d, {"ok", "partial", "died"})
      PROVE  /\ restarts' > 0 /\ LogsAre(run[d].good, run[d].bad)'
             /\ (run[d].exit = "ok" /\ import.there /\ restarts = 1 => run[d].good = Total)'
  BY <1>1, <1>3 DEF JobGood, LogsStay, LogsAre
<1>4. Old(d) => Old(d)'
  BY DEF Old, ReportsStay
<1>5. (CommandEnded(d, {"ok", "partial", "died"}) <=> CommandEnded(d, {"ok", "partial", "died"})')
      /\ (CommandEnded(d, {"result"}) <=> CommandEnded(d, {"result"})')
  BY DEF CommandEnded, CommandAt
<1>6. ASSUME CommandEnded(d, {"result"})
      PROVE  (/\ run[d].of \in DOMAIN reports
              /\ Matches(run[d].of, run[d].ask.filters) /\ reports[run[d].of].status = "done")'
  BY <1>6 DEF JobGood, Matches, ReportsStay
<1>7. run[d].at = "logs" => restarts' > 0
  BY DEF JobGood, LogsStay
<1> QED
  BY <1>2, <1>3, <1>4, <1>5, <1>6, <1>7 DEF JobGood

\* The command c moves and the site stays as it is.
LEMMA QuietMove ==
  ASSUME JobsInv, NEW c \in Runs, JobRuns', \A d \in Runs \ {c} : run'[d] = run[d],
         UNCHANGED <<marks, import, dataJob, restarts, reports, deaf>>, JobGood(c)',
         import.there /\ restarts = 0 /\ Minds(c) => Minds(c)'
  PROVE  JobsInv'
<1>1. JobSite'
  BY DEF JobsInv, JobSite, Over
<1>2. ASSUME NEW d \in Runs \ {c}  PROVE  JobGood(d)'
  <2>1. ReportsStay /\ LogsStay
    BY DEF ReportsStay, LogsStay
  <2> QED
    BY <1>2, <2>1, StillGood DEF JobsInv, JobEach, JobGood
<1>3. JobEach'
  BY <1>2 DEF JobEach
<1>4. JobLeft'
  <2>1. ASSUME NEW d \in Runs \ {c}, Minds(d)  PROVE  Minds(d)'
    BY <2>1 DEF Minds, CommandEnded, CommandAt
  <2> QED
    BY <2>1 DEF JobsInv, JobLeft
<1> QED
  BY <1>1, <1>3, <1>4 DEF JobsInv

\* A command that ends without a word of an import, or with one that minds it.
LEMMA QuietEnd ==
  ASSUME JobsInv, NEW c \in Runs, run[c].at \in Waits \cup {"logs"}, NEW exit \in Exits, CommandEnds(c, exit),
         UNCHANGED <<marks, import, dataJob, restarts, reports, deaf>>,
         \/ run[c].at \notin {"upload", "preview", "discard", "start"}
         \/ exit \in {"left", "ready", "blocked", "retry"}
  PROVE  JobsInv'
<1>1. run[c].ask.cmd = "import" => MayImport(c)
  BY DEF JobsInv, JobEach, JobGood, Waits
<1>2. JobRuns
  BY DEF JobsInv
<1>3. /\ JobRuns' /\ (\A d \in Runs \ {c} : run'[d] = run[d])
      /\ run'[c].at = "ended" /\ run'[c].exit = exit /\ run'[c].ask = run[c].ask
      /\ (run[c].ask.cmd = "import" => MayImport(c)) => JobGood(c)'
  BY <1>2, EndsThen
<1>4. Minds(c) => Minds(c)'
  BY <1>3 DEF Minds, CommandEnded, CommandAt, Waits
<1> QED
  BY <1>1, <1>3, <1>4, QuietMove
-----------------------------------------------------------------------------
\* A command goes on to another request, and the site stays as it is.
LEMMA QuietGo ==
  ASSUME JobsInv, NEW c \in Runs, run[c].at \in Waits, NEW where \in Waits, CommandTo(c, where),
         UNCHANGED <<marks, import, dataJob, restarts, reports, deaf>>,
         where # "create", run[c].at # "check" => where # "check",
         where \in {"upload", "preview", "discard"} => run[c].at \in {"upload", "preview", "discard"},
         where \in AtReport => run[c].ask.cmd = "report",
         where \in {"wait", "fetch"} /\ run[c].ask.fresh /\ ~run[c].ask.reuse => run[c].ask.name \notin run[c].had,
         run[c].at \in {"upload", "preview", "discard", "start"} => where \in {"upload", "preview", "discard", "start"}
  PROVE  JobsInv'
<1>1. JobRuns /\ JobGood(c)
  BY DEF JobsInv, JobEach
<1>2. GoesOn(c, where)
  BY <1>1, Moves
<1>3. JobGood(c)'
  <2>1. Old(c)'
    BY <1>1, <1>2 DEF GoesOn, JobGood, Old
  <2> QED
    BY <1>1, <1>2, <2>1 DEF GoesOn, JobGood, CommandEnded, CommandAt, Waits, AtReport
<1>4. Minds(c) => Minds(c)'
  BY <1>2 DEF GoesOn, Minds, CommandEnded, CommandAt, Waits
<1> QED
  BY <1>2, <1>3, <1>4, QuietMove DEF GoesOn

LEMMA StartCommandKeeps ==
  ASSUME JobsInv, NEW c \in Runs, NEW ask \in Asks[c], StartCommand(c, ask)
  PROVE  JobsInv'
<1> DEFINE where == CASE ask.cmd = "import" -> "create"
                      [] ask.cmd = "resume" -> "read"
                      [] ask.cmd = "report" /\ ask.name # 0 -> "check"
                      [] OTHER -> "first"
           done == {i \in DOMAIN reports : reports[i].status = "done"}
           r == [at |-> where, ask |-> ask, had |-> done]
<1>1. ask \in Imports \cup Reports
  BY AsksAreAsks
<1>2. ask \in AskTypes
  BY <1>1, NumbersAreNat DEF AskTypes, Reports
<1>3. \/ where = "create" /\ ask.cmd = "import"
      \/ where = "read" /\ ask.cmd = "resume"
      \/ where = "check" /\ ask.cmd = "report" /\ ~ask.fresh
      \/ where = "first" /\ ask.cmd = "report"
  <2>1. ASSUME ask.cmd = "import"  PROVE  where = "create"
    BY <2>1
  <2>2. ASSUME ask.cmd = "resume"  PROVE  where = "read"
    BY <2>2
  <2>3. ASSUME ask.cmd = "report", ask.name # 0  PROVE  where = "check"
    BY <2>3
  <2>4. ASSUME ask.cmd = "report", ask.name = 0  PROVE  where = "first"
    BY <2>4
  <2>5. ask.cmd = "import" \/ ask.cmd = "resume" \/ (ask.cmd = "report" /\ (ask.fresh => ask.name = 0))
    BY <1>1 DEF Imports, Reports
  <2> HIDE DEF where
  <2> QED
    BY <2>1, <2>2, <2>3, <2>4, <2>5
<1>4. done \in SUBSET Nat /\ JobRuns /\ JobGood(c)
  <2>1. reports \in Seq(Prepared)
    BY DEF JobsInv, JobSite
  <2>2. DOMAIN reports \in SUBSET Nat
    BY <2>1
  <2>3. done \in SUBSET Nat
    BY <2>2
  <2> QED
    BY <2>3 DEF JobsInv, JobEach
<1>5. r.at = where /\ r.ask = ask /\ r.had = done
  OBVIOUS
<1>6. r \in RunStates
  <2>1. where \in Waits
    BY <1>3 DEF Waits
  <2> HIDE DEF where, done
  <2> QED
    BY <1>2, <1>4, <2>1 DEF RunStates, RunAtWork
<1>7. run' = [run EXCEPT ![c] = r]
  BY DEF StartCommand
<1>8. run[c].at = "idle" /\ UNCHANGED <<marks, import, dataJob, restarts, reports, deaf>>
  BY DEF StartCommand, CommandAt
<1> HIDE DEF r, where
<1>9. JobRuns' /\ run'[c] = r /\ \A d \in Runs \ {c} : run'[d] = run[d]
  BY <1>4, <1>6, <1>7, RunBecomes
<1>10. JobGood(c)'
  <2>1. Old(c)'
    BY <1>5, <1>8, <1>9 DEF Old
  <2>2. ask.cmd = "import" => MayImport(c)
    BY DEF MayImport
  <2>3. MayImport(c) => import' = NoImport /\ restarts' = 0
    BY <1>4, <1>8 DEF JobGood
  <2> QED
    BY <1>3, <1>5, <1>9, <2>1, <2>2, <2>3 DEF JobGood, CommandEnded, CommandAt, AtReport
<1>11. ~Minds(c)
  BY <1>8 DEF Minds, CommandEnded, CommandAt
<1> QED
  BY <1>8, <1>9, <1>10, <1>11, QuietMove

\* A command that fails, says so.
LEMMA ItEnds ==
  ASSUME JobsInv, NEW c \in Runs, UNCHANGED <<marks, import, dataJob, restarts, reports, deaf>>,
         NEW exit \in Exits, CommandEnds(c, exit),
         run[c].at \in {"create", "read", "poll", "warnings", "check", "first", "find", "make", "wait", "fetch", "logs"}
  PROVE  JobsInv'
BY QuietEnd DEF Waits

LEMMA DataImportPreviewKeeps ==
  ASSUME JobsInv, NEW c \in Runs, DataImportPreview(c)
  PROVE  JobsInv'
<1>1. run[c].at = "preview" /\ UNCHANGED <<marks, import, dataJob, restarts, reports, deaf>>
  BY DEF DataImportPreview, CommandAt
<1>2. CASE \E where \in {"discard", "start"} : CommandTo(c, where)
  BY <1>1, <1>2, QuietGo DEF Waits, AtReport
<1>3. CASE \E exit \in {"blocked", "ready"} : CommandEnds(c, exit)
  BY <1>1, <1>3, QuietEnd DEF Waits, Exits
<1> QED
  BY <1>2, <1>3 DEF DataImportPreview

LEMMA ResumeDataImportKeeps ==
  ASSUME JobsInv, NEW c \in Runs, ResumeDataImport(c)
  PROVE  JobsInv'
<1>1. run[c].at = "read" /\ UNCHANGED <<marks, import, dataJob, restarts, reports, deaf>>
  BY DEF ResumeDataImport, CommandAt
<1>2. CASE \E where \in {"poll", "start"} : CommandTo(c, where)
  BY <1>1, <1>2, QuietGo DEF Waits, AtReport
<1>3. CASE \E exit \in {"failed", "blocked"} : CommandEnds(c, exit)
  BY <1>1, <1>3, ItEnds DEF Exits
<1> QED
  BY <1>2, <1>3 DEF ResumeDataImport

LEMMA PollWarningsKeeps ==
  ASSUME JobsInv, NEW c \in Runs, PollWarnings(c)
  PROVE  JobsInv'
<1>1. run[c].at = "warnings" /\ UNCHANGED <<marks, import, dataJob, restarts, reports, deaf>>
  BY DEF PollWarnings, CommandAt
<1>2. CASE CommandTo(c, "poll")
  BY <1>1, <1>2, QuietGo DEF Waits, AtReport
<1>3. CASE \E exit \in {"failed", "blocked", "waited"} : CommandEnds(c, exit)
  BY <1>1, <1>3, ItEnds DEF Exits
<1> QED
  BY <1>2, <1>3 DEF PollWarnings

LEMMA InterruptCommandKeeps ==
  ASSUME JobsInv, NEW c \in Runs, InterruptCommand(c)
  PROVE  JobsInv'
<1>1. /\ run[c].at \notin {"idle", "ended", "discard"}
      /\ UNCHANGED <<marks, import, dataJob, restarts, reports, deaf>>
  BY DEF InterruptCommand
<1>2. run[c].at \in Waits \cup {"logs"}
  <2>1. run[c] \in RunStates
    BY DEF JobsInv, JobRuns
  <2> QED
    BY <1>1, <2>1 DEF RunStates, RunAtWork, RunWithLogs, RunWithCounts, RunWithResult, RunEnded, NotRun
<1>3. CASE run[c].at \in {"upload", "preview"} /\ CommandTo(c, "discard")
  BY <1>1, <1>3, QuietGo DEF Waits, AtReport
<1>4. CASE run[c].at = "start" /\ CommandEnds(c, "retry")
  BY <1>1, <1>4, QuietEnd DEF Waits, Exits
<1>5. CASE run[c].at \notin {"upload", "preview", "start"} /\ CommandEnds(c, "interrupted")
  BY <1>1, <1>2, <1>5, QuietEnd DEF Exits
<1> QED
  BY <1>3, <1>4, <1>5 DEF InterruptCommand

LEMMA CheckPreparedKeeps ==
  ASSUME JobsInv, NEW c \in Runs, CheckPrepared(c)
  PROVE  JobsInv'
<1>1. run[c].at = "check" /\ UNCHANGED <<marks, import, dataJob, restarts, reports, deaf>>
  BY DEF CheckPrepared, CommandAt, ReportOnly
<1>2. JobGood(c)
  BY DEF JobsInv, JobEach
<1>3. CASE CommandTo(c, "wait")
  BY <1>1, <1>2, <1>3, QuietGo DEF JobGood, Waits, AtReport
<1>4. CASE \E exit \in {"failed", "refused"} : CommandEnds(c, exit)
  BY <1>1, <1>4, ItEnds DEF Exits
<1> QED
  BY <1>3, <1>4 DEF CheckPrepared

LEMMA WaitPreparedKeeps ==
  ASSUME JobsInv, NEW c \in Runs, WaitPrepared(c)
  PROVE  JobsInv'
<1>1. run[c].at = "wait" /\ UNCHANGED <<marks, import, dataJob, restarts, reports, deaf>>
  BY DEF WaitPrepared, CommandAt, ReportOnly
<1>2. JobGood(c)
  BY DEF JobsInv, JobEach
<1>3. CASE CommandTo(c, "fetch")
  BY <1>1, <1>2, <1>3, QuietGo DEF JobGood, Waits, AtReport
<1>4. CASE \E exit \in {"failed", "waited"} : CommandEnds(c, exit)
  BY <1>1, <1>4, ItEnds DEF Exits
<1> QED
  BY <1>3, <1>4 DEF WaitPrepared
-----------------------------------------------------------------------------
LEMMA AsksForAReport ==
  ASSUME JobsInv, NEW c \in Runs, run[c].at \in AtReport
  PROVE  /\ JobRuns /\ JobGood(c) /\ run[c] \in RunAtWork /\ run[c].ask.cmd = "report"
         /\ run[c].ask \in [cmd : {"report"}, filters : Filters, fresh : BOOLEAN, reuse : BOOLEAN, name : Nat]
         /\ reports \in Seq(Prepared) /\ DOMAIN reports = 1 .. Len(reports) /\ Len(reports) \in Nat
<1>1. JobRuns /\ JobGood(c) /\ reports \in Seq(Prepared)
  BY DEF JobsInv, JobEach, JobSite
<1>2. run[c] \in RunAtWork
  BY <1>1, RunIs DEF AtReport, Waits
<1>3. run[c].ask.cmd = "report" /\ run[c].ask \in AskTypes
  BY <1>1, <1>2 DEF JobGood, RunAtWork
<1>4. run[c].ask \notin Imports
  BY <1>3 DEF Imports
<1> QED
  BY <1>1, <1>2, <1>3, <1>4 DEF AskTypes

\* The newest of some reports.
LEMMA NewestOf ==
  ASSUME reports \in Seq(Prepared), NEW S \in SUBSET (DOMAIN reports), S # {}
  PROVE  Newest(S) \in S
<1>1. DOMAIN reports = 1 .. Len(reports) /\ Len(reports) \in Nat
  OBVIOUS
<1>2. S \in SUBSET Nat /\ \A i \in S : i <= Len(reports)
  BY <1>1
<1> QED
  BY <1>1, <1>2, NewestIs

\* A command ends with a result.
LEMMA AnswersKeeps ==
  ASSUME JobsInv, NEW c \in Runs, run[c].at \in {"first", "fetch"}, NEW i \in DOMAIN reports, Answers(c, i),
         UNCHANGED <<marks, import, dataJob, restarts, reports, deaf>>,
         Matches(i, run[c].ask.filters), reports[i].status = "done",
         run[c].ask.fresh /\ ~run[c].ask.reuse => i \notin run[c].had
  PROVE  JobsInv'
<1> DEFINE r == [at |-> "ended", ask |-> run[c].ask, exit |-> "result", of |-> i, had |-> run[c].had]
<1>1. /\ JobRuns /\ JobGood(c) /\ run[c] \in RunAtWork /\ run[c].ask.cmd = "report"
      /\ DOMAIN reports = 1 .. Len(reports) /\ Len(reports) \in Nat
  BY AsksForAReport DEF AtReport
<1>2. r \in RunWithResult
  BY <1>1 DEF RunAtWork, RunWithResult
<1>3. /\ r.at = "ended" /\ r.ask = run[c].ask /\ r.exit = "result" /\ r.of = i /\ r.had = run[c].had
      /\ r \in RunStates
  BY <1>2 DEF RunStates
<1>4. run' = [run EXCEPT ![c] = r]
  BY DEF Answers
<1> HIDE DEF r
<1>5. JobRuns' /\ run'[c] = r /\ \A d \in Runs \ {c} : run'[d] = run[d]
  BY <1>1, <1>3, <1>4, RunBecomes
<1>6. Matches(i, run[c].ask.filters)'  <=> reports[i].filters = run'[c].ask.filters
  BY DEF Matches
<1>7. JobGood(c)'
  BY <1>1, <1>3, <1>5, <1>6 DEF JobGood, CommandEnded, CommandAt, Waits, AtReport, Matches
<1>8. ~Minds(c)
  BY DEF Minds, CommandEnded, CommandAt
<1> QED
  BY <1>5, <1>7, <1>8, QuietMove

\* A command waits for a report.
LEMMA WaitsFor ==
  ASSUME JobsInv, NEW c \in Runs, run[c].at \in {"find", "make"}, NEW i \in Nat,
         run' = [run EXCEPT ![c].at = "wait", ![c].ask.name = i], i \notin run[c].had
  PROVE  /\ JobRuns' /\ (\A d \in Runs \ {c} : run'[d] = run[d])
         /\ run'[c].at = "wait" /\ run'[c].had = run[c].had /\ (Old(c)' => JobGood(c)')
<1> DEFINE ask == [run[c].ask EXCEPT !.name = i]
           r == [run[c] EXCEPT !.at = "wait", !.ask = ask]
<1>1. /\ JobRuns /\ JobGood(c) /\ run[c] \in RunAtWork
      /\ run[c].ask \in [cmd : {"report"}, filters : Filters, fresh : BOOLEAN, reuse : BOOLEAN, name : Nat]
  BY AsksForAReport DEF AtReport
<1>2. ask \in AskTypes /\ ask.cmd = "report" /\ ask.name = i
  BY <1>1 DEF AskTypes
<1>3. run' = [run EXCEPT ![c] = r]
  OBVIOUS
<1> HIDE DEF ask
<1>4. r \in RunAtWork /\ r.at = "wait" /\ r.ask = ask /\ r.had = run[c].had
  BY <1>1, <1>2 DEF RunAtWork, Waits
<1> HIDE DEF r
<1>5. JobRuns' /\ run'[c] = r /\ \A d \in Runs \ {c} : run'[d] = run[d]
  <2>1. r \in RunStates
    BY <1>4 DEF RunStates
  <2> QED
    BY <1>1, <1>3, <2>1, RunBecomes
<1>6. Old(c)' => JobGood(c)'
  BY <1>2, <1>4, <1>5 DEF JobGood, CommandEnded, CommandAt, AtReport
<1> QED
  BY <1>4, <1>5, <1>6

LEMMA FirstRunKeeps ==
  ASSUME JobsInv, NEW c \in Runs, FirstRun(c)
  PROVE  JobsInv'
<1> DEFINE ask == run[c].ask
           done == Completed(ask.filters)
<1>1. run[c].at = "first" /\ UNCHANGED <<marks, import, dataJob, restarts, reports, deaf>>
  BY DEF FirstRun, CommandAt, ReportOnly
<1>2. run[c].ask.cmd = "report" /\ reports \in Seq(Prepared)
  BY <1>1, AsksForAReport DEF AtReport
<1>3. CASE CommandTo(c, "find")
  BY <1>1, <1>2, <1>3, QuietGo DEF Waits, AtReport
<1>4. CASE CommandEnds(c, "failed")
  BY <1>1, <1>4, ItEnds DEF Exits
<1>5. CASE (~ask.fresh \/ ask.reuse) /\ done # {} /\ Answers(c, Newest(done))
  <2>1. Newest(done) \in done
    BY <1>2, <1>5, NewestOf DEF Completed
  <2>2. Newest(done) \in DOMAIN reports /\ Matches(Newest(done), ask.filters) /\ reports[Newest(done)].status = "done"
    BY <2>1 DEF Completed, Matches
  <2> QED
    BY <1>1, <1>5, <2>2, AnswersKeeps
<1> QED
  BY <1>3, <1>4, <1>5 DEF FirstRun

LEMMA FindQueuedKeeps ==
  ASSUME JobsInv, NEW c \in Runs, FindQueued(c)
  PROVE  JobsInv'
<1> DEFINE queued == Queued(run[c].ask.filters)
           i == Newest(queued)
<1>1. run[c].at = "find" /\ UNCHANGED <<marks, import, dataJob, restarts, reports, deaf>>
  BY DEF FindQueued, CommandAt, ReportOnly
<1>2. run[c].ask.cmd = "report" /\ reports \in Seq(Prepared) /\ JobGood(c) /\ run[c] \in RunAtWork
  BY <1>1, AsksForAReport DEF AtReport
<1>3. CASE CommandTo(c, "make")
  BY <1>1, <1>2, <1>3, QuietGo DEF Waits, AtReport
<1>4. CASE \E exit \in {"failed", "none"} : CommandEnds(c, exit)
  BY <1>1, <1>4, ItEnds DEF Exits
<1>5. CASE queued # {} /\ run' = [run EXCEPT ![c].at = "wait", ![c].ask.name = i]
  <2>1. i \in queued
    BY <1>2, <1>5, NewestOf DEF Queued
  <2>2. i \in DOMAIN reports /\ reports[i].status # "done"
    BY <2>1 DEF Queued
  <2>3. i \in Nat /\ Old(c)
    BY <1>1, <1>2, <2>2 DEF JobGood, Waits
  <2>4. i \notin run[c].had
    BY <2>2, <2>3 DEF Old
  <2> HIDE DEF i
  <2>5. /\ JobRuns' /\ (\A d \in Runs \ {c} : run'[d] = run[d])
        /\ run'[c].at = "wait" /\ run'[c].had = run[c].had /\ (Old(c)' => JobGood(c)')
    BY <1>1, <1>5, <2>3, <2>4, WaitsFor
  <2>6. Old(c)'
    BY <1>1, <2>3, <2>5 DEF Old
  <2>7. ~Minds(c)
    BY <1>1 DEF Minds, CommandEnded, CommandAt
  <2> QED
    BY <1>1, <2>5, <2>6, <2>7, QuietMove
<1> QED
  BY <1>3, <1>4, <1>5 DEF FindQueued

LEMMA FetchPreparedKeeps ==
  ASSUME JobsInv, NEW c \in Runs, FetchPrepared(c)
  PROVE  JobsInv'
<1> DEFINE i == run[c].ask.name
<1>1. run[c].at = "fetch" /\ UNCHANGED <<marks, import, dataJob, restarts, reports, deaf>>
  BY DEF FetchPrepared, CommandAt, ReportOnly
<1>2. JobGood(c)
  BY DEF JobsInv, JobEach
<1>3. CASE \E exit \in {"failed", "refused", "noresult"} : CommandEnds(c, exit)
  BY <1>1, <1>3, ItEnds DEF Exits
<1>4. CASE /\ i \in DOMAIN reports /\ reports[i].status = "done"
           /\ Matches(i, run[c].ask.filters) /\ Answers(c, i)
  BY <1>1, <1>2, <1>4, AnswersKeeps DEF JobGood, AtReport
<1> QED
  BY <1>3, <1>4 DEF FetchPrepared
-----------------------------------------------------------------------------
\* Only prepared reports change on the site.
LEMMA ReportsMove ==
  ASSUME JobsInv, reports' \in Seq(Prepared), ReportsStay, UNCHANGED <<marks, import, dataJob, restarts, deaf>>
  PROVE  /\ JobSite'
         /\ \A d \in Runs : run'[d] = run[d] => JobGood(d)' /\ (Minds(d) => Minds(d)')
<1>1. JobSite'
  BY DEF JobsInv, JobSite, Over
<1>2. LogsStay
  BY DEF LogsStay
<1>3. ASSUME NEW d \in Runs, run'[d] = run[d]  PROVE  JobGood(d)' /\ (Minds(d) => Minds(d)')
  <2>1. JobGood(d)
    BY DEF JobsInv, JobEach
  <2>2. JobGood(d)'
    BY <1>2, <1>3, <2>1, StillGood DEF JobGood
  <2>3. Minds(d) => Minds(d)'
    BY <1>3 DEF Minds, CommandEnded, CommandAt
  <2> QED
    BY <2>2, <2>3
<1> QED
  BY <1>1, <1>3

LEMMA ReportEndsKeeps ==
  ASSUME JobsInv, NEW i \in DOMAIN reports, ReportEnds(i)
  PROVE  JobsInv'
<1>1. PICK s \in {"done", "failed"} : reports' = [reports EXCEPT ![i].status = s]
  BY DEF ReportEnds
<1>2. /\ reports[i].status = "queued" /\ reports \in Seq(Prepared)
      /\ UNCHANGED <<marks, import, dataJob, restarts, run, deaf>>
  BY DEF ReportEnds, JobsInv, JobSite
<1> DEFINE r == [reports[i] EXCEPT !.status = s]
<1>3. reports[i] \in Prepared
  BY <1>2
<1>4. r \in Prepared /\ r.filters = reports[i].filters
  BY <1>3 DEF Prepared
<1>5. reports' = [reports EXCEPT ![i] = r]
  BY <1>1
<1> HIDE DEF r
<1>6. reports' \in Seq(Prepared)
  BY <1>2, <1>4, <1>5
<1>7. ReportsStay
  BY <1>2, <1>4, <1>5 DEF ReportsStay
<1>8. JobSite' /\ \A d \in Runs : JobGood(d)' /\ (Minds(d) => Minds(d)')
  BY <1>2, <1>6, <1>7, ReportsMove
<1> QED
  BY <1>2, <1>8 DEF JobsInv, JobRuns, JobEach, JobLeft

LEMMA MakePreparedKeeps ==
  ASSUME JobsInv, NEW c \in Runs, MakePrepared(c)
  PROVE  JobsInv'
<1> DEFINE n == Len(reports) + 1
           new == [filters |-> run[c].ask.filters, status |-> "queued"]
<1>1. run[c].at = "make" /\ UNCHANGED <<marks, import, dataJob, restarts, deaf>>
  BY DEF MakePrepared, CommandAt, ReportOnly
<1>2. /\ JobRuns /\ JobGood(c) /\ run[c] \in RunAtWork
      /\ run[c].ask \in [cmd : {"report"}, filters : Filters, fresh : BOOLEAN, reuse : BOOLEAN, name : Nat]
      /\ reports \in Seq(Prepared) /\ DOMAIN reports = 1 .. Len(reports) /\ Len(reports) \in Nat
  BY <1>1, AsksForAReport DEF AtReport
<1>3. CASE CommandEnds(c, "failed") /\ UNCHANGED reports
  BY <1>1, <1>3, ItEnds DEF Exits
<1>4. CASE reports' = Append(reports, new) /\ (CommandEnds(c, "failed")
                                                \/ run' = [run EXCEPT ![c].at = "wait", ![c].ask.name = n])
  <2>1. new \in Prepared
    BY <1>2 DEF Prepared
  <2> HIDE DEF new
  <2>2. reports' \in Seq(Prepared) /\ DOMAIN reports' = 1 .. n /\ \A i \in DOMAIN reports : reports'[i] = reports[i]
    BY <1>2, <1>4, <2>1
  <2>3. ReportsStay
    BY <1>2, <2>2 DEF ReportsStay
  <2>4. /\ JobSite'
        /\ \A d \in Runs : run'[d] = run[d] => JobGood(d)' /\ (Minds(d) => Minds(d)')
    BY <1>1, <2>2, <2>3, ReportsMove
  <2>5. JobRuns' /\ (\A d \in Runs \ {c} : run'[d] = run[d]) /\ JobGood(c)'
    <3>1. CASE CommandEnds(c, "failed")
      BY <1>1, <1>2, <3>1, EndsThen DEF Waits, Exits, JobGood
    <3>2. CASE run' = [run EXCEPT ![c].at = "wait", ![c].ask.name = n]
      <4>1. Old(c)
        BY <1>1, <1>2 DEF JobGood, Waits
      <4>2. n \in Nat /\ n \notin run[c].had
        BY <1>2, <4>1 DEF Old
      <4> HIDE DEF n
      <4>3. /\ JobRuns' /\ (\A d \in Runs \ {c} : run'[d] = run[d])
            /\ run'[c].had = run[c].had /\ (Old(c)' => JobGood(c)')
        BY <1>1, <3>2, <4>2, WaitsFor
      <4>4. Old(c)'
        BY <2>3, <4>1, <4>3 DEF Old, ReportsStay
      <4> QED
        BY <4>3, <4>4
    <3> QED
      BY <1>4, <3>1, <3>2
  <2>6. ~Minds(c)
    BY <1>1 DEF Minds, CommandEnded, CommandAt
  <2>7. JobEach'
    BY <2>4, <2>5 DEF JobEach
  <2>8. JobLeft'
    BY <1>1, <2>4, <2>5, <2>6 DEF JobsInv, JobLeft
  <2> QED
    BY <2>4, <2>5, <2>7, <2>8 DEF JobsInv
<1> QED
  BY <1>3, <1>4 DEF MakePrepared

-----------------------------------------------------------------------------
\* The command that makes the import, or may discard it, is the only one.
LEMMA OnlyOne ==
  ASSUME JobsInv, NEW c \in Runs, run[c].at \in {"create", "upload", "preview", "discard"}
  PROVE  /\ JobRuns /\ JobSite /\ JobGood(c) /\ run[c].ask.cmd = "import" /\ MayImport(c)
         /\ \A d \in Runs \ {c} : /\ JobGood(d) /\ ~MayImport(d)
                                  /\ run[d].at \notin {"create", "upload", "preview", "discard"}
<1>1. JobRuns /\ JobSite /\ \A d \in Runs : JobGood(d)
  BY DEF JobsInv, JobEach
<1>2. run[c].ask.cmd = "import" /\ MayImport(c)
  BY <1>1 DEF JobGood
<1>3. ASSUME NEW d \in Runs \ {c}  PROVE  ~MayImport(d)
  BY <1>2, OneImport
<1>4. ASSUME NEW d \in Runs \ {c}  PROVE  run[d].at \notin {"create", "upload", "preview", "discard"}
  BY <1>1, <1>3 DEF JobGood
<1> QED
  BY <1>1, <1>2, <1>3, <1>4

LEMMA NewDataImportKeeps ==
  ASSUME JobsInv, NEW c \in Runs, NewDataImport(c)
  PROVE  JobsInv'
<1>1. run[c].at = "create" /\ UNCHANGED <<marks, dataJob, restarts, reports>>
  BY DEF NewDataImport, CommandAt
<1>2. CASE CommandEnds(c, "refused") /\ UNCHANGED <<import, deaf>>
  BY <1>1, <1>2, ItEnds DEF Exits
<1>3. CASE /\ import' = Fresh
           /\ \/ CommandTo(c, "upload") /\ UNCHANGED deaf
              \/ CommandEnds(c, "lost") /\ deaf' = deaf \cup {c}
  <2>1. /\ JobRuns /\ JobSite /\ JobGood(c) /\ run[c].ask.cmd = "import" /\ MayImport(c)
        /\ \A d \in Runs \ {c} : /\ JobGood(d) /\ ~MayImport(d)
                                 /\ run[d].at \notin {"create", "upload", "preview", "discard"}
    BY <1>1, OnlyOne
  <2>2. import = NoImport /\ restarts = 0
    BY <1>1, <2>1 DEF JobGood
  <2>3. JobSite'
    BY <1>1, <1>3, <2>1, <2>2, NumbersAreNat DEF JobSite, Fresh, Imported, States, Over
  <2>4. ReportsStay /\ LogsStay
    BY <1>1, <2>2 DEF ReportsStay, LogsStay
  <2>5. JobRuns' /\ \A d \in Runs \ {c} : run'[d] = run[d]
    <3>1. CASE CommandTo(c, "upload")
      BY <1>1, <2>1, <3>1, Moves DEF GoesOn, Waits
    <3>2. CASE CommandEnds(c, "lost")
      BY <1>1, <2>1, <3>2, EndsThen DEF Exits, Waits
    <3> QED
      BY <1>3, <3>1, <3>2
  <2>6. JobGood(c)'
    <3>1. CASE CommandTo(c, "upload")
      <4>1. GoesOn(c, "upload")
        BY <1>1, <2>1, <3>1, Moves DEF Waits
      <4>2. Old(c)'
        BY <1>1, <2>1, <4>1 DEF JobGood, GoesOn, Old, Waits
      <4>3. import'.there
        BY <1>3 DEF Fresh
      <4> QED
        BY <2>1, <4>1, <4>2, <4>3 DEF JobGood, GoesOn, CommandEnded, CommandAt, AtReport
    <3>2. CASE CommandEnds(c, "lost")
      BY <1>1, <2>1, <3>2, EndsThen DEF Exits, Waits
    <3> QED
      BY <1>3, <3>1, <3>2
  <2>7. ASSUME NEW d \in Runs \ {c}  PROVE  JobGood(d)'
    BY <2>1, <2>4, <2>5, StillGood
  <2>8. JobLeft'
    <3>1. CASE CommandTo(c, "upload")
      BY <1>1, <2>1, <3>1, Moves DEF GoesOn, Waits, Minds, JobLeft
    <3>2. CASE deaf' = deaf \cup {c}
      BY <3>2 DEF JobLeft
    <3> QED
      BY <1>3, <3>1, <3>2
  <2> QED
    BY <2>3, <2>5, <2>6, <2>7, <2>8 DEF JobsInv, JobEach
<1> QED
  BY <1>2, <1>3 DEF NewDataImport

LEMMA GiveFileKeeps ==
  ASSUME JobsInv, NEW c \in Runs, GiveFile(c)
  PROVE  JobsInv'
<1>1. run[c].at = "upload" /\ UNCHANGED <<marks, dataJob, restarts, reports, deaf>>
  BY DEF GiveFile, CommandAt
<1>2. CASE UNCHANGED import /\ CommandTo(c, "discard")
  BY <1>1, <1>2, QuietGo DEF Waits, AtReport
<1>3. CASE import' = [import EXCEPT !.file = "parsed"] /\ \E where \in {"preview", "discard"} : CommandTo(c, where)
  <2>1. PICK where \in {"preview", "discard"} : CommandTo(c, where)
    BY <1>3
  <2>2. /\ JobRuns /\ JobSite /\ JobGood(c) /\ run[c].ask.cmd = "import" /\ MayImport(c)
        /\ \A d \in Runs \ {c} : /\ JobGood(d) /\ ~MayImport(d)
                                 /\ run[d].at \notin {"create", "upload", "preview", "discard"}
    BY <1>1, OnlyOne
  <2>3. import.there /\ import \in Imported
    <3>1. import.there
      BY <1>1, <2>2 DEF JobGood
    <3>2. import # NoImport
      BY <3>1 DEF NoImport
    <3> QED
      BY <2>2, <3>1, <3>2 DEF JobSite
  <2>4. /\ import' \in Imported /\ import'.there /\ import'.logs = import.logs
        /\ import'.status = import.status
    BY <1>3, <2>3 DEF Imported
  <2>5. JobSite'
    BY <1>1, <2>2, <2>3, <2>4 DEF JobSite, Over
  <2>6. ReportsStay /\ LogsStay
    BY <1>1, <2>3, <2>4 DEF ReportsStay, LogsStay
  <2>7. GoesOn(c, where)
    BY <1>1, <2>1, <2>2, Moves DEF Waits
  <2>8. ASSUME NEW d \in Runs \ {c}  PROVE  JobGood(d)'
    BY <2>2, <2>6, <2>7, StillGood DEF GoesOn
  <2>9. JobGood(c)'
    <3>1. Old(c)'
      BY <1>1, <2>2, <2>7 DEF JobGood, GoesOn, Old, Waits
    <3> QED
      BY <2>2, <2>4, <2>7, <3>1 DEF JobGood, GoesOn, CommandEnded, CommandAt, AtReport
  <2>10. JobLeft'
    BY <2>7 DEF GoesOn, JobLeft, Minds
  <2> QED
    BY <2>5, <2>7, <2>8, <2>9, <2>10 DEF JobsInv, JobEach, GoesOn
<1> QED
  BY <1>2, <1>3 DEF GiveFile

LEMMA DiscardDataImportKeeps ==
  ASSUME JobsInv, NEW c \in Runs, DiscardDataImport(c)
  PROVE  JobsInv'
<1>1. run[c].at = "discard" /\ UNCHANGED <<marks, restarts, reports, deaf>>
  BY DEF DiscardDataImport, CommandAt
<1>2. CASE UNCHANGED <<import, dataJob>> /\ CommandEnds(c, "left")
  BY <1>1, <1>2, QuietEnd DEF Waits, Exits
<1>3. CASE import' = NoImport /\ dataJob' = "none" /\ CommandEnds(c, "failed")
  <2>1. /\ JobRuns /\ JobSite /\ JobGood(c) /\ run[c].ask.cmd = "import" /\ MayImport(c)
        /\ \A d \in Runs \ {c} : /\ JobGood(d) /\ ~MayImport(d)
                                 /\ run[d].at \notin {"create", "upload", "preview", "discard"}
    BY <1>1, OnlyOne
  <2>2. ~import'.there
    BY <1>3 DEF NoImport
  <2>3. JobSite'
    BY <1>1, <1>3, <2>1, <2>2 DEF JobSite
  <2>4. ReportsStay /\ LogsStay
    BY <1>1, <2>2 DEF ReportsStay, LogsStay
  <2>5. JobRuns' /\ (\A d \in Runs \ {c} : run'[d] = run[d]) /\ JobGood(c)'
    BY <1>1, <1>3, <2>1, EndsThen DEF Waits, Exits
  <2>6. ASSUME NEW d \in Runs \ {c}  PROVE  JobGood(d)'
    BY <2>1, <2>4, <2>5, StillGood
  <2>7. JobLeft'
    BY <2>2 DEF JobLeft
  <2> QED
    BY <2>3, <2>5, <2>6, <2>7 DEF JobsInv, JobEach
<1> QED
  BY <1>2, <1>3 DEF DiscardDataImport
-----------------------------------------------------------------------------
LEMMA TheImport ==
  ASSUME JobsInv, import.there
  PROVE  /\ import \in Imported /\ import.logs \in Seq(BOOLEAN) /\ import.status \in States
         /\ Count(import.logs, TRUE) \in Nat /\ Count(import.logs, FALSE) \in Nat /\ Len(import.logs) \in Nat
         /\ Count(import.logs, TRUE) + Count(import.logs, FALSE) = Len(import.logs) /\ Len(import.logs) <= Total
<1>1. import # NoImport
  BY DEF NoImport
<1>2. import \in Imported /\ Len(import.logs) <= Total
  BY <1>1 DEF JobsInv, JobSite
<1>3. import.logs \in Seq(BOOLEAN) /\ import.status \in States
  BY <1>2 DEF Imported
<1>4. Len(import.logs) \in Nat
  BY <1>3
<1> QED
  BY <1>2, <1>3, <1>4, CountIs

LEMMA WasStarted ==
  ASSUME JobsInv, dataJob # "none"
  PROVE  restarts \in Nat /\ restarts > 0
<1>1. restarts \in Nat /\ (restarts = 0 => dataJob = "none")
  BY DEF JobsInv, JobSite
<1>2. restarts \in Nat /\ restarts # 0
  BY <1>1
<1> QED
  BY <1>2

\* The job's own steps: no command moves.
LEMMA JobMoves ==
  ASSUME JobsInv, import.there, import'.there, LogsStay, UNCHANGED <<marks, reports, run, deaf, restarts>>,
         JobSite', restarts > 0
  PROVE  JobsInv'
<1>1. ReportsStay
  BY DEF ReportsStay
<1>2. ASSUME NEW d \in Runs  PROVE  JobGood(d)'
  <2>1. JobGood(d)
    BY DEF JobsInv, JobEach
  <2>2. ~(MayImport(d) /\ run[d].at \in {"idle", "create"})
    BY <2>1 DEF JobGood, NoImport
  <2> QED
    BY <1>1, <2>1, <2>2, StillGood
<1>3. JobLeft'
  <2>1. restarts \in Nat
    BY DEF JobsInv, JobSite
  <2> QED
    BY <2>1 DEF JobLeft
<1> QED
  BY <1>2, <1>3 DEF JobsInv, JobRuns, JobEach

LEMMA JobTakesKeeps ==
  ASSUME JobsInv, JobTakes
  PROVE  JobsInv'
<1>1. /\ dataJob = "queued" /\ import.there /\ dataJob' \in {"running", "over"}
      /\ UNCHANGED <<marks, reports, run, deaf, restarts>>
  BY DEF JobTakes, SiteOnly
<1>2. JobSite /\ restarts \in Nat /\ restarts > 0 /\ import \in Imported
  <2>1. JobSite /\ import \in Imported
    BY <1>1, TheImport DEF JobsInv
  <2> QED
    BY <1>1, <2>1, WasStarted
<1>3. import' \in Imported /\ import'.there /\ import'.logs = import.logs
  BY <1>2 DEF JobTakes, Imported, States
<1>4. restarts = 1 => import.status = "Pending" /\ import.logs = <<>>
  BY <1>1, <1>2 DEF JobSite
<1>5. restarts = 1 /\ dataJob' = "running" => import'.status \in {"Pending", "In Progress"}
  BY <1>2, <1>4 DEF JobTakes, Imported
<1>6. restarts = 1 /\ dataJob' = "over" => import'.status = "Pending"
  BY <1>2, <1>4 DEF JobTakes, Imported
<1>7. JobSite'
  BY <1>1, <1>2, <1>3, <1>5, <1>6 DEF JobSite, Over
<1>8. LogsStay
  BY <1>1, <1>3 DEF LogsStay
<1> QED
  BY <1>1, <1>2, <1>3, <1>7, <1>8, JobMoves

LEMMA JobWritesKeeps ==
  ASSUME JobsInv, NEW ok \in BOOLEAN, JobWrites(ok)
  PROVE  JobsInv'
<1>1. /\ dataJob = "running" /\ import.there /\ Len(import.logs) < Total
      /\ UNCHANGED <<marks, reports, run, deaf, dataJob, restarts>>
  BY DEF JobWrites, SiteOnly
<1>2. JobSite /\ restarts \in Nat /\ restarts > 0 /\ import \in Imported
  <2>1. JobSite /\ import \in Imported
    BY <1>1, TheImport DEF JobsInv
  <2> QED
    BY <1>1, <2>1, WasStarted
<1>3. /\ import.logs \in Seq(BOOLEAN) /\ Len(import.logs) \in Nat
      /\ import.status \in States
  BY <1>1, TheImport
<1> DEFINE logs == Append(import.logs, ok)
           status == IF ok /\ ~marks THEN "Partial Success" ELSE import.status
<1>4. logs \in Seq(BOOLEAN) /\ Len(logs) = Len(import.logs) + 1
  BY <1>3
<1>5. Len(logs) <= Total
  <2> HIDE DEF logs
  <2> QED
    BY <1>1, <1>3, <1>4, NumbersAreNat
<1>6. status \in States /\ (status = import.status \/ (status = "Partial Success" /\ ~marks))
  BY <1>3 DEF States
<1>7. import' = [import EXCEPT !.logs = logs, !.status = status]
  BY DEF JobWrites
<1> HIDE DEF logs, status
<1>8. import' \in Imported /\ import'.there /\ import'.logs = logs /\ import'.status = status
  BY <1>2, <1>4, <1>6, <1>7 DEF Imported
<1>9. JobSite'
  BY <1>1, <1>2, <1>5, <1>6, <1>8 DEF JobSite
<1>10. LogsStay
  BY <1>1, <1>3, <1>8, NumbersAreNat DEF LogsStay
<1> QED
  BY <1>1, <1>2, <1>8, <1>9, <1>10, JobMoves

LEMMA JobEndsKeeps ==
  ASSUME JobsInv, JobEnds
  PROVE  JobsInv'
<1>1. /\ dataJob = "running" /\ import.there /\ dataJob' = "over"
      /\ UNCHANGED <<marks, reports, run, deaf, restarts>>
  BY DEF JobEnds, SiteOnly
<1>2. JobSite /\ restarts \in Nat /\ restarts > 0 /\ import \in Imported
  <2>1. JobSite /\ import \in Imported
    BY <1>1, TheImport DEF JobsInv
  <2> QED
    BY <1>1, <2>1, WasStarted
<1>3. FinalStatus(import.logs) \in States /\ Over(FinalStatus(import.logs), import.logs)
  BY DEF FinalStatus, States, Over
<1>4. PICK status \in States : /\ import' = [import EXCEPT !.status = status]
                               /\ restarts = 1 => Over(status, import.logs)
  <2>1. CASE import' = [import EXCEPT !.status = FinalStatus(import.logs)]
    BY <1>3, <2>1
  <2>2. CASE \E s \in {"Error", "Timed Out"} : import' = [import EXCEPT !.status = s]
    BY <2>2 DEF States, Over
  <2>3. CASE UNCHANGED import
    <3>1. import' = [import EXCEPT !.status = import.status] /\ import.status \in States
      BY <1>2, <2>3 DEF Imported
    <3>2. restarts = 1 => Over(import.status, import.logs)
      BY <1>1, <1>2 DEF JobSite, Over
    <3> QED
      BY <3>1, <3>2
  <2> QED
    BY <2>1, <2>2, <2>3 DEF JobEnds
<1>5. import' \in Imported /\ import'.there /\ import'.logs = import.logs /\ import'.status = status
  BY <1>2, <1>4 DEF Imported
<1>6. JobSite'
  <2>1. restarts = 1 => Over(import.status, import.logs)'
    BY <1>1, <1>4, <1>5 DEF Over
  <2> QED
    BY <1>1, <1>2, <1>5, <2>1 DEF JobSite
<1>7. LogsStay
  BY <1>1, <1>5 DEF LogsStay
<1> QED
  BY <1>1, <1>2, <1>5, <1>6, <1>7, JobMoves

LEMMA StartDataImportKeeps ==
  ASSUME JobsInv, NEW c \in Runs, StartDataImport(c)
  PROVE  JobsInv'
<1>1. run[c].at = "start" /\ UNCHANGED <<marks, reports, deaf>>
  BY DEF StartDataImport, CommandAt
<1>2. CASE CommandEnds(c, "retry") /\ UNCHANGED <<import, dataJob, restarts>>
  BY <1>1, <1>2, QuietEnd DEF Waits, Exits
<1>3. CASE /\ import.there
           /\ IF dataJob \in {"queued", "running"} THEN UNCHANGED <<import, dataJob, restarts>>
              ELSE /\ dataJob' = "queued" /\ restarts' = restarts + 1
                   /\ import' = [import EXCEPT !.logs = [i \in 1 .. Count(@, TRUE) |-> TRUE]]
           /\ CommandTo(c, "poll") \/ CommandEnds(c, "retry")
  <2>1. JobRuns /\ JobSite /\ JobGood(c) /\ restarts \in Nat /\ import \in Imported
    BY <1>3, TheImport DEF JobsInv, JobEach, JobSite
  <2>2. JobRuns' /\ (\A d \in Runs \ {c} : run'[d] = run[d]) /\ JobGood(c)'
    <3>1. CASE CommandTo(c, "poll")
      <4>1. GoesOn(c, "poll")
        BY <1>1, <2>1, <3>1, Moves DEF Waits
      <4>2. Old(c)'
        BY <1>1, <2>1, <4>1 DEF JobGood, GoesOn, Old, Waits
      <4> QED
        BY <1>1, <2>1, <4>1, <4>2 DEF JobGood, GoesOn, CommandEnded, CommandAt, AtReport
    <3>2. CASE CommandEnds(c, "retry")
      BY <1>1, <2>1, <3>2, EndsThen DEF Waits, Exits, JobGood
    <3> QED
      BY <1>3, <3>1, <3>2
  <2>3. LogsStay /\ JobSite' /\ restarts' > 0 /\ import'.there
    <3>1. CASE dataJob \in {"queued", "running"} /\ UNCHANGED <<import, dataJob, restarts>>
      <4>1. JobSite'
        BY <1>1, <2>1, <3>1 DEF JobSite, Over
      <4>2. LogsStay
        BY <3>1 DEF LogsStay
      <4> QED
        BY <1>3, <3>1, <4>1, <4>2, WasStarted
    <3>2. CASE /\ dataJob' = "queued" /\ restarts' = restarts + 1
               /\ import' = [import EXCEPT !.logs = [i \in 1 .. Count(@, TRUE) |-> TRUE]]
      <4> DEFINE n == Count(import.logs, TRUE)
                 logs == [i \in 1 .. n |-> TRUE]
      <4>1. n \in Nat /\ n <= Len(import.logs) /\ n <= Total
        <5> DEFINE b == Count(import.logs, FALSE)
                   l == Len(import.logs)
        <5>1. n \in Nat /\ b \in Nat /\ l \in Nat /\ n + b = l /\ l <= Total /\ Total \in Nat
          BY <1>3, TheImport, NumbersAreNat
        <5> HIDE DEF n, b, l
        <5>2. n <= l /\ n <= Total
          BY <5>1
        <5> QED
          BY <5>1, <5>2 DEF l
      <4>2. import' = [import EXCEPT !.logs = logs]
        BY <3>2
      <4>3. restarts = 0 => n = 0 /\ import.status = "Pending"
        <5>1. restarts = 0 => import.logs = <<>> /\ import.status = "Pending"
          BY <1>3, <2>1 DEF JobSite
        <5>2. import.logs = <<>> => Len(import.logs) = 0
          OBVIOUS
        <5> HIDE DEF n
        <5> QED
          BY <4>1, <5>1, <5>2
      <4> HIDE DEF n
      <4>4. logs \in Seq(BOOLEAN) /\ Len(logs) = n
        BY <4>1
      <4>5. n = 0 => logs = <<>>
        BY <4>4
      <4> HIDE DEF logs
      <4>6. import' \in Imported /\ import'.there /\ import'.logs = logs /\ import'.status = import.status
        BY <2>1, <4>2, <4>4 DEF Imported
      <4>7. restarts' \in Nat /\ restarts' > 0 /\ restarts' # 0 /\ (restarts' = 1 => restarts = 0)
        BY <2>1, <3>2
      <4>8. JobSite'
        <5>1. Len(import'.logs) <= Total
          BY <4>1, <4>4, <4>6
        <5>2. restarts' = 1 => import'.status = "Pending" /\ import'.logs = <<>>
          BY <4>3, <4>7, <4>5, <4>6
        <5>3. marks' \in BOOLEAN /\ dataJob' = "queued" /\ reports' \in Seq(Prepared)
          BY <1>1, <2>1, <3>2 DEF JobSite
        <5> QED
          BY <4>7, <4>6, <5>1, <5>2, <5>3 DEF JobSite
      <4>9. LogsStay
        BY <2>1, <3>2, <4>7 DEF LogsStay
      <4> QED
        BY <4>7, <4>6, <4>8, <4>9
    <3> QED
      BY <1>3, <3>1, <3>2
  <2>4. ReportsStay
    BY <1>1 DEF ReportsStay
  <2>5. ASSUME NEW d \in Runs \ {c}  PROVE  JobGood(d)'
    <3>1. JobGood(d)
      BY DEF JobsInv, JobEach
    <3>2. ~(MayImport(d) /\ run[d].at \in {"idle", "create"})
      BY <1>3, <3>1 DEF JobGood, NoImport
    <3> QED
      BY <2>2, <2>3, <2>4, <3>1, <3>2, StillGood
  <2>6. JobLeft'
    BY <2>3 DEF JobLeft
  <2> QED
    BY <2>2, <2>3, <2>5, <2>6 DEF JobsInv, JobEach
<1> QED
  BY <1>2, <1>3 DEF StartDataImport
-----------------------------------------------------------------------------
\* What a poll sees of a run that it takes for over.
LEMMA FinishedIsOver ==
  ASSUME JobsInv, import.there, Finished(import.status, Len(import.logs)),
         NEW st, st = [status |-> import.status, success |-> Count(import.logs, TRUE),
                       failed |-> Count(import.logs, FALSE)]
  PROVE  restarts > 0 /\ LogsAre(st.success, st.failed) /\ Polled(st) /\ st \in Polls
<1> DEFINE fine == Count(import.logs, TRUE)
           bad  == Count(import.logs, FALSE)
           n    == Len(import.logs)
<1>1. /\ import.status \in States /\ fine \in Nat /\ bad \in Nat /\ n \in Nat
      /\ fine + bad = n /\ n <= Total /\ Total \in Nat
  BY TheImport, NumbersAreNat
<1>2. JobSite /\ restarts \in Nat
  BY DEF JobsInv, JobSite
<1>3. import.status \in {"Success", "Error", "Timed Out", "Partial Success"}
  BY <1>1 DEF Finished, States
<1>4. restarts # 0
  BY <1>2, <1>3 DEF JobSite
<1>5. restarts > 0
  BY <1>2, <1>4
<1>6. ASSUME restarts = 1  PROVE  dataJob = "over" \/ (n = Total /\ dataJob = "running" /\ import.status = "Partial Success" /\ ~marks)
  <2>1. dataJob \in {"running", "over"}
    BY <1>2, <1>3, <1>6 DEF JobSite
  <2>2. ASSUME dataJob = "running"  PROVE  import.status = "Partial Success" /\ ~marks
    BY <1>2, <1>3, <1>6, <2>2 DEF JobSite
  <2>3. import.status = "Partial Success" /\ ~marks => n >= Total
    BY DEF Finished
  <2>4. n >= Total => n = Total
    <3>1. n \in Nat /\ n <= Total /\ Total \in Nat
      BY <1>1
    <3> HIDE DEF n
    <3> QED
      BY <3>1
  <2> HIDE DEF n
  <2> QED
    BY <2>1, <2>2, <2>3, <2>4
<1>7. ASSUME restarts = 1, import.status = "Success"  PROVE  fine = Total
  BY <1>2, <1>6, <1>7 DEF JobSite, Over
<1>8. ASSUME restarts = 1, import.status = "Partial Success", fine + bad < Total  PROVE  bad > 0
  <2>1. n < Total
    <3> HIDE DEF fine, bad, n
    <3> QED
      BY <1>1, <1>8
  <2>2. n # Total /\ ~(n >= Total)
    <3> HIDE DEF n
    <3> QED
      BY <1>1, <2>1
  <2>3. dataJob = "over"
    BY <1>6, <1>8, <2>2
  <2>4. marks
    BY <1>8, <2>2 DEF Finished
  <2> QED
    BY <1>2, <1>8, <2>3, <2>4 DEF JobSite, Over
<1>9. /\ st.status = import.status /\ st.success = fine /\ st.failed = bad
      /\ st \in Polls
  BY <1>1 DEF Polls
<1>10. LogsAre(fine, bad)
  BY <1>6 DEF LogsAre
<1> HIDE DEF fine, bad, n
<1>11. Polled(st)
  BY <1>3, <1>7, <1>8, <1>9 DEF Polled
<1> QED
  BY <1>5, <1>9, <1>10, <1>11

LEMMA PollStatusKeeps ==
  ASSUME JobsInv, NEW c \in Runs, PollStatus(c)
  PROVE  JobsInv'
<1> DEFINE logs == import.logs
           st == [status |-> import.status, success |-> Count(logs, TRUE), failed |-> Count(logs, FALSE)]
           r == [at |-> "logs", ask |-> run[c].ask, st |-> st]
<1>1. run[c].at = "poll" /\ UNCHANGED <<marks, import, dataJob, restarts, reports, deaf>>
  BY DEF PollStatus, CommandAt
<1>2. JobRuns /\ JobGood(c) /\ run[c].ask \in AskTypes
  <2>1. JobRuns /\ JobGood(c)
    BY DEF JobsInv, JobEach
  <2> QED
    BY <1>1, <2>1, RunIs
<1>3. CASE CommandTo(c, "warnings")
  BY <1>1, <1>3, QuietGo DEF Waits, AtReport
<1>4. CASE \E exit \in {"failed", "waited"} : CommandEnds(c, exit)
  BY <1>1, <1>4, ItEnds DEF Exits
<1>5. CASE UNCHANGED run
  BY <1>1, <1>5, <1>2, QuietMove DEF JobsInv, JobRuns, JobGood, Minds, CommandEnded, CommandAt, LogsAre, Polled, Old,
     Matches
<1>6. CASE import.there /\ Finished(import.status, Len(logs)) /\ run' = [run EXCEPT ![c] = r]
  <2>1. restarts > 0 /\ LogsAre(st.success, st.failed) /\ Polled(st) /\ st \in Polls
    BY <1>6, FinishedIsOver
  <2> HIDE DEF st
  <2>2. r \in RunStates /\ r.at = "logs" /\ r.ask = run[c].ask /\ r.st = st
    BY <1>2, <2>1 DEF RunStates, RunWithLogs
  <2> HIDE DEF r
  <2>3. JobRuns' /\ run'[c] = r /\ \A d \in Runs \ {c} : run'[d] = run[d]
    BY <1>2, <1>6, <2>2, RunBecomes
  <2>4. LogsAre(run[c].st.success, run[c].st.failed)' /\ Polled(run[c].st)'
    BY <1>1, <2>1, <2>2, <2>3 DEF LogsAre, Polled
  <2>5. JobGood(c)'
    BY <1>1, <1>2, <2>1, <2>2, <2>3, <2>4 DEF JobGood, CommandEnded, CommandAt, Waits, AtReport
  <2>6. ~Minds(c)
    BY <1>1 DEF Minds, CommandEnded, CommandAt
  <2> QED
    BY <1>1, <2>3, <2>5, <2>6, QuietMove
<1> QED
  BY <1>3, <1>4, <1>5, <1>6 DEF PollStatus

LEMMA ReportDataImportKeeps ==
  ASSUME JobsInv, NEW c \in Runs, ReportDataImport(c)
  PROVE  JobsInv'
<1> DEFINE st    == run[c].st
           short == st.success + st.failed > Len(import.logs)
           fine  == IF short THEN st.success ELSE Count(import.logs, TRUE)
           bad   == IF short THEN st.failed ELSE Count(import.logs, FALSE)
           exit  == IF Final(st) \in {"Error", "Timed Out"} /\ fine + bad < Total THEN "died"
                    ELSE IF bad > 0 THEN "partial" ELSE "ok"
           r     == [at |-> "ended", ask |-> run[c].ask, exit |-> exit, good |-> fine, bad |-> bad]
<1>1. run[c].at = "logs" /\ UNCHANGED <<marks, import, dataJob, restarts, reports, deaf>>
  BY DEF ReportDataImport, CommandAt
<1>2. JobRuns /\ JobGood(c) /\ run[c] \in RunWithLogs
  <2>1. JobRuns /\ JobGood(c)
    BY DEF JobsInv, JobEach
  <2> QED
    BY <1>1, <2>1, RunIs
<1>3. run[c].ask \in AskTypes /\ st \in Polls
  BY <1>2 DEF RunWithLogs
<1>4. CASE CommandEnds(c, "failed")
  BY <1>1, <1>4, ItEnds DEF Exits
<1>5. CASE import.there /\ run' = [run EXCEPT ![c] = r]
  <2> DEFINE a == Count(import.logs, TRUE)
             b == Count(import.logs, FALSE)
  <2>1. /\ a \in Nat /\ b \in Nat /\ Len(import.logs) \in Nat /\ a + b = Len(import.logs)
        /\ Len(import.logs) <= Total /\ Total \in Nat
    BY <1>5, TheImport, NumbersAreNat
  <2>2. st.success \in Nat /\ st.failed \in Nat
    BY <1>3 DEF Polls
  <2>3. fine \in Nat /\ bad \in Nat
    BY <2>1, <2>2
  <2>4. restarts > 0 /\ LogsAre(st.success, st.failed) /\ Polled(st)
    BY <1>1, <1>2 DEF JobGood
  <2>5. restarts = 1 => fine = a /\ bad = b /\ st.success = a /\ st.failed = b
    BY <1>5, <2>4 DEF LogsAre
  <2>6. LogsAre(fine, bad)
    BY <2>4, <2>5 DEF LogsAre
  <2>7. exit \in {"ok", "partial", "died"}
    OBVIOUS
  <2>8. ASSUME exit = "ok", restarts = 1  PROVE  fine = Total
    <3>1. fine = st.success /\ bad = st.failed
      BY <2>5, <2>8
    <3>2. ~(bad > 0)
      BY <2>8
    <3>3. ASSUME fine + bad < Total  PROVE  FALSE
      <4>1. Final(st) = st.status
        BY <3>1, <3>3 DEF Final
      <4>2. st.status \in {"Success", "Partial Success"}
        BY <2>4, <2>8, <3>3, <4>1 DEF Polled
      <4>3. st.status = "Success" => fine = Total
        BY <1>5, <2>4, <2>8, <3>1 DEF Polled
      <4>4. st.status = "Partial Success" => bad > 0
        BY <1>5, <2>4, <2>8, <3>1, <3>3 DEF Polled
      <4>5. fine # Total
        <5> HIDE DEF fine, bad
        <5> QED
          BY <2>1, <2>3, <3>3
      <4> QED
        BY <3>2, <4>2, <4>3, <4>4, <4>5
    <3>4. fine + bad <= Total
      <4>1. fine = a /\ bad = b
        BY <2>5, <2>8
      <4> HIDE DEF fine, bad, a, b
      <4> QED
        BY <2>1, <4>1
    <3> HIDE DEF fine, bad
    <3> QED
      BY <2>1, <2>3, <3>2, <3>3, <3>4
  <2> HIDE DEF st, short, fine, bad, exit, a, b
  <2>9. r \in RunStates
    BY <1>3, <2>3, <2>7 DEF RunStates, RunWithCounts
  <2>10. r.at = "ended" /\ r.ask = run[c].ask /\ r.exit = exit /\ r.good = fine /\ r.bad = bad
    OBVIOUS
  <2> HIDE DEF r
  <2>11. JobRuns' /\ run'[c] = r /\ \A d \in Runs \ {c} : run'[d] = run[d]
    BY <1>2, <1>5, <2>9, RunBecomes
  <2>12. LogsAre(run[c].good, run[c].bad)'
    BY <1>1, <2>6, <2>10, <2>11 DEF LogsAre
  <2>13. JobGood(c)'
    BY <1>1, <1>2, <2>4, <2>7, <2>8, <2>10, <2>11, <2>12 DEF JobGood, CommandEnded, CommandAt, Waits, AtReport
  <2>14. ~Minds(c)
    BY <1>1 DEF Minds, CommandEnded, CommandAt
  <2> QED
    BY <1>1, <2>11, <2>13, <2>14, QuietMove
<1> QED
  BY <1>4, <1>5 DEF ReportDataImport

-----------------------------------------------------------------------------
LEMMA JobsStart ==
  ASSUME JobInit
  PROVE  JobsInv
<1>1. JobRuns
  BY DEF JobInit, JobRuns, RunStates
<1>2. \A c \in Runs : run[c] = NotRun
  BY DEF JobInit
<1>3. JobSite
  <2>1. ASSUME NEW f \in Filters, NEW s \in {"queued", "done"}
        PROVE  <<[filters |-> f, status |-> s]>> \in Seq(Prepared)
    <3>1. [filters |-> f, status |-> s] \in Prepared
      BY DEF Prepared
    <3> QED
      BY <3>1
  <2>2. <<>> \in Seq(Prepared)
    OBVIOUS
  <2>3. reports \in Seq(Prepared)
    <3>1. reports = <<>> \/ \E f \in Filters, s \in {"queued", "done"} : reports = <<[filters |-> f, status |-> s]>>
      BY DEF JobInit
    <3> QED
      BY <2>1, <2>2, <3>1
  <2> QED
    BY <2>3 DEF JobInit, JobSite, NoImport
<1>4. JobEach
  <2>1. ASSUME NEW c \in Runs  PROVE  JobGood(c)
    <3>1. run[c].at = "idle"
      BY <1>2 DEF NotRun
    <3>2. import = NoImport /\ restarts = 0
      BY DEF JobInit
    <3> QED
      BY <3>1, <3>2 DEF JobGood, CommandEnded, CommandAt, Waits, AtReport
  <2> QED
    BY <2>1 DEF JobEach
<1>5. JobLeft
  BY DEF JobInit, JobLeft, NoImport
<1> QED
  BY <1>1, <1>3, <1>4, <1>5 DEF JobsInv

LEMMA JobsKeep ==
  ASSUME JobsInv, JobNext
  PROVE  JobsInv'
<1>1. ASSUME NEW c \in Runs, ImportStep(c)  PROVE  JobsInv'
  BY <1>1, NewDataImportKeeps, GiveFileKeeps, DataImportPreviewKeeps, DiscardDataImportKeeps, ResumeDataImportKeeps,
     StartDataImportKeeps, PollStatusKeeps, PollWarningsKeeps, ReportDataImportKeeps DEF ImportStep
<1>2. ASSUME NEW c \in Runs, ReportStep(c)  PROVE  JobsInv'
  BY <1>2, CheckPreparedKeeps, FirstRunKeeps, FindQueuedKeeps, MakePreparedKeeps, WaitPreparedKeeps,
     FetchPreparedKeeps DEF ReportStep
<1> QED
  BY <1>1, <1>2, StartCommandKeeps, InterruptCommandKeeps, JobTakesKeeps, JobEndsKeeps, JobWritesKeeps,
     ReportEndsKeeps DEF JobNext

LEMMA JobsAreToldThen ==
  ASSUME JobsInv
  PROVE  JobsAreTold
<1>1. ASSUME NEW c \in Runs, CommandEnded(c, {"ok", "partial", "died"}), import.there, restarts = 1
      PROVE  /\ run[c].good = Count(import.logs, TRUE) /\ run[c].bad = Count(import.logs, FALSE)
             /\ dataJob = "over" \/ run[c].good + run[c].bad = Total
             /\ run[c].exit = "ok" => run[c].good = Total
  BY <1>1, TheImport DEF JobsInv, JobEach, JobGood, LogsAre
<1>2. ASSUME import.there, restarts = 0, \A c \in Runs : run[c].at \in {"idle", "ended"}
      PROVE  deaf # {} \/ \E c \in Runs : CommandEnded(c, {"left", "ready", "blocked", "retry"})
  BY <1>2 DEF JobsInv, JobLeft, Minds
<1>3. ResultIsAskedFor
  BY DEF JobsInv, JobEach, JobGood, ResultIsAskedFor, Matches
<1> QED
  BY <1>1, <1>2, <1>3 DEF JobsAreTold, ImportIsReported

\* What a command tells of a job is what the job did: a report of an import
\* has the counts of a run that is over, whoever polls it and however the
\* release marks it, nothing is left behind without a word, and the result of
\* a prepared report is the one asked for (import_server.go, dataimport.go,
\* prepared.go).
THEOREM JobsTold == JobSpec => []JobsAreTold
<1>1. JobsInv /\ [JobNext]_siteJobVars => JobsInv'
  <2>1. ASSUME JobsInv, UNCHANGED siteJobVars  PROVE  JobsInv'
    <3>1. JobSite'
      BY <2>1 DEF siteJobVars, JobsInv, JobSite, Over
    <3>2. ReportsStay /\ LogsStay
      BY <2>1 DEF siteJobVars, ReportsStay, LogsStay
    <3>3. ASSUME NEW d \in Runs  PROVE  JobGood(d)'
      BY <2>1, <3>2, StillGood DEF siteJobVars, JobsInv, JobEach, JobGood
    <3> QED
      BY <2>1, <3>1, <3>3 DEF siteJobVars, JobsInv, JobRuns, JobEach, JobLeft, Minds, CommandEnded, CommandAt
  <2> QED
    BY <2>1, JobsKeep
<1> QED
  BY <1>1, JobsStart, JobsAreToldThen, PTL DEF JobSpec

-----------------------------------------------------------------------------
(***************************************************************************)
(* Reads into files, and files put on the site: the inductive invariant.   *)
(***************************************************************************)
SiteDocument == [name : Nat, key : Nat, rows : Nat]
ReaderStages == {"layout", "page", "rows", "write", "save", "rename", "get", "answer", "look", "send", "field", "over"}
ReaderFields == {"at", "exit", "want", "cols", "out", "start", "page", "first", "tries", "were", "gone"}
ReaderExits == {"none", "ok", "exists", "failed", "refused", "repeats", "cut", "lost", "uploaded"}
IsReader(r) ==
  /\ DOMAIN r = ReaderFields
  /\ r.at \in ReaderStages /\ r.exit \in ReaderExits /\ r.want \in ReaderWants /\ r.gone \in Nat

Ascends(items) == \A i, j \in DOMAIN items : i < j => items[i].name < items[j].name
FileTypes ==
  /\ list \in Seq(SiteDocument) /\ gone \in Nat /\ names \in Nat /\ there \in BOOLEAN /\ links \in BOOLEAN
  /\ DOMAIN reader = Readers
ListGood == Ascends(list) /\ \A i \in DOMAIN list : list[i].name <= names

\* The documents there were at first, while none was deleted.
FirstStay == Len(list) >= FirstDocs /\ \A i \in 1 .. FirstDocs : list[i].name = i

Pages == {"export", "pages"}
Paged == {"page", "rows", "write"}
Lists(r) == r.want.kind \in Pages /\ r.want.order = "default"
Beyond(items, n) == \A i \in DOMAIN items : items[i].name <= names /\ \A k \in DOMAIN list : k > n => items[i].name < list[k].name
SameAs(items, n) == n + Len(items) <= Len(list) /\ \A i \in DOMAIN items : items[i].name = list[n + i].name
PagesGood(r) ==
  /\ Lists(r) /\ r.at \in {"layout"} \cup Paged =>
       /\ r.out \in Seq(SiteDocument) /\ r.page \in Seq(SiteDocument) /\ r.start = Len(r.out)
       /\ r.at \in {"layout", "page"} => r.page = <<>>
       /\ Ascends(r.out) /\ Beyond(r.out, r.start)
       /\ Ascends(r.page) /\ Beyond(r.page, r.start + Len(r.page))
       /\ \A i \in DOMAIN r.out, j \in DOMAIN r.page : r.out[i].name < r.page[j].name
       /\ r.gone = gone => SameAs(r.out, 0) /\ SameAs(r.page, r.start)
       /\ r.gone = gone /\ r.at \in {"rows", "write"} /\ r.want.limit = 0 /\ Len(r.page) < PageSize =>
            FirstDocs <= r.start + Len(r.page)
  /\ Lists(r) /\ (r.at \in {"save", "rename"} \/ r.exit = "ok") =>
       /\ r.out \in Seq(SiteDocument) /\ Ascends(r.out)
       /\ r.gone = gone /\ r.want.limit = 0 => r.were \subseteq Ids(r.out)
  /\ r.at = "layout" => r.out = <<>> /\ r.page = <<>> /\ r.start = 0
  /\ r.gone <= gone /\ r.were = 1 .. FirstDocs /\ (r.gone = gone => FirstStay)

Columns(r) ==
  /\ \A f \in r.cols : f.kind = "data" /\ f.readable
  /\ \A p \in r.want.sel.fields : p.name # "*" => \E f \in r.cols : f.table = p.table /\ f.name = p.name
KindsAt(stage) ==
  CASE stage = "layout" -> {"export", "workbook"}
    [] stage \in Paged -> Pages
    [] stage \in {"get", "answer"} -> {"api", "workbook", "pdf", "download"}
    [] stage \in {"look", "send", "field"} -> {"upload"}
    [] stage \in {"save", "rename"} -> {"export", "pages", "api", "workbook", "pdf", "download"}
    [] OTHER -> {"export", "pages", "api", "workbook", "pdf", "download", "upload"}
FileGood(r) ==
  /\ r.want.kind \in KindsAt(r.at)
  /\ r.exit = "ok" => r.at = "over"
  /\ r.at = "rename" => ~links
  /\ (r.at \in {"save", "rename"} \/ r.exit = "ok") /\ r.want.kind \in {"pdf", "workbook"} =>
       r.out = <<"file">>
  /\ r.want.kind \in {"export", "workbook"} /\ r.at # "layout" /\ (r.at = "over" => r.exit = "ok") => Columns(r)
Sent(c) == \E f \in files : f.by = c
ReaderGood(c) ==
  IF ReaderAt(c, "idle") THEN ~Sent(c)
  ELSE /\ IsReader(reader[c]) /\ PagesGood(reader[c]) /\ FileGood(reader[c])
       /\ reader[c].at \in {"look", "send"} => ~Sent(c)
       /\ reader[c].at = "field" => Sent(c)
       /\ reader[c].at = "over" /\ reader[c].want.kind = "upload" => (Sent(c) <=> reader[c].exit \in {"ok", "uploaded", "lost"})
DiskGood == \A c \in Readers : disk.by = c => ReaderOver(c, "ok") /\ disk.out = reader[c].out

FilesInv == FileTypes /\ ListGood /\ DiskGood /\ \A c \in Readers : ReaderGood(c)

-----------------------------------------------------------------------------
LEMMA MinOfTwo ==
  ASSUME NEW a \in Int, NEW b \in Int
  PROVE  Min({a, b}) = IF a <= b THEN a ELSE b
BY DEF Min

\* A page of a list.
LEMMA PageIs ==
  ASSUME NEW items \in Seq(SiteDocument), NEW a \in Nat, NEW m \in Int, m <= Len(items)
  PROVE  LET page == SubSeq(items, a + 1, m)
         IN  /\ page \in Seq(SiteDocument) /\ Len(page) = (IF m > a THEN m - a ELSE 0)
             /\ \A i \in DOMAIN page : page[i] = items[a + i]
<1> DEFINE page == SubSeq(items, a + 1, m)
<1>1. CASE m > a
  <2>1. m - a \in Nat /\ m \in Nat
    BY <1>1
  <2>2. page = [i \in 1 .. (m - a) |-> items[a + i]]
    BY <1>1
  <2>3. \A i \in 1 .. (m - a) : a + i \in 1 .. Len(items)
    BY <2>1
  <2>4. \A i \in 1 .. (m - a) : items[a + i] \in SiteDocument
    BY <2>3
  <2>5. page \in Seq(SiteDocument) /\ Len(page) = m - a
    BY <2>1, <2>2, <2>4
  <2> QED
    BY <1>1, <2>2, <2>5
<1>2. CASE ~(m > a)
  <2>1. page = <<>>
    BY <1>2
  <2> QED
    BY <1>2, <2>1
<1> QED
  BY <1>1, <1>2

\* What a reader does when it ends.
EndsAs(c, exit) ==
  LET r == reader[c] IN
  /\ DOMAIN reader' = Readers /\ (\A d \in Readers \ {c} : reader'[d] = reader[d])
  /\ DOMAIN reader'[c] = DOMAIN r
  /\ reader'[c].at = "over" /\ reader'[c].exit = exit /\ reader'[c].want = r.want /\ reader'[c].cols = r.cols
  /\ reader'[c].out = r.out /\ reader'[c].were = r.were /\ reader'[c].gone = r.gone
LEMMA EndsThus ==
  ASSUME FileTypes, NEW c \in Readers, IsReader(reader[c]), NEW exit, ReaderEnds(c, exit)
  PROVE  EndsAs(c, exit)
BY DEF FileTypes, IsReader, ReaderFields, ReaderEnds, EndsAs

\* Where a reader goes.
GoesAs(c, stage) ==
  LET r == reader[c] IN
  /\ DOMAIN reader' = Readers /\ (\A d \in Readers \ {c} : reader'[d] = reader[d])
  /\ DOMAIN reader'[c] = DOMAIN r
  /\ reader'[c].at = stage /\ reader'[c].exit = r.exit /\ reader'[c].want = r.want /\ reader'[c].cols = r.cols
  /\ reader'[c].out = r.out /\ reader'[c].were = r.were /\ reader'[c].gone = r.gone
LEMMA GoesThus ==
  ASSUME FileTypes, NEW c \in Readers, IsReader(reader[c]), NEW stage, ReaderTo(c, stage)
  PROVE  GoesAs(c, stage)
BY DEF FileTypes, IsReader, ReaderFields, ReaderTo, GoesAs

-----------------------------------------------------------------------------
\* A reader moves, and the site stays.
LEMMA ReaderMovesAndSaves ==
  ASSUME FilesInv, NEW c \in Readers, DOMAIN reader' = Readers, \A d \in Readers \ {c} : reader'[d] = reader[d],
         UNCHANGED <<list, gone, names, there, links>>, \A d \in Readers \ {c} : Sent(d)' <=> Sent(d),
         ReaderGood(c)', DiskGood'
  PROVE  FilesInv'
<1>1. FileTypes' /\ ListGood'
  BY DEF FilesInv, FileTypes, ListGood, Ascends
<1>2. ASSUME NEW d \in Readers \ {c}  PROVE  ReaderGood(d)'
  <2>1. reader'[d] = reader[d] /\ ReaderGood(d) /\ (Sent(d)' <=> Sent(d))
    BY <1>2 DEF FilesInv
  <2>2. PagesGood(reader[d]) => PagesGood(reader[d])'
    BY <2>1 DEF PagesGood, Lists, Beyond, SameAs, FirstStay
  <2>3. FileGood(reader[d]) => FileGood(reader[d])'
    BY <2>1 DEF FileGood, Columns
  <2>4. IsReader(reader[d]) => IsReader(reader[d])'
    BY <2>1 DEF IsReader
  <2> QED
    BY <2>1, <2>2, <2>3, <2>4 DEF ReaderGood, ReaderAt
<1> QED
  BY <1>1, <1>2 DEF FilesInv

LEMMA ReaderMoves ==
  ASSUME FilesInv, NEW c \in Readers, DOMAIN reader' = Readers, \A d \in Readers \ {c} : reader'[d] = reader[d],
         UNCHANGED <<list, gone, names, there, links>>, \A d \in Readers \ {c} : Sent(d)' <=> Sent(d),
         ReaderGood(c)', reader[c].at # "over" /\ UNCHANGED disk
  PROVE  FilesInv'
<1>1. DiskGood'
  BY DEF FilesInv, DiskGood, ReaderOver, ReaderAt
<1> QED
  BY <1>1, ReaderMovesAndSaves

LEMMA ReaderIs ==
  ASSUME FilesInv, NEW c \in Readers, ~ReaderAt(c, "idle")
  PROVE  /\ FileTypes /\ IsReader(reader[c]) /\ PagesGood(reader[c]) /\ FileGood(reader[c])
         /\ reader[c].want \in ReaderWants /\ reader[c].want.kind \in KindsAt(reader[c].at)
         /\ reader[c].at \in {"look", "send"} => ~Sent(c)
         /\ reader[c].at = "field" => Sent(c)
BY DEF FilesInv, ReaderGood, IsReader, FileGood

LEMMA KindsAre ==
  /\ KindsAt("layout") = {"export", "workbook"} /\ (\A stage \in Paged : KindsAt(stage) = Pages)
  /\ \A stage \in {"get", "answer"} : KindsAt(stage) = {"api", "workbook", "pdf", "download"}
  /\ \A stage \in {"look", "send", "field"} : KindsAt(stage) = {"upload"}
  /\ \A stage \in {"save", "rename"} : KindsAt(stage) = {"export", "pages", "api", "workbook", "pdf", "download"}
  /\ \A want \in ReaderWants : want.kind \in KindsAt("over")
BY DEF KindsAt, Paged, ReaderWants

\* The other commands have sent what they had.
LEMMA OthersSent ==
  ASSUME NEW d \in Readers, UNCHANGED files
  PROVE  Sent(d)' <=> Sent(d)
BY DEF Sent

\* A reader that fails has no file, and an upload says what it left.
LEMMA ReaderFails ==
  ASSUME FilesInv, NEW c \in Readers, reader[c].at \in ReaderStages \ {"over"}, NEW exit \in ReaderExits \ {"ok"},
         ReaderEnds(c, exit), UNCHANGED <<list, gone, names, there, links, disk>>,
         \A d \in Readers \ {c} : Sent(d)' <=> Sent(d),
         reader[c].want.kind = "upload" => (Sent(c)' <=> exit \in {"uploaded", "lost"})
  PROVE  FilesInv'
<1>1. ~ReaderAt(c, "idle")
  BY DEF ReaderAt, ReaderStages
<1>2. /\ FileTypes /\ IsReader(reader[c]) /\ PagesGood(reader[c]) /\ FileGood(reader[c])
      /\ reader[c].want \in ReaderWants
  BY <1>1, ReaderIs
<1>3. EndsAs(c, exit)
  BY <1>2, EndsThus
<1>4. IsReader(reader[c])' /\ PagesGood(reader[c])'
  BY <1>2, <1>3 DEF EndsAs, IsReader, PagesGood, ReaderStages, FirstStay, Paged
<1>5. FileGood(reader[c])'
  BY <1>2, <1>3, KindsAre DEF EndsAs, FileGood
<1>6. ReaderGood(c)'
  BY <1>3, <1>4, <1>5 DEF EndsAs, ReaderGood, ReaderAt
<1> QED
  BY <1>3, <1>6, ReaderMoves DEF EndsAs

\* Of one that fails before anything is sent.
LEMMA ReaderFailsEarly ==
  ASSUME FilesInv, NEW c \in Readers, reader[c].at \in ReaderStages \ {"over", "field"},
         NEW exit \in ReaderExits \ {"ok", "uploaded", "lost"}, ReaderEnds(c, exit), SiteStays, UNCHANGED disk
  PROVE  FilesInv'
<1>1. ~ReaderAt(c, "idle")
  BY DEF ReaderAt, ReaderStages
<1>2. reader[c].want.kind \in KindsAt(reader[c].at) /\ (reader[c].at \in {"look", "send"} => ~Sent(c))
  BY <1>1, ReaderIs
<1>3. reader[c].want.kind = "upload" => reader[c].at \in {"look", "send"}
  BY <1>2, KindsAre DEF ReaderStages, Paged, Pages
<1>4. \A d \in Readers : Sent(d)' <=> Sent(d)
  BY OthersSent DEF SiteStays
<1> QED
  BY <1>2, <1>3, <1>4, ReaderFails DEF SiteStays

LEMMA LoadLayoutKeeps ==
  ASSUME FilesInv, NEW c \in Readers, LoadLayout(c)
  PROVE  FilesInv'
<1> DEFINE r == reader[c]
           sel == r.want.sel
           where == IF r.want.kind = "workbook" THEN "get" ELSE "page"
<1>1. r.at = "layout" /\ SiteStays /\ UNCHANGED disk
  BY DEF LoadLayout, ReaderAt
<1>2. /\ FileTypes /\ IsReader(r) /\ PagesGood(r) /\ FileGood(r) /\ r.want \in ReaderWants
      /\ r.want.kind \in {"export", "workbook"}
  BY <1>1, ReaderIs, KindsAre DEF ReaderAt
<1>3. CASE \E exit \in {"failed", "refused"} : ReaderEnds(c, exit)
  BY <1>1, <1>3, ReaderFailsEarly DEF ReaderStages, ReaderExits
<1>4. CASE ~PicksRefused(sel) /\ reader' = [reader EXCEPT ![c].cols = Layout(sel), ![c].at = where]
  <2>1. /\ DOMAIN reader' = Readers /\ \A d \in Readers \ {c} : reader'[d] = reader[d]
        /\ DOMAIN reader'[c] = ReaderFields /\ reader'[c].at = where /\ reader'[c].cols = Layout(sel)
        /\ reader'[c].exit = r.exit /\ reader'[c].want = r.want /\ reader'[c].out = r.out /\ reader'[c].gone = r.gone
        /\ reader'[c].start = r.start /\ reader'[c].page = r.page /\ reader'[c].were = r.were
    BY <1>2, <1>4 DEF FileTypes, IsReader, ReaderFields
  <2>2. Columns(reader[c])'
    <3>1. \A f \in Layout(sel) : f.kind = "data" /\ f.readable
      BY DEF Layout, May
    <3>2. ASSUME NEW p \in sel.fields, p.name # "*"  PROVE  \E f \in Layout(sel) : f.table = p.table /\ f.name = p.name
      <4>1. PICK f \in MetaFields : f.table = p.table /\ f.name = p.name /\ May(f)
        BY <1>4, <3>2 DEF PicksRefused
      <4>2. p.table \in {""} \cup Tables(sel)
        BY <1>4, <3>2 DEF PicksRefused
      <4>3. p.table \in Tables(sel) => Opens(p.table)
        BY <1>4, <3>2 DEF PicksRefused, Explicit
      <4>4. f \in Layout(sel)
        BY <3>2, <4>1, <4>2, <4>3 DEF Layout
      <4> QED
        BY <4>1, <4>4
    <3> QED
      BY <2>1, <3>1, <3>2 DEF Columns
  <2>3. PagesGood(reader[c])' /\ IsReader(reader[c])'
    <3>1. /\ <<>> \in Seq(SiteDocument) /\ Len(<<>>) = 0 /\ DOMAIN <<>> = {}
      OBVIOUS
    <3>2. r.out = <<>> /\ r.page = <<>> /\ r.start = 0 /\ r.exit # "ok"
      BY <1>1, <1>2 DEF PagesGood, FileGood
    <3> QED
      BY <1>1, <1>2, <2>1, <3>1, <3>2
         DEF SiteStays, PagesGood, IsReader, Lists, Ascends, Beyond, SameAs, FirstStay, ReaderStages, Paged
  <2>4. FileGood(reader[c])'
    BY <1>1, <1>2, <2>1, <2>2, KindsAre DEF FileGood, Paged, Pages
  <2>5. ReaderGood(c)'
    BY <2>1, <2>3, <2>4 DEF ReaderGood, ReaderAt
  <2> QED
    BY <1>1, <2>1, <2>5, ReaderMoves, OthersSent DEF SiteStays
<1> QED
  BY <1>1, <1>3, <1>4 DEF LoadLayout
-----------------------------------------------------------------------------
\* What reading and writing pages leave alone.
PageMove(c) ==
  LET r == reader[c] IN
  /\ DOMAIN reader' = Readers /\ (\A d \in Readers \ {c} : reader'[d] = reader[d])
  /\ DOMAIN reader'[c] = DOMAIN r /\ reader'[c].want = r.want /\ reader'[c].cols = r.cols
  /\ reader'[c].were = r.were /\ reader'[c].gone = r.gone

LEMMA PageMoves ==
  ASSUME FilesInv, NEW c \in Readers, reader[c].at \in Paged, PageMove(c), SiteStays, UNCHANGED disk,
         reader'[c].at \in Paged /\ reader'[c].exit = reader[c].exit, PagesGood(reader[c])'
  PROVE  FilesInv'
<1>1. ~ReaderAt(c, "idle")
  BY DEF ReaderAt, Paged
<1>2. /\ FileTypes /\ IsReader(reader[c]) /\ FileGood(reader[c]) /\ reader[c].want.kind \in Pages
  BY <1>1, ReaderIs, KindsAre
<1>3. IsReader(reader[c])'
  BY <1>2 DEF PageMove, IsReader, Paged, ReaderStages
<1>4. FileGood(reader[c])'
  BY <1>2, KindsAre DEF PageMove, FileGood, Columns, Paged, Pages
<1>5. ReaderGood(c)'
  BY <1>3, <1>4 DEF PageMove, ReaderGood, ReaderAt, Paged
<1> QED
  BY <1>5, ReaderMoves, OthersSent DEF PageMove, SiteStays, Paged

\* Where a page from the offset s ends in a list of l documents.
LEMMA PageNumbers ==
  ASSUME NEW s \in Nat, NEW l \in Nat, NEW size \in Int, NEW last \in Int, last <= l, last = l \/ last = s + size,
         NEW n \in Nat, n = IF last > s THEN last - s ELSE 0
  PROVE  /\ \A i \in 1 .. n : s + i \in 1 .. l /\ s + i > s
         /\ s <= l => s + n <= l
         /\ \A f \in Nat : s <= l /\ f <= l /\ n < size => f <= s + n
OBVIOUS

LEMMA ReadPageKeeps ==
  ASSUME FilesInv, NEW c \in Readers, ReadPage(c)
  PROVE  FilesInv'
<1> DEFINE r    == reader[c]
           last == Min({r.start + Size(c), Len(list)})
           page == SubSeq(Order(r.want, list), r.start + 1, last)
           where == IF r.want.kind = "export" /\ page # <<>> THEN "rows" ELSE "write"
<1>1. r.at = "page" /\ SiteStays /\ UNCHANGED disk
  BY DEF ReadPage, ReaderAt
<1>2. /\ FileTypes /\ IsReader(r) /\ PagesGood(r) /\ FileGood(r) /\ r.want \in ReaderWants
      /\ r.want.kind \in Pages
  BY <1>1, ReaderIs, KindsAre DEF ReaderAt, Paged
<1>3. CASE \E exit \in {"failed", "repeats"} : ReaderEnds(c, exit)
  BY <1>1, <1>3, ReaderFailsEarly DEF ReaderStages, ReaderExits
<1>4. CASE reader' = [reader EXCEPT ![c].page = page, ![c].first = IF page = <<>> THEN @ ELSE page[1],
                                    ![c].at = where]
  <2>1. /\ PageMove(c) /\ reader'[c].page = page /\ reader'[c].at = where /\ reader'[c].exit = r.exit
        /\ reader'[c].out = r.out /\ reader'[c].start = r.start
    BY <1>2, <1>4 DEF FileTypes, IsReader, ReaderFields, PageMove
  <2>2. ASSUME Lists(r)
        PROVE  /\ page \in Seq(SiteDocument) /\ Ascends(page) /\ Beyond(page, r.start + Len(page))
               /\ \A i \in DOMAIN r.out, j \in DOMAIN page : r.out[i].name < page[j].name
               /\ r.gone = gone => SameAs(page, r.start)
               /\ r.gone = gone /\ r.want.limit = 0 /\ Len(page) < PageSize => FirstDocs <= r.start + Len(page)
    <3>1. /\ list \in Seq(SiteDocument) /\ Len(list) \in Nat /\ r.out \in Seq(SiteDocument) /\ r.start = Len(r.out) /\ r.start \in Nat
          /\ DOMAIN list = 1 .. Len(list)
          /\ Beyond(r.out, r.start) /\ (r.gone = gone => SameAs(r.out, 0) /\ FirstStay)
          /\ ListGood
      BY <1>1, <1>2, <2>2 DEF PagesGood, Paged, FileTypes, FilesInv
    <3>2. Size(c) \in Int /\ (r.want.limit = 0 => Size(c) = PageSize)
      <4>1. r.want.limit \in Nat /\ PageSize \in Nat
        BY <1>2, SizesAreNat DEF ReaderWants
      <4>2. Len(r.out) \in Nat
        BY <3>1
      <4>3. r.want.limit - Len(r.out) \in Int /\ PageSize \in Int
        BY <4>1, <4>2
      <4> QED
        BY <4>1, <4>3, MinOfTwo DEF Size
    <3>3. last \in Int /\ last <= Len(list) /\ (last = Len(list) \/ last = r.start + Size(c))
      <4>1. r.start + Size(c) \in Int /\ Len(list) \in Int
        BY <3>1, <3>2
      <4>2. last = IF r.start + Size(c) <= Len(list) THEN r.start + Size(c) ELSE Len(list)
        BY <4>1, MinOfTwo
      <4> QED
        BY <4>1, <4>2
    <3>4. page = SubSeq(list, r.start + 1, last)
      BY <2>2 DEF Lists, Order
    <3> DEFINE n == Len(page)
    <3> HIDE DEF last, page
    <3>5. /\ page \in Seq(SiteDocument) /\ n = (IF last > r.start THEN last - r.start ELSE 0)
          /\ \A i \in DOMAIN page : page[i] = list[r.start + i]
      BY <3>1, <3>3, <3>4, PageIs
    <3>6. n \in Nat /\ DOMAIN page = 1 .. n
      BY <3>5
    <3>7. /\ \A i \in 1 .. n : r.start + i \in 1 .. Len(list) /\ r.start + i > r.start
          /\ r.start <= Len(list) => r.start + n <= Len(list)
          /\ \A f \in Nat : r.start <= Len(list) /\ f <= Len(list) /\ n < Size(c) => f <= r.start + n
      <4> HIDE DEF n, r
      <4> QED
        BY <3>1, <3>2, <3>3, <3>5, <3>6, PageNumbers DEF n
    <3> HIDE DEF n
    <3>8. Ascends(page)
      <4>1. ASSUME NEW i \in 1 .. n, NEW j \in 1 .. n, i < j  PROVE  page[i].name < page[j].name
        <5>1. r.start + i < r.start + j
          BY <3>1, <3>6, <4>1
        <5> QED
          BY <3>1, <3>5, <3>6, <3>7, <5>1 DEF ListGood, Ascends
      <4> QED
        BY <3>6, <4>1 DEF Ascends
    <3>9. Beyond(page, r.start + n)
      <4>1. ASSUME NEW i \in 1 .. n  PROVE  page[i].name <= names
        BY <3>1, <3>5, <3>6, <3>7 DEF ListGood
      <4>2. ASSUME NEW i \in 1 .. n, NEW k \in DOMAIN list, k > r.start + n  PROVE  page[i].name < list[k].name
        <5>1. r.start + i < k
          BY <3>1, <3>6, <4>2
        <5> QED
          BY <3>1, <3>5, <3>6, <3>7, <5>1 DEF ListGood, Ascends
      <4> QED
        BY <3>6, <4>1, <4>2 DEF Beyond
    <3>10. \A i \in DOMAIN r.out, j \in DOMAIN page : r.out[i].name < page[j].name
      BY <3>1, <3>5, <3>6, <3>7 DEF Beyond
    <3>11. r.gone = gone => SameAs(page, r.start)
      <4>1. r.gone = gone => r.start <= Len(list)
        BY <3>1 DEF SameAs
      <4>2. r.start <= Len(list) => r.start + Len(page) <= Len(list)
        BY <3>7 DEF n
      <4> QED
        BY <3>5, <4>1, <4>2 DEF SameAs
    <3>12. r.gone = gone /\ r.want.limit = 0 /\ n < PageSize => FirstDocs <= r.start + n
      <4>1. r.gone = gone => r.start <= Len(list) /\ FirstDocs <= Len(list)
        BY <3>1, SizesAreNat DEF SameAs, FirstStay
      <4> QED
        BY <3>2, <3>7, <4>1, SizesAreNat
    <3> QED
      BY <3>5, <3>8, <3>9, <3>10, <3>11, <3>12 DEF n
  <2>3. PagesGood(reader[c])'
    BY <1>1, <1>2, <2>1, <2>2 DEF PageMove, PagesGood, Lists, SiteStays, Ascends, Beyond, SameAs, FirstStay, Paged, FileGood
  <2>4. where \in Paged
    BY DEF Paged
  <2> QED
    BY <1>1, <2>1, <2>3, <2>4, PageMoves DEF Paged
<1> QED
  BY <1>1, <1>3, <1>4 DEF ReadPage

LEMMA ReadRowsKeeps ==
  ASSUME FilesInv, NEW c \in Readers, ReadRows(c)
  PROVE  FilesInv'
<1> DEFINE r == reader[c]
           rows(name) == {doc.rows : doc \in {d \in ToSet(list) : d.name = name}}
           now(name) == IF rows(name) = {} THEN 0 ELSE CHOOSE n \in rows(name) : TRUE
           page == [i \in DOMAIN r.page |-> [r.page[i] EXCEPT !.rows = now(r.page[i].name)]]
<1>1. r.at = "rows" /\ SiteStays /\ UNCHANGED disk
  BY DEF ReadRows, ReaderAt
<1>2. FileTypes /\ IsReader(r) /\ PagesGood(r) /\ FileGood(r)
  BY <1>1, ReaderIs DEF ReaderAt
<1>3. CASE ReaderEnds(c, "failed")
  BY <1>1, <1>3, ReaderFailsEarly DEF ReaderStages, ReaderExits
<1>4. CASE reader' = [reader EXCEPT ![c].page = page, ![c].at = "write"]
  <2>1. /\ PageMove(c) /\ reader'[c].page = page /\ reader'[c].at = "write" /\ reader'[c].exit = r.exit
        /\ reader'[c].out = r.out /\ reader'[c].start = r.start
    <3> HIDE DEF page
    <3> QED
      BY <1>2, <1>4 DEF FileTypes, IsReader, ReaderFields, PageMove
  <2>2. ASSUME Lists(r)
        PROVE  /\ page \in Seq(SiteDocument) /\ Len(page) = Len(r.page) /\ DOMAIN page = DOMAIN r.page
               /\ \A i \in DOMAIN page : page[i].name = r.page[i].name
    <3>1. r.page \in Seq(SiteDocument) /\ list \in Seq(SiteDocument)
      BY <1>1, <1>2, <2>2 DEF PagesGood, Paged, FileTypes
    <3>2. ASSUME NEW name  PROVE  now(name) \in Nat
      <4>1. \A d \in ToSet(list) : d \in SiteDocument
        BY <3>1 DEF ToSet
      <4>2. rows(name) \in SUBSET Nat
        BY <4>1 DEF SiteDocument
      <4> HIDE DEF rows
      <4> QED
        BY <4>2
    <3> HIDE DEF now
    <3>3. ASSUME NEW i \in DOMAIN r.page
          PROVE  [r.page[i] EXCEPT !.rows = now(r.page[i].name)] \in SiteDocument
                 /\ [r.page[i] EXCEPT !.rows = now(r.page[i].name)].name = r.page[i].name
      <4>1. r.page[i] \in SiteDocument
        BY <3>1
      <4> QED
        BY <3>2, <4>1 DEF SiteDocument
    <3>4. DOMAIN r.page = 1 .. Len(r.page) /\ Len(r.page) \in Nat
      BY <3>1
    <3> QED
      BY <3>3, <3>4
  <2> HIDE DEF page
  <2>3. PagesGood(reader[c])'
    BY <1>1, <1>2, <2>1, <2>2 DEF PageMove, PagesGood, Lists, SiteStays, Ascends, Beyond, SameAs, FirstStay, Paged, FileGood
  <2> QED
    BY <1>1, <2>1, <2>3, PageMoves DEF Paged
<1> QED
  BY <1>1, <1>3, <1>4 DEF ReadRows

\* What was read, with a page more.
LEMMA PageMore ==
  ASSUME NEW out \in Seq(SiteDocument), NEW page \in Seq(SiteDocument), Ascends(out), Ascends(page),
         \A i \in DOMAIN out, j \in DOMAIN page : out[i].name < page[j].name
  PROVE  LET all == out \o page
         IN  /\ all \in Seq(SiteDocument) /\ Ascends(all) /\ Len(all) = Len(out) + Len(page)
             /\ Len(out) \in Nat /\ Len(page) \in Nat
             /\ \A i \in DOMAIN all : \/ i \in DOMAIN out /\ all[i] = out[i]
                                      \/ \E j \in DOMAIN page : i = Len(out) + j /\ all[i] = page[j]
<1> DEFINE a == Len(out)
           b == Len(page)
           all == out \o page
<1>1. /\ all \in Seq(SiteDocument) /\ Len(all) = a + b /\ a \in Nat /\ b \in Nat
      /\ DOMAIN all = 1 .. (a + b) /\ DOMAIN out = 1 .. a /\ DOMAIN page = 1 .. b
  OBVIOUS
<1>2. \A i \in 1 .. (a + b) : all[i] = IF i <= a THEN out[i] ELSE page[i - a]
  OBVIOUS
<1> HIDE DEF a, b, all
<1>3. \A i \in 1 .. (a + b) : i \in Nat /\ (i <= a => i \in 1 .. a) /\ (~(i <= a) => i - a \in 1 .. b /\ i = a + (i - a))
  BY <1>1
<1>4. ASSUME NEW i \in 1 .. (a + b), NEW j \in 1 .. (a + b), i < j  PROVE  all[i].name < all[j].name
  <2>1. CASE j <= a
    <3>1. i <= a
      BY <1>1, <1>3, <1>4, <2>1
    <3> QED
      BY <1>1, <1>2, <1>3, <1>4, <2>1, <3>1 DEF Ascends
  <2>2. CASE i <= a /\ ~(j <= a)
    BY <1>1, <1>2, <1>3, <2>2
  <2>3. CASE ~(i <= a)
    <3>1. ~(j <= a) /\ i - a < j - a
      BY <1>1, <1>3, <1>4, <2>3
    <3> QED
      BY <1>1, <1>2, <1>3, <2>3, <3>1 DEF Ascends
  <2> QED
    BY <2>1, <2>2, <2>3
<1>5. Ascends(all)
  BY <1>1, <1>4 DEF Ascends
<1>6. ASSUME NEW i \in 1 .. (a + b)
      PROVE  \/ i \in DOMAIN out /\ all[i] = out[i]
             \/ \E j \in DOMAIN page : i = a + j /\ all[i] = page[j]
  BY <1>1, <1>2, <1>3
<1> QED
  BY <1>1, <1>5, <1>6 DEF all, a, b

LEMMA WritePageKeeps ==
  ASSUME FilesInv, NEW c \in Readers, WritePage(c)
  PROVE  FilesInv'
<1> DEFINE r == reader[c]
           all == r.out \o r.page
           n == r.start + Len(r.page)
           last == Len(r.page) < Size(c) \/ (r.want.limit > 0 /\ Len(all) >= r.want.limit)
           stage == IF ~last THEN "page" ELSE IF r.want.to = "file" THEN "save" ELSE "over"
           exit == IF last /\ r.want.to # "file" THEN "ok" ELSE r.exit
<1>1. r.at = "write" /\ SiteStays /\ UNCHANGED disk
  BY DEF WritePage, ReaderAt
<1>2. /\ FileTypes /\ IsReader(r) /\ PagesGood(r) /\ FileGood(r) /\ r.want \in ReaderWants
      /\ r.want.kind \in Pages /\ r.exit # "ok"
  BY <1>1, ReaderIs, KindsAre DEF ReaderAt, Paged, FileGood
<1>3. reader' = [reader EXCEPT ![c].out = all, ![c].start = n, ![c].page = <<>>, ![c].at = stage, ![c].exit = exit]
  BY DEF WritePage
<1>4. stage \in {"page", "save", "over"} /\ exit \in {r.exit, "ok"} /\ (exit = "ok" <=> stage = "over")
  BY <1>2
<1>5. stage # "page" /\ r.want.limit = 0 => Len(r.page) < PageSize
  BY <1>2 DEF Size, ReaderWants
<1> HIDE DEF stage, exit, last
<1>6. /\ PageMove(c) /\ reader'[c].page = <<>> /\ reader'[c].at = stage /\ reader'[c].exit = exit
      /\ reader'[c].out = all /\ reader'[c].start = n
  <2> HIDE DEF all, n
  <2> QED
    BY <1>2, <1>3 DEF FileTypes, IsReader, ReaderFields, PageMove
<1>7. ASSUME Lists(r)
      PROVE  /\ all \in Seq(SiteDocument) /\ Ascends(all) /\ n = Len(all) /\ Beyond(all, n)
             /\ r.gone = gone => SameAs(all, 0)
             /\ r.gone = gone /\ r.want.limit = 0 /\ stage # "page" => r.were \subseteq Ids(all)
  <2>1. /\ r.out \in Seq(SiteDocument) /\ r.page \in Seq(SiteDocument) /\ r.start = Len(r.out) /\ Ascends(r.out) /\ Ascends(r.page)
        /\ \A i \in DOMAIN r.out, j \in DOMAIN r.page : r.out[i].name < r.page[j].name
        /\ Beyond(r.out, r.start) /\ Beyond(r.page, n)
        /\ r.gone = gone => SameAs(r.out, 0) /\ SameAs(r.page, r.start)
        /\ r.gone = gone /\ r.want.limit = 0 /\ Len(r.page) < PageSize => FirstDocs <= n
        /\ r.were = 1 .. FirstDocs /\ (r.gone = gone => FirstStay)
    BY <1>1, <1>2, <1>7 DEF PagesGood, Paged
  <2>2. /\ all \in Seq(SiteDocument) /\ Ascends(all) /\ Len(all) = n /\ r.start \in Nat /\ Len(r.page) \in Nat
        /\ \A i \in DOMAIN all : \/ i \in DOMAIN r.out /\ all[i] = r.out[i]
                                 \/ \E j \in DOMAIN r.page : i = r.start + j /\ all[i] = r.page[j]
    <3> DEFINE out == r.out
               page == r.page
    <3>1. /\ out \in Seq(SiteDocument) /\ page \in Seq(SiteDocument) /\ r.start = Len(out) /\ Ascends(out) /\ Ascends(page)
          /\ \A i \in DOMAIN out, j \in DOMAIN page : out[i].name < page[j].name
      BY <2>1
    <3> HIDE DEF out, page
    <3>2. /\ out \o page \in Seq(SiteDocument) /\ Ascends(out \o page) /\ Len(out \o page) = Len(out) + Len(page)
          /\ Len(out) \in Nat /\ Len(page) \in Nat
          /\ \A i \in DOMAIN (out \o page) : \/ i \in DOMAIN out /\ (out \o page)[i] = out[i]
                                           \/ \E j \in DOMAIN page : i = Len(out) + j /\ (out \o page)[i] = page[j]
      BY <3>1, PageMore
    <3> QED
      BY <3>1, <3>2 DEF out, page
  <2>3. n \in Nat /\ n >= r.start /\ DOMAIN all = 1 .. n
    <3>1. n \in Nat /\ n >= r.start
      <4> HIDE DEF r
      <4> QED
        BY <2>2
    <3> HIDE DEF all, n
    <3> QED
      BY <2>2, <3>1
  <2>4. list \in Seq(SiteDocument) /\ DOMAIN list = 1 .. Len(list) /\ Len(list) \in Nat
    BY <1>2 DEF FileTypes
  <2> HIDE DEF all, n
  <2>5. \A k \in DOMAIN list : k > n => k > r.start
    BY <2>1, <2>3, <2>4
  <2>6. Beyond(all, n)
    BY <2>1, <2>2, <2>5 DEF Beyond
  <2>7. ASSUME r.gone = gone  PROVE  SameAs(all, 0)
    <3>1. n <= Len(list)
      BY <2>1, <2>7 DEF SameAs, n
    <3>2. ASSUME NEW i \in DOMAIN all  PROVE  all[i].name = list[0 + i].name
      <4>1. i \in Nat
        BY <2>3
      <4>2. 0 + i = i
        BY <4>1
      <4>3. CASE i \in DOMAIN r.out /\ all[i] = r.out[i]
        BY <2>1, <2>7, <4>2, <4>3 DEF SameAs
      <4>4. CASE \E j \in DOMAIN r.page : i = r.start + j /\ all[i] = r.page[j]
        BY <2>1, <2>7, <4>2, <4>4 DEF SameAs
      <4> QED
        BY <2>2, <4>3, <4>4
    <3> QED
      BY <2>2, <2>3, <3>1, <3>2 DEF SameAs
  <2>8. ASSUME r.gone = gone, r.want.limit = 0, stage # "page"  PROVE  r.were \subseteq Ids(all)
    <3>1. FirstDocs <= n /\ FirstStay
      BY <1>5, <2>1, <2>8
    <3>2. ASSUME NEW i \in 1 .. FirstDocs  PROVE  i \in Ids(all)
      <4>1. i \in 1 .. n /\ 0 + i = i
        BY <2>3, <3>1, SizesAreNat
      <4>2. all[i].name = list[i].name
        BY <2>3, <2>7, <2>8, <4>1 DEF SameAs
      <4>3. all[i].name = i
        BY <3>1, <4>2 DEF FirstStay
      <4> QED
        BY <2>3, <4>1, <4>3 DEF Ids
    <3> QED
      BY <2>1, <3>2
  <2> QED
    BY <2>2, <2>6, <2>7, <2>8
<1> HIDE DEF all, n
<1>8. PagesGood(reader[c])'
  <2>1. <<>> \in Seq(SiteDocument) /\ Len(<<>>) = 0 /\ DOMAIN <<>> = {}
    OBVIOUS
  <2>2. /\ Lists(reader[c])' <=> Lists(r)
        /\ (r.gone <= gone /\ r.were = 1 .. FirstDocs /\ (r.gone = gone => FirstStay))'
    BY <1>1, <1>2, <1>6 DEF PageMove, Lists, PagesGood, SiteStays, FirstStay
  <2>3. ASSUME Lists(r), stage = "page"
        PROVE  (LET q == reader[c] IN
                /\ q.out \in Seq(SiteDocument) /\ q.page \in Seq(SiteDocument) /\ q.start = Len(q.out) /\ q.page = <<>>
                /\ Ascends(q.out) /\ Beyond(q.out, q.start)
                /\ Ascends(q.page) /\ Beyond(q.page, q.start + Len(q.page))
                /\ \A i \in DOMAIN q.out, j \in DOMAIN q.page : q.out[i].name < q.page[j].name
                /\ q.gone = gone => SameAs(q.out, 0) /\ SameAs(q.page, q.start))'
    <3>1. n \in Nat /\ list \in Seq(SiteDocument)
      BY <1>2, <1>7, <2>3 DEF FileTypes
    <3>2. r.gone = gone => n <= Len(list)
      BY <1>7, <2>3, <3>1 DEF SameAs
    <3> QED
      BY <1>1, <1>6, <1>7, <2>1, <2>3, <3>1, <3>2 DEF PageMove, SiteStays, Ascends, Beyond, SameAs
  <2>4. ASSUME Lists(r), stage # "page"
        PROVE  (LET q == reader[c] IN
                q.out \in Seq(SiteDocument) /\ Ascends(q.out) /\ (q.gone = gone /\ q.want.limit = 0 => q.were \subseteq Ids(q.out)))'
    BY <1>1, <1>6, <1>7, <2>4 DEF PageMove, SiteStays, Ascends, Ids
  <2>5. reader'[c].at \in {"page", "save", "over"} /\ (reader'[c].exit = "ok" <=> reader'[c].at = "over")
    BY <1>4, <1>6
  <2> QED
    BY <1>6, <2>2, <2>3, <2>4, <2>5 DEF PageMove, PagesGood, Paged
<1>9. IsReader(reader[c])' /\ FileGood(reader[c])'
  <2>1. IsReader(reader[c])'
    BY <1>2, <1>4, <1>6 DEF PageMove, IsReader, ReaderStages, ReaderExits
  <2>2. reader'[c].want.kind \in KindsAt(reader'[c].at)
    BY <1>2, <1>4, <1>6, KindsAre DEF PageMove, Pages, Paged
  <2> QED
    BY <1>1, <1>2, <1>4, <1>6, <2>1, <2>2 DEF PageMove, FileGood, Columns, Pages
<1>10. ReaderGood(c)'
  BY <1>2, <1>4, <1>6, <1>8, <1>9 DEF PageMove, ReaderGood, ReaderAt, Pages
<1> QED
  BY <1>1, <1>6, <1>10, ReaderMoves, OthersSent DEF PageMove, SiteStays
-----------------------------------------------------------------------------
\* A command goes on that reads no pages.
LEMMA ReaderGoes ==
  ASSUME FilesInv, NEW c \in Readers, reader[c].at \in ReaderStages \ {"over"},
         NEW stage \in {"get", "answer", "look", "send", "field", "rename"}, GoesAs(c, stage),
         reader[c].want.kind \in KindsAt(stage), UNCHANGED <<list, gone, names, there, links, disk>>,
         \A d \in Readers \ {c} : Sent(d)' <=> Sent(d), stage = "send" \/ stage = "look" => ~Sent(c)', stage = "field" => Sent(c)',
         stage = "rename" => reader[c].at = "save" /\ ~links, stage # "rename" => reader[c].at # "layout"
  PROVE  FilesInv'
<1>1. ~ReaderAt(c, "idle")
  BY DEF ReaderAt, ReaderStages
<1>2. /\ FileTypes /\ IsReader(reader[c]) /\ PagesGood(reader[c]) /\ FileGood(reader[c])
      /\ reader[c].want \in ReaderWants
  BY <1>1, ReaderIs
<1>3. IsReader(reader[c])'
  BY <1>2 DEF GoesAs, IsReader, ReaderStages
<1>4. stage # "rename" => ~Lists(reader[c])
  BY KindsAre DEF Lists, Pages
<1>5. reader[c].exit # "ok"
  BY <1>2 DEF FileGood
<1>6. PagesGood(reader[c])'
  BY <1>2, <1>4, <1>5 DEF GoesAs, PagesGood, Lists, Paged, FirstStay, Ascends, Ids
<1>7. FileGood(reader[c])'
  BY <1>2, <1>5 DEF GoesAs, FileGood, Columns
<1>8. ReaderGood(c)'
  BY <1>3, <1>6, <1>7 DEF GoesAs, ReaderGood, ReaderAt
<1> QED
  BY <1>8, ReaderMoves DEF GoesAs

LEMMA FetchKeeps ==
  ASSUME FilesInv, NEW c \in Readers, Fetch(c)
  PROVE  FilesInv'
<1>1. reader[c].at = "get" /\ SiteStays /\ UNCHANGED disk
  BY DEF Fetch, ReaderAt
<1>2. FileTypes /\ IsReader(reader[c]) /\ reader[c].want.kind \in {"api", "workbook", "pdf", "download"}
  BY <1>1, ReaderIs, KindsAre DEF ReaderAt
<1>3. CASE ReaderEnds(c, "failed")
  BY <1>1, <1>3, ReaderFailsEarly DEF ReaderStages, ReaderExits
<1>4. CASE \E stage \in {"get", "answer"} : GoesAs(c, stage)
  BY <1>1, <1>2, <1>4, ReaderGoes, KindsAre, OthersSent DEF SiteStays, ReaderStages
<1>5. ASSUME reader' = [reader EXCEPT ![c].tries = @ + 1]  PROVE  GoesAs(c, "get")
  BY <1>1, <1>2, <1>5 DEF FileTypes, IsReader, ReaderFields, GoesAs
<1>6. ASSUME ReaderTo(c, "answer")  PROVE  GoesAs(c, "answer")
  BY <1>2, <1>6, GoesThus
<1> QED
  BY <1>3, <1>4, <1>5, <1>6 DEF Fetch

LEMMA TakeAnswerKeeps ==
  ASSUME FilesInv, NEW c \in Readers, TakeAnswer(c)
  PROVE  FilesInv'
<1> DEFINE r == reader[c]
           stage == IF r.want.to = "file" THEN "save" ELSE "over"
           exit == IF r.want.to = "file" THEN r.exit ELSE "ok"
<1>1. r.at = "answer" /\ SiteStays /\ UNCHANGED disk
  BY DEF TakeAnswer, ReaderAt
<1>2. /\ FileTypes /\ IsReader(r) /\ PagesGood(r) /\ FileGood(r) /\ r.want \in ReaderWants
      /\ r.want.kind \in {"api", "workbook", "pdf", "download"}
  BY <1>1, ReaderIs, KindsAre DEF ReaderAt
<1>3. PICK answer \in {"file", "page", "error", "cut"} :
        IF Accepted(r.want, answer)
        THEN reader' = [reader EXCEPT ![c].out = <<answer>>, ![c].at = stage, ![c].exit = exit]
        ELSE ReaderEnds(c, IF answer = "cut" THEN "cut" ELSE "refused")
  BY DEF TakeAnswer
<1>4. CASE ~Accepted(r.want, answer)
  BY <1>1, <1>3, <1>4, ReaderFailsEarly DEF ReaderStages, ReaderExits
<1>5. CASE Accepted(r.want, answer)
  <2>1. /\ DOMAIN reader' = Readers /\ (\A d \in Readers \ {c} : reader'[d] = reader[d])
        /\ DOMAIN reader'[c] = ReaderFields /\ reader'[c].at = stage /\ reader'[c].exit = exit
        /\ reader'[c].want = r.want /\ reader'[c].cols = r.cols /\ reader'[c].out = <<answer>>
        /\ reader'[c].were = r.were /\ reader'[c].gone = r.gone
    BY <1>2, <1>3, <1>5 DEF FileTypes, IsReader, ReaderFields
  <2>2. r.want.kind \in {"pdf", "workbook"} => answer = "file"
    BY <1>5 DEF Accepted
  <2>3. r.exit # "ok" /\ ~Lists(r)
    BY <1>1, <1>2 DEF FileGood, Lists, Pages
  <2>4. stage \in {"save", "over"} /\ (exit = "ok" <=> stage = "over") /\ exit \in ReaderExits
    BY <1>2, <2>3 DEF IsReader, ReaderExits
  <2> HIDE DEF stage, exit
  <2>5. IsReader(reader[c])'
    BY <1>2, <2>1, <2>4 DEF IsReader, ReaderStages
  <2>6. PagesGood(reader[c])'
    BY <1>1, <1>2, <2>1, <2>3, <2>4 DEF PagesGood, Lists, Paged, FirstStay, SiteStays
  <2>7. reader'[c].want.kind \in KindsAt(reader'[c].at)
    BY <1>2, <2>1, <2>4, KindsAre
  <2>8. FileGood(reader[c])'
    BY <1>1, <1>2, <2>1, <2>2, <2>4, <2>7 DEF FileGood, Columns
  <2>9. ReaderGood(c)'
    BY <1>2, <2>1, <2>4, <2>5, <2>6, <2>8 DEF ReaderGood, ReaderAt
  <2> QED
    BY <1>1, <2>1, <2>9, ReaderMoves, OthersSent DEF SiteStays
<1> QED
  BY <1>4, <1>5

-----------------------------------------------------------------------------
\* A command that has written its file.
LEMMA ReaderSaves ==
  ASSUME FilesInv, NEW c \in Readers, reader[c].at \in {"save", "rename"}, disk' = ReaderResult(c), ReaderEnds(c, "ok"),
         SiteStays
  PROVE  FilesInv'
<1>1. ~ReaderAt(c, "idle")
  BY DEF ReaderAt
<1>2. /\ FileTypes /\ IsReader(reader[c]) /\ PagesGood(reader[c]) /\ FileGood(reader[c])
      /\ reader[c].want \in ReaderWants /\ reader[c].want.kind # "upload"
  BY <1>1, ReaderIs, KindsAre
<1>3. EndsAs(c, "ok")
  BY <1>2, EndsThus
<1>4. IsReader(reader[c])'
  BY <1>2, <1>3 DEF EndsAs, IsReader, ReaderStages, ReaderExits
<1>5. PagesGood(reader[c])'
  BY <1>2, <1>3 DEF EndsAs, PagesGood, Lists, Paged, FirstStay, Ascends, Ids, SiteStays
<1>6. FileGood(reader[c])'
  BY <1>2, <1>3, KindsAre DEF EndsAs, FileGood, Columns, SiteStays
<1>7. ReaderGood(c)'
  BY <1>2, <1>3, <1>4, <1>5, <1>6 DEF EndsAs, ReaderGood, ReaderAt
<1>8. DiskGood'
  BY <1>3 DEF EndsAs, DiskGood, ReaderResult, ReaderOver, ReaderAt
<1> QED
  BY <1>3, <1>7, <1>8, ReaderMovesAndSaves, OthersSent DEF EndsAs, SiteStays

LEMMA MoveIntoKeeps ==
  ASSUME FilesInv, NEW c \in Readers, MoveInto(c)
  PROVE  FilesInv'
<1>1. reader[c].at = "save" /\ SiteStays
  BY DEF MoveInto, ReaderAt
<1>2. FileTypes /\ IsReader(reader[c]) /\ reader[c].want.kind \in KindsAt("save")
  BY <1>1, ReaderIs DEF ReaderAt
<1>3. CASE disk' = ReaderResult(c) /\ ReaderEnds(c, "ok")
  BY <1>1, <1>3, ReaderSaves
<1>4. CASE UNCHANGED disk /\ \E exit \in {"failed", "exists"} : ReaderEnds(c, exit)
  BY <1>1, <1>4, ReaderFailsEarly DEF ReaderStages, ReaderExits
<1>5. CASE UNCHANGED disk /\ ~links /\ ReaderTo(c, "rename")
  <2>1. GoesAs(c, "rename")
    BY <1>2, <1>5, GoesThus
  <2>2. reader[c].want.kind \in KindsAt("rename")
    BY <1>2, KindsAre
  <2> QED
    BY <1>1, <1>5, <2>1, <2>2, ReaderGoes, OthersSent DEF SiteStays, ReaderStages
<1> QED
  BY <1>3, <1>4, <1>5 DEF MoveInto

LEMMA RenameKeeps ==
  ASSUME FilesInv, NEW c \in Readers, Rename(c)
  PROVE  FilesInv'
BY ReaderSaves DEF Rename, ReaderAt

\* An existing output file is replaced by --force only, where there are links.
LEMMA OnlyForcedStep ==
  ASSUME FilesInv, FileNext
  PROVE  OnlyForced
<1>1. CASE UNCHANGED disk
  BY <1>1 DEF OnlyForced
<1>2. ASSUME NEW c \in Readers, MoveInto(c)  PROVE  OnlyForced
  BY <1>2 DEF MoveInto, OnlyForced, ReaderResult
<1>3. ASSUME NEW c \in Readers, Rename(c)  PROVE  OnlyForced
  <2>1. reader[c].at = "rename"
    BY <1>3 DEF Rename, ReaderAt
  <2>2. ~links
    BY <2>1, ReaderIs DEF ReaderAt, FileGood
  <2> QED
    BY <2>2 DEF OnlyForced
<1>4. ASSUME NEW c \in Readers, \/ \E want \in Wants[c] : StartReader(c, want)
                                \/ LoadLayout(c) \/ ReadPage(c) \/ ReadRows(c) \/ WritePage(c)
                                \/ Fetch(c) \/ TakeAnswer(c) \/ LookForDoc(c) \/ UploadFile(c) \/ SetField(c)
      PROVE  UNCHANGED disk
  BY <1>4 DEF StartReader, LoadLayout, ReadPage, ReadRows, WritePage, Fetch, TakeAnswer, LookForDoc, UploadFile, SetField
<1>5. ChangeList \/ (\E i \in DOMAIN list : Touch(i)) => UNCHANGED disk
  BY DEF ChangeList, Touch
<1> QED
  BY <1>1, <1>2, <1>3, <1>4, <1>5 DEF FileNext

-----------------------------------------------------------------------------
\* An upload that ends well, or is told of.
LEMMA UploadEnds ==
  ASSUME FilesInv, NEW c \in Readers, reader[c].at \in {"send", "field"}, ReaderEnds(c, "ok"),
         UNCHANGED <<list, gone, names, there, links, disk>>, \A d \in Readers \ {c} : Sent(d)' <=> Sent(d), Sent(c)'
  PROVE  FilesInv'
<1>1. ~ReaderAt(c, "idle")
  BY DEF ReaderAt
<1>2. /\ FileTypes /\ IsReader(reader[c]) /\ PagesGood(reader[c])
      /\ reader[c].want \in ReaderWants /\ reader[c].want.kind = "upload"
  BY <1>1, ReaderIs, KindsAre
<1>3. EndsAs(c, "ok")
  BY <1>2, EndsThus
<1>4. IsReader(reader[c])'
  BY <1>2, <1>3 DEF EndsAs, IsReader, ReaderStages, ReaderExits
<1>5. PagesGood(reader[c])'
  BY <1>2, <1>3 DEF EndsAs, PagesGood, Lists, Pages, Paged, FirstStay
<1>6. FileGood(reader[c])'
  BY <1>2, <1>3, KindsAre DEF EndsAs, FileGood
<1>7. ReaderGood(c)'
  BY <1>3, <1>4, <1>5, <1>6 DEF EndsAs, ReaderGood, ReaderAt
<1> QED
  BY <1>3, <1>7, ReaderMoves DEF EndsAs

LEMMA LookForDocKeeps ==
  ASSUME FilesInv, NEW c \in Readers, LookForDoc(c)
  PROVE  FilesInv'
<1>1. reader[c].at = "look" /\ SiteStays /\ UNCHANGED disk
  BY DEF LookForDoc, ReaderAt
<1>2. FileTypes /\ IsReader(reader[c]) /\ reader[c].want.kind \in KindsAt("send") /\ ~Sent(c)
  BY <1>1, ReaderIs, KindsAre DEF ReaderAt
<1>3. CASE ReaderEnds(c, "failed")
  BY <1>1, <1>3, ReaderFailsEarly DEF ReaderStages, ReaderExits
<1>4. CASE ReaderTo(c, "send")
  <2>1. GoesAs(c, "send")
    BY <1>2, <1>4, GoesThus
  <2> QED
    BY <1>1, <1>2, <2>1, ReaderGoes, OthersSent DEF SiteStays, ReaderStages
<1> QED
  BY <1>3, <1>4 DEF LookForDoc

LEMMA UploadFileKeeps ==
  ASSUME FilesInv, NEW c \in Readers, UploadFile(c)
  PROVE  FilesInv'
<1>1. reader[c].at = "send" /\ UNCHANGED <<list, gone, names, linked, there, disk, links>>
  BY DEF UploadFile, ReaderAt
<1>2. FileTypes /\ IsReader(reader[c]) /\ reader[c].want.kind \in KindsAt("field") /\ ~Sent(c)
  BY <1>1, ReaderIs, KindsAre DEF ReaderAt
<1>3. CASE ReaderEnds(c, "failed") /\ UNCHANGED files
  BY <1>1, <1>3, ReaderFailsEarly DEF ReaderStages, ReaderExits, SiteStays
<1>4. CASE files' = files \cup {[by |-> c, attached |-> there]}
  <2>1. Sent(c)' /\ \A d \in Readers \ {c} : Sent(d)' <=> Sent(d)
    <3> DEFINE new == [by |-> c, attached |-> there]
    <3>1. new.by = c /\ files' = files \cup {new}
      BY <1>4
    <3> HIDE DEF new
    <3>2. Sent(c)'
      BY <3>1 DEF Sent
    <3>3. ASSUME NEW d \in Readers \ {c}  PROVE  Sent(d)' <=> Sent(d)
      BY <3>1, <3>3 DEF Sent
    <3> QED
      BY <3>2, <3>3
  <2>2. CASE ReaderEnds(c, "lost")
    BY <1>1, <2>1, <2>2, ReaderFails DEF ReaderStages, ReaderExits
  <2>3. CASE ReaderTo(c, "field")
    <3>1. GoesAs(c, "field")
      BY <1>2, <2>3, GoesThus
    <3> QED
      BY <1>1, <1>2, <2>1, <3>1, ReaderGoes DEF ReaderStages
  <2>4. CASE ReaderEnds(c, "ok")
    BY <1>1, <2>1, <2>4, UploadEnds
  <2> QED
    BY <1>3, <2>2, <2>3, <2>4 DEF UploadFile
<1> QED
  BY <1>3, <1>4 DEF UploadFile

LEMMA SetFieldKeeps ==
  ASSUME FilesInv, NEW c \in Readers, SetField(c)
  PROVE  FilesInv'
<1>1. reader[c].at = "field" /\ UNCHANGED <<list, gone, names, files, there, disk, links>>
  BY DEF SetField, ReaderAt
<1>2. Sent(c)
  BY <1>1, ReaderIs DEF ReaderAt
<1>3. Sent(c)' /\ \A d \in Readers \ {c} : Sent(d)' <=> Sent(d)
  BY <1>1, <1>2, OthersSent
<1>4. CASE ReaderEnds(c, "uploaded")
  BY <1>1, <1>3, <1>4, ReaderFails DEF ReaderStages, ReaderExits
<1>5. CASE ReaderEnds(c, "ok")
  BY <1>1, <1>3, <1>5, UploadEnds
<1> QED
  BY <1>4, <1>5 DEF SetField

-----------------------------------------------------------------------------
LEMMA StartReaderKeeps ==
  ASSUME FilesInv, NEW c \in Readers, NEW want \in Wants[c], StartReader(c, want), list = FirstList
  PROVE  FilesInv'
<1> DEFINE old == want.to = "file" /\ ~want.force /\ disk # NoOutput
           stage == IF old THEN "over"
                 ELSE CASE want.kind \in {"export", "workbook"} -> "layout"
                        [] want.kind = "pages" -> "page"
                        [] want.kind = "upload" -> "look"
                        [] OTHER -> "get"
           exit == IF old THEN "exists" ELSE "none"
           r == [at |-> stage, exit |-> exit, want |-> want, cols |-> {}, out |-> <<>>, start |-> 0, page |-> <<>>,
                 first |-> NoListed, tries |-> 0, were |-> Ids(list), gone |-> gone]
<1>1. ReaderAt(c, "idle") /\ SiteStays /\ UNCHANGED disk /\ FileTypes /\ ReaderGood(c)
  BY DEF StartReader, FilesInv
<1>2. want \in ReaderWants /\ want.kind \in {"export", "pages", "api", "workbook", "pdf", "download", "upload"}
  <2>1. want \in ReaderWants
    BY WantsAreWants
  <2> QED
    BY <2>1 DEF ReaderWants
<1>3. stage \in {"layout", "page", "look", "get", "over"} /\ want.kind \in KindsAt(stage) /\ exit \in ReaderExits /\ exit # "ok"
      /\ (stage = "over" => exit = "exists") /\ (want.kind \in {"export", "workbook"} => stage \in {"layout", "over"})
  BY <1>2, KindsAre DEF ReaderExits, Paged, Pages
<1> HIDE DEF stage, exit
<1>4. /\ DOMAIN reader' = Readers /\ (\A d \in Readers \ {c} : reader'[d] = reader[d]) /\ reader'[c] = r
  BY <1>1 DEF StartReader, FileTypes, stage, exit
<1>5. /\ DOMAIN r = ReaderFields /\ r.at = stage /\ r.exit = exit /\ r.want = want /\ r.out = <<>> /\ r.page = <<>>
      /\ r.start = 0 /\ r.were = Ids(list) /\ r.gone = gone
  BY DEF ReaderFields
<1> HIDE DEF r
<1>6. FirstStay /\ Ids(list) = 1 .. FirstDocs
  <2>1. DOMAIN list = 1 .. FirstDocs /\ Len(list) = FirstDocs /\ \A i \in 1 .. FirstDocs : list[i].name = i
    BY SizesAreNat DEF FirstList
  <2> QED
    BY <2>1, SizesAreNat DEF FirstStay, Ids
<1>7. IsReader(reader[c])'
  BY <1>1, <1>2, <1>3, <1>4, <1>5 DEF IsReader, ReaderStages, FileTypes
<1>8. PagesGood(reader[c])'
  <2>1. <<>> \in Seq(SiteDocument) /\ Len(<<>>) = 0 /\ DOMAIN <<>> = {} /\ Len(list) \in Nat /\ gone <= gone
    BY <1>1 DEF FileTypes
  <2> QED
    BY <1>1, <1>3, <1>4, <1>5, <1>6, <2>1
       DEF SiteStays, PagesGood, Ascends, Beyond, SameAs, FirstStay, Paged, Ids
<1>9. FileGood(reader[c])'
  BY <1>3, <1>4, <1>5 DEF FileGood
<1>10. ~Sent(c)'
  BY <1>1 DEF ReaderGood, Sent, SiteStays
<1>11. ReaderGood(c)'
  BY <1>3, <1>4, <1>5, <1>7, <1>8, <1>9, <1>10 DEF ReaderGood, ReaderAt
<1> QED
  BY <1>1, <1>4, <1>11, ReaderMoves, OthersSent DEF SiteStays, ReaderAt

-----------------------------------------------------------------------------
(***************************************************************************)
(* Documents come and go while pages are read.                             *)
(***************************************************************************)
\* What stays true of the list: each document was at its place or behind it
\* before, or is new; and none leaves its place unless one was deleted.
ListMoves ==
  /\ list' \in Seq(SiteDocument) /\ ListGood' /\ names' \in Nat /\ gone' \in Nat /\ names <= names' /\ gone <= gone'
  /\ \A k \in DOMAIN list' : \/ \E i \in DOMAIN list : k <= i /\ list'[k].name = list[i].name
                             \/ list'[k].name > names
  /\ gone' = gone => Len(list) <= Len(list') /\ \A i \in DOMAIN list : list'[i].name = list[i].name

LEMMA BeyondStays ==
  ASSUME FileTypes, ListMoves, NEW items \in Seq(SiteDocument), NEW n \in Nat, Beyond(items, n)
  PROVE  /\ \A i \in DOMAIN items : items[i].name <= names'
         /\ \A i \in DOMAIN items, k \in DOMAIN list' : k > n => items[i].name < list'[k].name
<1>1. /\ list \in Seq(SiteDocument) /\ list' \in Seq(SiteDocument) /\ names \in Nat /\ names' \in Nat /\ names <= names'
      /\ DOMAIN list = 1 .. Len(list) /\ DOMAIN list' = 1 .. Len(list') /\ Len(list) \in Nat /\ Len(list') \in Nat
  BY DEF FileTypes, ListMoves
<1>2. ASSUME NEW i \in DOMAIN items  PROVE  items[i].name \in Nat /\ items[i].name <= names /\ items[i].name <= names'
  <2>1. items[i] \in SiteDocument
    BY <1>2
  <2>2. items[i].name \in Nat /\ items[i].name <= names
    BY <1>2, <2>1 DEF SiteDocument, Beyond
  <2> QED
    BY <1>1, <2>2
<1>3. ASSUME NEW i \in DOMAIN items, NEW k \in DOMAIN list', k > n  PROVE  items[i].name < list'[k].name
  <2>1. list'[k] \in SiteDocument
    BY <1>1
  <2>2. list'[k].name \in Nat
    BY <2>1 DEF SiteDocument
  <2>3. ASSUME NEW j \in DOMAIN list, k <= j, list'[k].name = list[j].name  PROVE  items[i].name < list'[k].name
    <3>1. j > n
      BY <1>1, <1>3, <2>3
    <3> QED
      BY <1>3, <2>3, <3>1 DEF Beyond
  <2>4. ASSUME list'[k].name > names  PROVE  items[i].name < list'[k].name
    BY <1>1, <1>2, <2>2, <2>4
  <2> QED
    BY <2>3, <2>4 DEF ListMoves
<1> QED
  BY <1>2, <1>3

LEMMA SameStays ==
  ASSUME FileTypes, ListMoves, NEW items \in Seq(SiteDocument), NEW n \in Nat, gone' = gone, SameAs(items, n)
  PROVE  n + Len(items) <= Len(list') /\ \A i \in DOMAIN items : items[i].name = list'[n + i].name
<1>1. /\ list \in Seq(SiteDocument) /\ list' \in Seq(SiteDocument)
      /\ DOMAIN list = 1 .. Len(list) /\ Len(list) \in Nat /\ Len(list') \in Nat
      /\ Len(items) \in Nat /\ DOMAIN items = 1 .. Len(items)
      /\ n + Len(items) <= Len(list) /\ Len(list) <= Len(list')
  BY DEF FileTypes, ListMoves, SameAs
<1>2. n + Len(items) <= Len(list')
  BY <1>1
<1>3. \A i \in DOMAIN items : n + i \in DOMAIN list
  BY <1>1
<1> QED
  BY <1>2, <1>3 DEF SameAs, ListMoves

LEMMA ListMovesKeeps ==
  ASSUME FilesInv, ListMoves, UNCHANGED <<files, linked, disk, links, reader>>, there' \in BOOLEAN
  PROVE  FilesInv'
<1>1. FileTypes /\ FileTypes' /\ ListGood' /\ DiskGood'
  BY DEF FilesInv, FileTypes, ListMoves, DiskGood, ReaderOver, ReaderAt
<1>2. ASSUME NEW c \in Readers, PagesGood(reader[c]), IsReader(reader[c])  PROVE  PagesGood(reader[c])'
  <2> DEFINE r == reader[c]
  <2>1. r.gone \in Nat /\ r.gone <= gone /\ gone \in Nat /\ gone' \in Nat /\ gone <= gone'
    BY <1>1, <1>2 DEF IsReader, PagesGood, FileTypes, ListMoves
  <2>2. r.gone <= gone' /\ (r.gone = gone' => gone' = gone /\ r.gone = gone)
    <3> HIDE DEF r
    <3> QED
      BY <2>1
  <2>3. FirstStay /\ gone' = gone => FirstStay'
    <3>1. list \in Seq(SiteDocument) /\ DOMAIN list = 1 .. Len(list) /\ Len(list) \in Nat /\ list' \in Seq(SiteDocument) /\ Len(list') \in Nat
      BY <1>1 DEF FileTypes
    <3>2. ASSUME FirstStay, gone' = gone  PROVE  FirstStay'
      <4>1. Len(list) >= FirstDocs /\ Len(list) <= Len(list') /\ (\A i \in DOMAIN list : list'[i].name = list[i].name)
            /\ \A i \in 1 .. FirstDocs : list[i].name = i
        BY <3>2 DEF FirstStay, ListMoves
      <4>2. Len(list') >= FirstDocs /\ \A i \in 1 .. FirstDocs : i \in DOMAIN list
        BY <3>1, <4>1, SizesAreNat
      <4> QED
        BY <4>1, <4>2 DEF FirstStay
    <3> QED
      BY <3>2
  <2>4. ASSUME Lists(r), r.at \in {"layout"} \cup Paged
        PROVE  (/\ Beyond(r.out, r.start) /\ Beyond(r.page, r.start + Len(r.page))
                /\ r.gone = gone => SameAs(r.out, 0) /\ SameAs(r.page, r.start))'
    <3>1. /\ r.out \in Seq(SiteDocument) /\ r.page \in Seq(SiteDocument) /\ r.start = Len(r.out)
          /\ Beyond(r.out, r.start) /\ Beyond(r.page, r.start + Len(r.page))
          /\ r.gone = gone => SameAs(r.out, 0) /\ SameAs(r.page, r.start)
      BY <1>2, <2>4 DEF PagesGood
    <3>2. Len(r.out) \in Nat /\ Len(r.page) \in Nat
      BY <3>1
    <3>3. r.start \in Nat /\ r.start + Len(r.page) \in Nat
      <4> DEFINE s == r.start
                 l == Len(r.page)
      <4>1. s \in Nat /\ l \in Nat
        BY <3>1, <3>2
      <4> HIDE DEF s, l
      <4>2. s + l \in Nat
        BY <4>1
      <4> QED
        BY <4>1, <4>2 DEF s, l
    <3>4. Beyond(r.out, r.start)'
      BY <1>1, <3>1, <3>3, BeyondStays DEF Beyond
    <3>5. Beyond(r.page, r.start + Len(r.page))'
      BY <1>1, <3>1, <3>3, BeyondStays DEF Beyond
    <3>6. ASSUME r.gone = gone'  PROVE  (SameAs(r.out, 0) /\ SameAs(r.page, r.start))'
      BY <1>1, <2>2, <3>1, <3>3, <3>6, SameStays DEF SameAs
    <3> QED
      BY <3>4, <3>5, <3>6
  <2> QED
    BY <1>2, <2>2, <2>3, <2>4 DEF PagesGood, Lists, Ascends, Ids
<1>3. ASSUME NEW c \in Readers, FileGood(reader[c])  PROVE  FileGood(reader[c])'
  BY <1>3 DEF FileGood, Columns
<1>4. ASSUME NEW c \in Readers  PROVE  ReaderGood(c)'
  <2>1. Sent(c)' <=> Sent(c)
    BY OthersSent
  <2>2. ReaderGood(c)
    BY DEF FilesInv
  <2> QED
    BY <1>2, <1>3, <2>1, <2>2 DEF ReaderGood, ReaderAt, IsReader
<1> QED
  BY <1>1, <1>4 DEF FilesInv

\* A list without one of its elements.
LEMMA WithoutIs ==
  ASSUME NEW T, NEW s \in Seq(T), NEW d \in DOMAIN s
  PROVE  LET r == Without(s, d)
             n == Len(s) - 1
         IN  /\ n \in Nat /\ DOMAIN s = 1 .. (n + 1) /\ r \in Seq(T) /\ DOMAIN r = 1 .. n /\ Len(r) = n
             /\ \A k \in 1 .. n : r[k] = IF k < d THEN s[k] ELSE s[k + 1]
<1> DEFINE l == Len(s)
           head == SubSeq(s, 1, d - 1)
           tail == SubSeq(s, d + 1, l)
           r == head \o tail
<1>1. l \in Nat /\ DOMAIN s = 1 .. l /\ d \in 1 .. l
  OBVIOUS
<1>2. /\ head \in Seq(T) /\ Len(head) = d - 1
      /\ \A k \in 1 .. (d - 1) : head[k] = s[k]
  BY <1>1, SMTT(20)
<1>3. /\ tail \in Seq(T) /\ Len(tail) = l - d
      /\ \A k \in 1 .. (l - d) : tail[k] = s[d + k]
  <2>1. d + 1 \in Int /\ l \in Int /\ \A k \in d + 1 .. l : s[k] \in T
    BY <1>1
  <2> HIDE DEF l
  <2>2. /\ tail \in Seq(T) /\ Len(tail) = IF d + 1 <= l THEN l - (d + 1) + 1 ELSE 0
        /\ \A k \in 1 .. l - (d + 1) + 1 : tail[k] = s[d + 1 + k - 1]
    BY <2>1, SubSeqProperties, SMT
  <2> HIDE DEF tail
  <2>3. l \in Nat /\ d \in Nat /\ d <= l
    BY <1>1
  <2>4. Len(tail) = l - d
    BY <2>2, <2>3
  <2>5. ASSUME NEW k \in 1 .. (l - d)  PROVE  tail[k] = s[d + k]
    <3>1. k \in 1 .. l - (d + 1) + 1 /\ d + 1 + k - 1 = d + k
      BY <2>3
    <3> QED
      BY <2>2, <3>1
  <2> QED
    BY <2>2, <2>4, <2>5
<1>4. Without(s, d) = r
  BY DEF Without
<1> HIDE DEF l, head, tail
<1>5. r \in Seq(T) /\ Len(r) = l - 1 /\ DOMAIN r = 1 .. (l - 1)
  <2>1. r \in Seq(T) /\ Len(r) = Len(head) + Len(tail)
    BY <1>2, <1>3, ConcatProperties
  <2> HIDE DEF r
  <2>2. Len(r) = l - 1
    BY <1>1, <1>2, <1>3, <2>1
  <2> QED
    BY <2>1, <2>2
<1>6. ASSUME NEW k \in 1 .. (l - 1)  PROVE  r[k] = IF k < d THEN s[k] ELSE s[k + 1]
  <2>1. CASE k < d
    <3>1. k \in 1 .. (d - 1)
      BY <1>1, <2>1
    <3>2. r[k] = head[k]
      BY <1>1, <1>2, <1>3, <3>1
    <3> QED
      BY <1>2, <2>1, <3>1, <3>2
  <2>2. CASE ~(k < d)
    <3>1. k - (d - 1) \in 1 .. (l - d) /\ d + (k - (d - 1)) = k + 1 /\ k > d - 1 /\ k <= (d - 1) + (l - d)
      BY <1>1, <2>2
    <3>2. r[k] = tail[k - (d - 1)]
      BY <1>1, <1>2, <1>3, <3>1
    <3> QED
      BY <1>3, <2>2, <3>1, <3>2
  <2> QED
    BY <2>1, <2>2
<1> HIDE DEF r
<1> QED
  BY <1>1, <1>4, <1>5, <1>6 DEF l

LEMMA ListMovesThus ==
  ASSUME FilesInv, ChangeList \/ \E i \in DOMAIN list : Touch(i)
  PROVE  ListMoves /\ UNCHANGED <<files, linked, disk, links, reader>> /\ there' \in BOOLEAN
<1>1. /\ list \in Seq(SiteDocument) /\ Len(list) \in Nat /\ DOMAIN list = 1 .. Len(list) /\ names \in Nat /\ gone \in Nat
      /\ there \in BOOLEAN /\ Ascends(list) /\ \A i \in DOMAIN list : list[i].name <= names
  BY DEF FilesInv, FileTypes, ListGood
<1>2. ASSUME NEW i \in DOMAIN list  PROVE  list[i] \in SiteDocument /\ list[i].name \in Nat /\ list[i].name <= names
  <2>1. list[i] \in SiteDocument
    BY <1>1
  <2> QED
    BY <1>1, <2>1 DEF SiteDocument
<1>3. UNCHANGED <<files, linked, disk, links, reader>>
  BY DEF ChangeList, Touch
<1>4. CASE names' = names + 1 /\ list' = Append(list, [name |-> names + 1, key |-> 0, rows |-> 1]) /\ UNCHANGED <<gone, there>>
  <2> DEFINE new == [name |-> names + 1, key |-> 0, rows |-> 1]
  <2>1. new \in SiteDocument /\ new.name = names + 1
    BY <1>1 DEF SiteDocument
  <2> HIDE DEF new
  <2>2. /\ list' = Append(list, new) /\ list' \in Seq(SiteDocument) /\ Len(list') = Len(list) + 1
        /\ DOMAIN list' = 1 .. (Len(list) + 1) /\ (\A i \in DOMAIN list : list'[i] = list[i]) /\ list'[Len(list) + 1] = new
    BY <1>1, <1>4, <2>1 DEF new
  <2>3. ASSUME NEW k \in DOMAIN list'  PROVE  (k \in DOMAIN list /\ list'[k] = list[k]) \/ (k = Len(list) + 1 /\ list'[k] = new)
    BY <1>1, <2>2
  <2>4. ListGood'
    <3>1. ASSUME NEW i \in DOMAIN list', NEW j \in DOMAIN list', i < j  PROVE  list'[i].name < list'[j].name
      <4>1. i \in DOMAIN list
        BY <1>1, <2>2, <3>1
      <4>2. list'[i].name = list[i].name /\ list[i].name \in Nat /\ list[i].name < names + 1
        BY <1>1, <1>2, <2>2, <4>1
      <4>3. CASE j \in DOMAIN list
        BY <1>1, <2>2, <3>1, <4>1, <4>3 DEF Ascends
      <4>4. CASE list'[j] = new
        BY <2>1, <4>2, <4>4
      <4> QED
        BY <2>3, <4>3, <4>4
    <3>2. ASSUME NEW i \in DOMAIN list'  PROVE  list'[i].name <= names'
      <4>1. CASE i \in DOMAIN list
        BY <1>1, <1>2, <1>4, <2>2, <4>1
      <4>2. CASE list'[i] = new
        BY <1>1, <1>4, <2>1, <4>2
      <4> QED
        BY <2>3, <4>1, <4>2
    <3> QED
      BY <3>1, <3>2 DEF ListGood, Ascends
  <2>5. ASSUME NEW k \in DOMAIN list'
        PROVE  (\E i \in DOMAIN list : k <= i /\ list'[k].name = list[i].name) \/ list'[k].name > names
    <3>1. k \in Nat
      BY <2>2
    <3>2. CASE k \in DOMAIN list /\ list'[k] = list[k]
      BY <3>1, <3>2
    <3>3. CASE list'[k] = new
      BY <1>1, <2>1, <3>3
    <3> QED
      BY <2>3, <3>2, <3>3
  <2>6. names' \in Nat /\ names <= names' /\ gone' \in Nat /\ gone <= gone' /\ Len(list) <= Len(list') /\ there' \in BOOLEAN
    BY <1>1, <1>4, <2>2
  <2> QED
    BY <1>3, <2>2, <2>4, <2>5, <2>6 DEF ListMoves
<1>5. CASE (\E i \in DOMAIN list : list' = Without(list, i)) /\ gone' = gone + 1 /\ UNCHANGED <<names, there>>
  <2>1. PICK d \in DOMAIN list : list' = Without(list, d)
    BY <1>5
  <2> DEFINE n == Len(list) - 1
  <2>2. /\ n \in Nat /\ DOMAIN list = 1 .. (n + 1) /\ list' \in Seq(SiteDocument) /\ DOMAIN list' = 1 .. n /\ Len(list') = n
        /\ \A k \in 1 .. n : list'[k] = IF k < d THEN list[k] ELSE list[k + 1]
    BY <1>1, <2>1, WithoutIs
  <2> HIDE DEF n
  <2>4. d \in 1 .. (n + 1)
    BY <2>2
  <2>6. ASSUME NEW k \in DOMAIN list'
        PROVE  /\ k \in DOMAIN list /\ k + 1 \in DOMAIN list /\ k \in Nat
               /\ list'[k] = list[k] \/ list'[k] = list[k + 1]
    BY <2>2
  <2>7. ListGood'
    <3>1. ASSUME NEW i \in DOMAIN list', NEW j \in DOMAIN list', i < j  PROVE  list'[i].name < list'[j].name
      <4> DEFINE a == IF i < d THEN i ELSE i + 1
                 b == IF j < d THEN j ELSE j + 1
      <4>1. list'[i] = list[a] /\ list'[j] = list[b]
        BY <2>2
      <4>2. a \in DOMAIN list /\ b \in DOMAIN list /\ a < b
        <5>1. i \in 1 .. n /\ j \in 1 .. n
          BY <2>2
        <5> QED
          BY <2>2, <2>4, <3>1, <5>1
      <4> HIDE DEF a, b
      <4> QED
        BY <1>1, <4>1, <4>2 DEF Ascends
    <3>2. ASSUME NEW i \in DOMAIN list'  PROVE  list'[i].name <= names'
      BY <1>2, <1>5, <2>6
    <3> QED
      BY <3>1, <3>2 DEF ListGood, Ascends
  <2>8. ASSUME NEW k \in DOMAIN list'
        PROVE  \E i \in DOMAIN list : k <= i /\ list'[k].name = list[i].name
    <3>1. CASE list'[k] = list[k]
      BY <2>6, <3>1
    <3>2. CASE list'[k] = list[k + 1]
      <4>1. k <= k + 1
        BY <2>6
      <4> QED
        BY <2>6, <3>2, <4>1
    <3> QED
      BY <2>6, <3>1, <3>2
  <2>9. names' \in Nat /\ names <= names' /\ gone' \in Nat /\ gone <= gone' /\ gone' # gone /\ there' \in BOOLEAN
    BY <1>1, <1>5
  <2> QED
    BY <1>3, <2>2, <2>7, <2>8, <2>9 DEF ListMoves
<1>6. CASE UNCHANGED <<gone, list, names>> /\ there' \in BOOLEAN
  BY <1>1, <1>3, <1>6 DEF ListMoves, ListGood, Ascends
<1>7. ASSUME NEW i \in DOMAIN list, Touch(i)  PROVE  ListMoves /\ there' \in BOOLEAN
  <2>1. /\ list' = [list EXCEPT ![i].key = 1, ![i].rows = 2] /\ UNCHANGED <<gone, names, there>>
    BY <1>7 DEF Touch
  <2>2. DOMAIN list' = DOMAIN list /\ (\A k \in DOMAIN list \ {i} : list'[k] = list[k]) /\ list'[i] = [list[i] EXCEPT !.key = 1, !.rows = 2]
    BY <1>1, <2>1
  <2>3. list'[i] \in SiteDocument /\ list'[i].name = list[i].name
    <3> DEFINE doc == list[i]
    <3>1. doc \in SiteDocument /\ list'[i] = [doc EXCEPT !.key = 1, !.rows = 2]
      BY <1>2, <2>2
    <3> HIDE DEF doc
    <3>2. [doc EXCEPT !.key = 1, !.rows = 2] = [name |-> doc.name, key |-> 1, rows |-> 2] /\ doc.name \in Nat
      BY <3>1 DEF SiteDocument
    <3>3. list'[i] \in SiteDocument /\ list'[i].name = doc.name
      BY <3>1, <3>2 DEF SiteDocument
    <3> QED
      BY <3>3 DEF doc
  <2>4. ASSUME NEW k \in DOMAIN list  PROVE  list'[k] \in SiteDocument /\ list'[k].name = list[k].name
    <3>1. CASE k = i
      BY <2>3, <3>1
    <3>2. CASE k # i
      BY <1>2, <2>2, <3>2
    <3> QED
      BY <3>1, <3>2
  <2>5. list' \in Seq(SiteDocument) /\ Len(list') = Len(list)
    <3>1. list' = [k \in 1 .. Len(list) |-> list'[k]] /\ Len(list) \in Nat /\ DOMAIN list = 1 .. Len(list)
      BY <1>1, <2>1, <2>2
    <3>2. list' \in [1 .. Len(list) -> SiteDocument]
      BY <2>4, <3>1
    <3> QED
      BY <3>1, <3>2, FunctionIsSeq
  <2>6. DOMAIN list' = DOMAIN list /\ DOMAIN list \subseteq Nat /\ \A k \in DOMAIN list : list'[k].name = list[k].name
    BY <1>1, <2>2, <2>4
  <2>7. ListGood'
    BY <1>1, <2>1, <2>6 DEF ListGood, Ascends
  <2> QED
    BY <1>1, <2>1, <2>5, <2>6, <2>7 DEF ListMoves
<1> QED
  BY <1>1, <1>3, <1>4, <1>5, <1>6, <1>7 DEF ChangeList

-----------------------------------------------------------------------------
(***************************************************************************)
(* FilesInv is inductive, and what it says of what is read and saved.      *)
(***************************************************************************)
LEMMA FilesInvInit == FileInit => FilesInv
<1> SUFFICES ASSUME FileInit  PROVE  FilesInv
  OBVIOUS
<1>1. /\ DOMAIN list = 1 .. FirstDocs /\ list \in Seq(SiteDocument)
      /\ \A i \in DOMAIN list : list[i].name = i /\ i \in Nat /\ i <= FirstDocs
  <2>1. list = [i \in 1 .. FirstDocs |-> [name |-> i, key |-> 0, rows |-> 1]]
    BY DEF FileInit, FirstList
  <2>2. \A i \in 1 .. FirstDocs : [name |-> i, key |-> 0, rows |-> 1] \in SiteDocument
    BY SizesAreNat DEF SiteDocument
  <2> QED
    BY <2>1, <2>2, SizesAreNat
<1>2. ListGood
  BY <1>1 DEF FileInit, ListGood, Ascends
<1>3. FileTypes
  BY <1>1, SizesAreNat DEF FileInit, FileTypes
<1>4. DiskGood
  BY ReadersAreNamed DEF FileInit, DiskGood, NoOutput, Before
<1>5. \A c \in Readers : ReaderGood(c)
  BY DEF FileInit, ReaderGood, ReaderAt, Sent
<1> QED
  BY <1>2, <1>3, <1>4, <1>5 DEF FilesInv

LEMMA FilesInvStep == FilesInv /\ [FileNext]_readerVars => FilesInv'
<1> SUFFICES ASSUME FilesInv, [FileNext]_readerVars  PROVE  FilesInv'
  OBVIOUS
<1>1. ASSUME NEW c \in Readers, list = FirstList, NEW want \in Wants[c], StartReader(c, want)  PROVE  FilesInv'
  BY <1>1, StartReaderKeeps
<1>2. ASSUME NEW c \in Readers, LoadLayout(c) \/ ReadPage(c) \/ ReadRows(c) \/ WritePage(c)  PROVE  FilesInv'
  BY <1>2, LoadLayoutKeeps, ReadPageKeeps, ReadRowsKeeps, WritePageKeeps
<1>3. ASSUME NEW c \in Readers, Fetch(c) \/ TakeAnswer(c) \/ MoveInto(c) \/ Rename(c)  PROVE  FilesInv'
  BY <1>3, FetchKeeps, TakeAnswerKeeps, MoveIntoKeeps, RenameKeeps
<1>4. ASSUME NEW c \in Readers, LookForDoc(c) \/ UploadFile(c) \/ SetField(c)  PROVE  FilesInv'
  BY <1>4, LookForDocKeeps, UploadFileKeeps, SetFieldKeeps
<1>5. ASSUME ChangeList \/ \E i \in DOMAIN list : Touch(i)  PROVE  FilesInv'
  BY <1>5, ListMovesThus, ListMovesKeeps
<1>6. CASE UNCHANGED readerVars
  <2>1. ListMoves
    <3>1. list \in Seq(SiteDocument) /\ DOMAIN list = 1 .. Len(list) /\ Len(list) \in Nat /\ names \in Nat /\ gone \in Nat
      BY DEF FilesInv, FileTypes
    <3> QED
      BY <1>6, <3>1 DEF ListMoves, FilesInv, ListGood, Ascends, readerVars
  <2> QED
    BY <1>6, <2>1, ListMovesKeeps DEF readerVars, FilesInv, FileTypes
<1> QED
  BY <1>1, <1>2, <1>3, <1>4, <1>5, <1>6 DEF FileNext

LEMMA FilesInvSays == FilesInv => PagesAreWhole /\ OutputIsWhole /\ UploadIsTold /\ ColumnsAreAsked
<1> SUFFICES ASSUME FilesInv  PROVE  PagesAreWhole /\ OutputIsWhole /\ UploadIsTold /\ ColumnsAreAsked
  OBVIOUS
<1>1. ASSUME NEW c \in Readers, ReaderAt(c, "over")
      PROVE  IsReader(reader[c]) /\ PagesGood(reader[c]) /\ FileGood(reader[c]) /\ ReaderGood(c)
  <2>1. ~ReaderAt(c, "idle")
    BY <1>1 DEF ReaderAt
  <2> QED
    BY <2>1, ReaderIs DEF FilesInv
<1>2. PagesAreWhole
  <2>1. ASSUME NEW c \in Readers, ReaderOver(c, "ok"), reader[c].want.kind \in {"export", "pages"},
               reader[c].want.order = "default"
        PROVE  LET r == reader[c] IN
               /\ \A i, j \in DOMAIN r.out : i # j => r.out[i].name # r.out[j].name
               /\ r.gone = gone /\ r.want.limit = 0 => r.were \subseteq Ids(r.out)
    <3> DEFINE r == reader[c]
    <3>1. r.out \in Seq(SiteDocument) /\ Ascends(r.out) /\ (r.gone = gone /\ r.want.limit = 0 => r.were \subseteq Ids(r.out))
      BY <1>1, <2>1 DEF ReaderOver, PagesGood, Lists, Pages
    <3>2. ASSUME NEW i \in DOMAIN r.out, NEW j \in DOMAIN r.out, i # j  PROVE  r.out[i].name # r.out[j].name
      <4>1. r.out[i] \in SiteDocument /\ r.out[j] \in SiteDocument /\ i \in Nat /\ j \in Nat
        BY <3>1
      <4>2. r.out[i].name \in Nat /\ r.out[j].name \in Nat
        BY <4>1 DEF SiteDocument
      <4>3. i < j \/ j < i
        BY <3>2, <4>1
      <4>4. r.out[i].name < r.out[j].name \/ r.out[j].name < r.out[i].name
        BY <3>1, <4>3 DEF Ascends
      <4> DEFINE a == r.out[i].name
                 b == r.out[j].name
      <4>5. a \in Nat /\ b \in Nat /\ (a < b \/ b < a)
        BY <4>2, <4>4
      <4> HIDE DEF a, b, r
      <4>6. a # b
        BY <4>5
      <4> QED
        BY <4>6 DEF a, b
    <3> QED
      BY <3>1, <3>2
  <2> QED
    BY <2>1 DEF PagesAreWhole
<1>3. OutputIsWhole
  <2>1. \A c \in Readers : disk.by = c => ReaderOver(c, "ok") /\ disk.out = reader[c].out
    BY DEF FilesInv, DiskGood
  <2>2. ASSUME NEW c \in Readers, ReaderOver(c, "ok"), reader[c].want.kind \in {"pdf", "workbook"}
        PROVE  reader[c].out = <<"file">>
    BY <1>1, <2>2 DEF ReaderOver, FileGood
  <2> QED
    BY <2>1, <2>2 DEF OutputIsWhole
<1>4. UploadIsTold
  BY <1>1 DEF UploadIsTold, ReaderGood, ReaderAt, Sent
<1>5. ColumnsAreAsked
  <2>1. ASSUME NEW c \in Readers, ReaderOver(c, "ok"), reader[c].want.kind \in {"export", "workbook"}
        PROVE  Columns(reader[c])
    BY <1>1, <2>1 DEF ReaderOver, ReaderAt, FileGood
  <2> QED
    BY <2>1 DEF ColumnsAreAsked, Columns
<1> QED
  BY <1>2, <1>3, <1>4, <1>5

\* For any number of commands, documents and changes to them: a list in the
\* order of creation has no document twice and, when it has no limit and none
\* was deleted meanwhile, none that was there throughout is left out, while of
\* a list in an order of the user's own nothing is claimed; on disk is one
\* command's whole result, which replaced another's only with --force, or
\* where the file system has no hard links; and upload's exit says whether its
\* File is on the site (export.go, runExport; files.go, writeAtomic,
\* UploadFile).
THEOREM FilesKept == FileSpec => FilesAreWhole
<1>1. FilesInv /\ [FileNext]_readerVars => [OnlyForced]_readerVars
  BY OnlyForcedStep
<1> QED
  BY <1>1, FilesInvInit, FilesInvStep, FilesInvSays, PTL DEF FileSpec, FilesAreWhole

-----------------------------------------------------------------------------
(***************************************************************************)
(* The order of a push: where the visits come to.                          *)
(***************************************************************************)
Closed(S, end) == \A f \in S \ {end} : After(f) \in Pushed => After(f) \in S

LEMMA PushedIs == /\ IsFiniteSet(Pushed) /\ Cardinality(Pushed) \in Nat
                  /\ Pushed \in SUBSET Nat /\ First \notin Pushed
<1>1. Pushed \in SUBSET Customs
  BY DEF Pushed
<1> QED
  BY <1>1, CustomsAreNumbers, FS_Subset, FS_CardinalityType DEF First

LEMMA WayIs ==
  ASSUME NEW d \in Pushed, NEW end
  PROVE  /\ Way(d, end) \in SUBSET Pushed /\ d \in Way(d, end) /\ Closed(Way(d, end), end)
         /\ \A S \in SUBSET Pushed : d \in S /\ Closed(S, end) => Way(d, end) \subseteq S
BY DEF Way, Closed

LEMMA WayCounts ==
  ASSUME NEW d, NEW end
  PROVE  IsFiniteSet(Way(d, end)) /\ Cardinality(Way(d, end)) \in Nat
<1>1. Way(d, end) \in SUBSET Pushed
  BY DEF Way
<1> QED
  BY <1>1, PushedIs, FS_Subset, FS_CardinalityType

LEMMA WayEnds ==
  ASSUME NEW d \in Pushed
  PROVE  Way(d, d) = {d}
<1>1. Closed({d}, d) /\ {d} \in SUBSET Pushed
  BY DEF Closed
<1> QED
  BY <1>1, WayIs

\* A way goes on where its first field is inserted after.
LEMMA WayGoesOn ==
  ASSUME NEW d \in Pushed, NEW end, NEW e \in Way(d, end), e # d
  PROVE  After(d) \in Pushed /\ e \in Way(After(d), end)
<1>1. CASE After(d) \notin Pushed
  <2>1. Closed({d}, end) /\ {d} \in SUBSET Pushed
    BY <1>1 DEF Closed
  <2> QED
    BY <2>1, WayIs
<1>2. CASE After(d) \in Pushed
  <2> DEFINE S == {d} \cup Way(After(d), end)
  <2>1. Closed(S, end) /\ S \in SUBSET Pushed
    BY <1>2, WayIs DEF Closed
  <2> QED
    BY <1>2, <2>1, WayIs
<1> QED
  BY <1>1, <1>2

LEMMA ReachedIs ==
  ASSUME NEW d \in Pushed, NEW e \in Reached(d)
  PROVE  /\ e \in Pushed
         /\ After(e) \in Pushed => After(e) \in Reached(d)
         /\ e \in Way(d, e)
<1>1. First \notin Pushed
  BY PushedIs
<1>2. e \in Pushed /\ (After(e) \in Pushed => After(e) \in Reached(d))
  BY <1>1, WayIs DEF Reached, Closed
<1>3. ASSUME e \notin Way(d, e)  PROVE FALSE
  <2>1. Closed(Way(d, e), First)
    BY <1>3, WayIs DEF Closed
  <2> QED
    BY <1>3, <2>1, WayIs DEF Reached
<1> QED
  BY <1>2, <1>3

\* What a visit comes to after e is not on its way to e.
LEMMA WayGrows ==
  ASSUME NEW r \in Pushed, NEW e \in Reached(r), NEW f \in Reached(r), f \notin Way(r, e)
  PROVE  Cardinality(Way(r, e)) < Cardinality(Way(r, f))
<1> DEFINE W == Way(r, e)
           V == Way(r, f)
<1>1. Closed(W \cap V, e) /\ W \cap V \in SUBSET Pushed /\ r \in W \cap V
  BY WayIs DEF Closed
<1>2. W \in SUBSET V /\ f \in V /\ f \notin W
  BY <1>1, WayIs, ReachedIs
<1> HIDE DEF W, V
<1>3. Cardinality(W) <= Cardinality(V) /\ Cardinality(W) # Cardinality(V)
  BY <1>2, WayCounts, FS_Subset DEF V
<1>4. Cardinality(W) \in Nat /\ Cardinality(V) \in Nat
  BY WayCounts DEF W, V
<1> QED
  BY <1>3, <1>4 DEF W, V

\* Of two fields, a visit comes to one first.
LEMMA OneIsFirst ==
  ASSUME NEW r \in Pushed, NEW e \in Reached(r), NEW f \in Way(r, e), e \in Way(r, f)
  PROVE  e = f
<1> SUFFICES ASSUME e # f PROVE FALSE
  OBVIOUS
<1> DEFINE U == {z \in Pushed : e \in Way(z, f)}
<1>1. e \in Pushed /\ f \in Pushed
  BY ReachedIs, WayIs
<1>2. Closed(U, e)
  BY WayGoesOn DEF Closed
<1>3. r \in U /\ U \in SUBSET Pushed
  OBVIOUS
<1>4. f \in U
  BY <1>2, <1>3, WayIs
<1> QED
  BY <1>1, <1>4, WayEnds

LEMMA VisitIs ==
  ASSUME NEW e \in Pushed
  PROVE  /\ VisitOf(e) \in Pushed /\ e \in Reached(VisitOf(e)) /\ VisitOf(e) \in Nat
         /\ \A c \in Pushed : e \in Reached(c) => VisitOf(e) <= c
<1> DEFINE S == {c \in Pushed : e \in Reached(c)}
<1>1. e \in S
  BY WayIs DEF Reached
<1>2. S \in SUBSET Nat
  BY PushedIs
<1> HIDE DEF S
<1>3. \E d \in S : \A c \in S : d <= c
  BY <1>1, <1>2, LeastIsThere
<1>4. \E d \in Pushed : e \in Reached(d) /\ \A c \in Pushed : c < d => e \notin Reached(c)
  BY <1>2, <1>3, PushedIs DEF S
<1>5. VisitOf(e) \in Pushed /\ e \in Reached(VisitOf(e)) /\ \A c \in Pushed : c < VisitOf(e) => e \notin Reached(c)
  BY <1>4 DEF VisitOf
<1> DEFINE r == VisitOf(e)
<1>6. r \in Pushed /\ r \in Nat /\ e \in Reached(r)
  BY <1>5, PushedIs
<1>7. \A c \in Pushed : c \in Nat /\ (c < r => e \notin Reached(c))
  BY <1>5, PushedIs
<1> HIDE DEF r
<1>8. \A c \in Pushed : e \in Reached(c) => r <= c
  BY <1>6, <1>7
<1> QED
  BY <1>6, <1>8 DEF r

\* A field is added before the one that it is inserted after only when they
\* are in a cycle.
LEMMA AfterIsSooner ==
  ASSUME NEW d \in Pushed, After(d) \in Pushed, Sooner(d, After(d))
  PROVE  InCycle(d)
<1> DEFINE e == After(d)
           r == VisitOf(d)
<1> HIDE DEF r
<1>1. r \in Pushed /\ d \in Reached(r) /\ e \in Reached(r)
  BY VisitIs, ReachedIs DEF r
<1>2. VisitOf(e) <= r /\ VisitOf(e) \in Nat /\ r \in Nat
  BY <1>1, VisitIs DEF r
<1>3. VisitOf(e) = r /\ Cardinality(Way(r, e)) < Cardinality(Way(r, d))
  BY <1>2 DEF Sooner, r
<1>4. e \in Way(r, d)
  <2>1. ~(Cardinality(Way(r, d)) < Cardinality(Way(r, e)))
    BY <1>3, WayCounts
  <2> QED
    BY <1>1, <2>1, WayGrows
<1> DEFINE U == {z \in Pushed : d \in Reached(z)}
<1>5. Closed(U, d)
  BY WayGoesOn DEF Closed, Reached
<1>6. r \in U /\ U \in SUBSET Pushed
  BY <1>1
<1>7. e \in U
  BY <1>4, <1>5, <1>6, WayIs
<1> QED
  BY <1>7 DEF InCycle

LEMMA SoonerIs ==
  ASSUME NEW d \in Pushed, NEW e \in Pushed
  PROVE  /\ ~Sooner(d, d)
         /\ d # e => Sooner(d, e) \/ Sooner(e, d)
         /\ \A c \in Pushed : Sooner(c, d) /\ Sooner(d, e) => Sooner(c, e)
<1>1. \A c \in Pushed : VisitOf(c) \in Nat /\ Cardinality(Way(VisitOf(c), c)) \in Nat
  BY VisitIs, WayCounts
<1>2. ~Sooner(d, d) /\ \A c \in Pushed : Sooner(c, d) /\ Sooner(d, e) => Sooner(c, e)
  BY <1>1 DEF Sooner
<1>3. ASSUME d # e, VisitOf(d) = VisitOf(e)
      PROVE  Cardinality(Way(VisitOf(d), d)) # Cardinality(Way(VisitOf(e), e))
  <2> DEFINE r == VisitOf(d)
  <2>1. r \in Pushed /\ d \in Reached(r) /\ e \in Reached(r)
    BY <1>3, VisitIs
  <2> HIDE DEF r
  <2>2. e \notin Way(r, d) \/ d \notin Way(r, e)
    BY <1>3, <2>1, OneIsFirst
  <2>3. \/ Cardinality(Way(r, d)) < Cardinality(Way(r, e))
        \/ Cardinality(Way(r, e)) < Cardinality(Way(r, d))
    BY <2>1, <2>2, WayGrows
  <2>4. Cardinality(Way(r, d)) # Cardinality(Way(r, e))
    BY <2>3, WayCounts
  <2> QED
    BY <1>3, <2>4 DEF r
<1> QED
  BY <1>1, <1>2, <1>3 DEF Sooner

\* Items of a plan, of different documents.
AreItems(items) ==
  /\ IsFiniteSet(items) /\ \A x \in items : x.doc \in Pushed
  /\ \A x, y \in items : x.doc = y.doc => x = y

LEMMA PlacesGrow ==
  ASSUME NEW items, AreItems(items), NEW x \in items, NEW y \in items, Sooner(x.doc, y.doc)
  PROVE  PlaceOf(x, items) < PlaceOf(y, items)
<1> DEFINE A == {z \in items : Sooner(z.doc, x.doc)}
           B == {z \in items : Sooner(z.doc, y.doc)}
<1>1. A \in SUBSET B /\ x \in B /\ x \notin A /\ B \in SUBSET items
  BY SoonerIs DEF AreItems
<1> HIDE DEF A, B
<1>2. IsFiniteSet(B) /\ Cardinality(B) \in Nat /\ Cardinality(A) \in Nat
  BY <1>1, FS_Subset, FS_CardinalityType DEF AreItems
<1>3. Cardinality(A) <= Cardinality(B) /\ Cardinality(A) # Cardinality(B)
  BY <1>1, <1>2, FS_Subset
<1> QED
  BY <1>2, <1>3 DEF A, B, PlaceOf

LEMMA PlacesAre ==
  ASSUME NEW items, AreItems(items)
  PROVE  /\ \A x, y \in items : PlaceOf(x, items) < PlaceOf(y, items) => Sooner(x.doc, y.doc)
         /\ \A k \in 1..Cardinality(items) : \E x \in items : PlaceOf(x, items) = k
<1> DEFINE n == Cardinality(items)
<1>0. n \in Nat /\ IsFiniteSet(items)
  BY FS_CardinalityType DEF AreItems
<1>1. ASSUME NEW x \in items  PROVE  PlaceOf(x, items) \in 1..n
  <2> DEFINE A == {z \in items : Sooner(z.doc, x.doc)}
  <2>1. A \in SUBSET items /\ x \notin A
    BY SoonerIs DEF AreItems
  <2> HIDE DEF A
  <2>2. Cardinality(A) \in Nat /\ Cardinality(A) <= n /\ Cardinality(A) # n
    BY <1>0, <2>1, FS_Subset, FS_CardinalityType
  <2> QED
    BY <1>0, <2>2 DEF A, PlaceOf
<1> HIDE DEF n
<1>2. \A x, y \in items : x # y => PlaceOf(x, items) < PlaceOf(y, items) \/ PlaceOf(y, items) < PlaceOf(x, items)
  BY SoonerIs, PlacesGrow DEF AreItems
<1>3. \A x, y \in items : PlaceOf(x, items) = PlaceOf(y, items) => x = y
  BY <1>0, <1>1, <1>2
<1>4. ASSUME NEW x \in items, NEW y \in items, PlaceOf(x, items) < PlaceOf(y, items)  PROVE  Sooner(x.doc, y.doc)
  <2>1. PlaceOf(x, items) \in Nat /\ PlaceOf(y, items) \in Nat
    BY <1>0, <1>1
  <2>2. x.doc # y.doc /\ ~(PlaceOf(y, items) < PlaceOf(x, items))
    BY <1>4, <2>1 DEF AreItems
  <2> QED
    BY <2>2, SoonerIs, PlacesGrow DEF AreItems
<1>5. \A k \in 1..n : \E x \in items : PlaceOf(x, items) = k
  <2> DEFINE f == [x \in items |-> PlaceOf(x, items)]
  <2>1. f \in [items -> 1..n] /\ \A x \in items : f[x] = PlaceOf(x, items)
    BY <1>1
  <2> HIDE DEF f
  <2>2. f \in Injection(items, 1..n)
    BY <1>3, <2>1 DEF Injection, IsInjective
  <2>3. IsFiniteSet(1..n) /\ Cardinality(1..n) = n
    BY <1>0, FS_Interval
  <2>4. f \in Surjection(items, 1..n)
    BY <1>0, <2>2, <2>3, FS_Injection DEF n
  <2> QED
    BY <2>1, <2>4 DEF Surjection
<1> QED
  BY <1>4, <1>5 DEF n

OneEach(items) == \A i, j \in DOMAIN items : items[i].doc = items[j].doc => i = j

\* The changes of a plan, as they are shown.
ChangesOf(items) == {items[i] : i \in {j \in DOMAIN items : items[j].act # "unchanged"}}

LEMMA ChangesAre ==
  ASSUME NEW T, NEW items \in Seq(T), OneEach(items), \A i \in DOMAIN items : items[i].doc \in Pushed,
         NEW changes, changes = InOrder(ChangesOf(items))
  PROVE  /\ changes \in Seq(T) /\ OneEach(changes)
         /\ \A i \in DOMAIN changes :
              changes[i].act # "unchanged" /\ \E j \in DOMAIN items : changes[i] = items[j]
         /\ \A i, j \in DOMAIN changes :
              After(changes[i].doc) = changes[j].doc /\ i < j => InCycle(changes[i].doc)
<1> DEFINE S == ChangesOf(items)
           n == Cardinality(S)
<1>1. \A x \in S : x \in T /\ x.act # "unchanged" /\ \E j \in DOMAIN items : x = items[j]
  BY DEF ChangesOf
<1>2. AreItems(S) /\ n \in Nat
  <2>1. PICK m \in Nat : DOMAIN items = 1..m
    OBVIOUS
  <2> DEFINE D == {j \in DOMAIN items : items[j].act # "unchanged"}
             g == [i \in D |-> items[i]]
  <2>2. D \in SUBSET (1..m) /\ IsFiniteSet(1..m)
    <3>1. D \in SUBSET (1..m)
      BY <2>1
    <3>2. IsFiniteSet(1..m)
      BY FS_Interval
    <3> QED
      BY <3>1, <3>2
  <2>3. S = {items[i] : i \in D}
    BY DEF ChangesOf
  <2> HIDE DEF D, S
  <2>4. IsFiniteSet(D)
    BY <2>2, FS_Subset
  <2>5. IsFiniteSet(S)
    <3>1. g \in Surjection(D, S)
      BY <2>3 DEF Surjection
    <3> QED
      BY <2>4, <3>1, FS_Surjection
  <2>6. \A x, y \in S : x.doc = y.doc => x = y
    BY <1>1 DEF OneEach
  <2>7. \A x \in S : x.doc \in Pushed
    BY <1>1
  <2> QED
    BY <2>5, <2>6, <2>7, FS_CardinalityType DEF AreItems
<1>3. changes = [k \in 1..n |-> CHOOSE x \in S : PlaceOf(x, S) = k]
  BY DEF InOrder
<1> HIDE DEF S, n
<1>4. ASSUME NEW k \in 1..n  PROVE  changes[k] \in S /\ PlaceOf(changes[k], S) = k
  <2>1. \E x \in S : PlaceOf(x, S) = k
    BY <1>2, PlacesAre DEF n
  <2> QED
    BY <1>3, <2>1
<1>5. changes \in Seq(T) /\ DOMAIN changes = 1..n
  <2>1. changes \in [1..n -> T]
    BY <1>1, <1>3, <1>4
  <2> QED
    BY <1>2, <2>1, FunctionIsSeq
<1>6. ASSUME NEW i \in 1..n, NEW j \in 1..n, i < j
      PROVE  Sooner(changes[i].doc, changes[j].doc)
  BY <1>2, <1>4, <1>6, PlacesAre
<1>7. \A i \in 1..n : changes[i].doc \in Pushed
  BY <1>2, <1>4 DEF AreItems
<1>8. OneEach(changes)
  <2> SUFFICES ASSUME NEW i \in 1..n, NEW j \in 1..n, changes[i].doc = changes[j].doc, i # j
               PROVE  FALSE
    BY <1>5 DEF OneEach
  <2>1. i < j \/ j < i
    BY <1>2
  <2> QED
    BY <1>6, <1>7, <2>1, SoonerIs
<1>9. \A i, j \in 1..n :
        After(changes[i].doc) = changes[j].doc /\ i < j => InCycle(changes[i].doc)
  BY <1>6, <1>7, AfterIsSooner
<1> QED
  BY <1>1, <1>4, <1>5, <1>8, <1>9

-----------------------------------------------------------------------------
(***************************************************************************)
(* Customizations: the inductive invariant.                                *)
(***************************************************************************)
OnSite == CustomDocs \cup {NotThere(v) : v \in Nat}
MaybeFile == CustomFiles \cup {NoCustomFile}

SourceOK ==
  /\ source \in [Customs -> OnSite]
  /\ \A d \in Customs : source[d].there => <<d, Normal(source[d])>> \in had

PullStates ==
  [at : {"start", "read", "sidecar", "json", "remove", "done", "failed", "clash", "torn"},
   names : SUBSET Customs, rest : SUBSET Customs, docs : [Customs -> MaybeFile],
   old : BOOLEAN, stale : SUBSET Customs]
WasRead(d) == pull.docs[d] \in CustomFiles /\ <<d, pull.docs[d]>> \in had
AtWork(d) == d \in pull.rest /\ \A e \in pull.rest : d <= e
PullOK ==
  /\ pull \in PullStates
  /\ pull.at = "read" => \A d \in pull.names \ pull.rest : WasRead(d)
  /\ pull.at \in {"sidecar", "json", "remove"} => pull.rest \subseteq pull.names /\ \A d \in pull.names : WasRead(d)
  /\ pull.at = "json" => \A d \in Customs : AtWork(d) /\ pull.docs[d].script \in Text => sidecar[d] = pull.docs[d].script
  /\ pull.at = "remove" /\ pull.old => \A d \in Customs : AtWork(d) => json[d].script # Beside

\* What is read of a file is a document; between its parts a pull is at work.
FileOK(d) == json[d] = NoCustomFile \/ (json[d].there /\ Readable(d) /\ InFolder(d) \in CustomFiles)
FolderOK ==
  /\ DOMAIN json = Customs /\ sidecar \in [Customs -> Text \cup {"none"}]
  /\ \A d \in Customs : FileOK(d)
  /\ \A d \in Customs :
       json[d].there /\ ~(pull.at \in {"json", "torn"} /\ AtWork(d)) => <<d, InFolder(d)>> \in had

Fields == {"plain", "script", "after", "rows"}
Items == [act : {"create", "unchanged"}, doc : Customs]
           \cup [act : {"update"}, doc : Customs, fields : SUBSET Fields, ver : Nat]
PushStates ==
  [at : {"start", "refused", "plan", "failed", "shown", "ask", "cancelled", "apply", "stopped", "done"},
   rest : SUBSET Customs, docs : [Customs -> MaybeFile], items : Seq(Items),
   status : Seq({"waits", "done", "error", "skipped"}), dry : BOOLEAN, yes : BOOLEAN, wrote : [Customs -> Nat]]

\* A version of a document is one state of it.
ItemOK(it) ==
  /\ it.doc \in Pushed
  /\ it.act = "update" =>
       /\ it.ver <= target[it.doc].ver
       /\ target[it.doc].there /\ target[it.doc].ver = it.ver => it.fields = Differs(push.docs[it.doc], target[it.doc])
PlanOK ==
  /\ OneEach(push.items) /\ \A i \in DOMAIN push.items : ItemOK(push.items[i])
  /\ push.at \in {"start", "refused"} => push.items = <<>>
  /\ push.at = "plan" =>
       /\ push.rest \subseteq Pushed
       /\ \A d \in Pushed : d \notin push.rest <=> \E i \in DOMAIN push.items : push.items[i].doc = d
  /\ IF push.at \in {"start", "refused", "plan", "failed"} THEN push.status = <<>>
     ELSE Len(push.status) = Len(push.items) /\ \A i \in DOMAIN push.items : push.items[i].act # "unchanged"
  /\ push.at = "ask" => ~push.dry
  /\ push.at = "apply" => push.yes /\ ~push.dry
PushOK ==
  /\ target \in [Customs -> OnSite] /\ push \in PushStates
  /\ \A d \in Customs : push.wrote[d] <= target[d].ver
  /\ PlanOK /\ PushedOnce /\ InOrderOfAfter

CustomInv == SourceOK /\ PullOK /\ FolderOK /\ PushOK

-----------------------------------------------------------------------------
LEMMA OnSiteIs ==
  ASSUME NEW doc \in OnSite
  PROVE  doc.ver \in Nat /\ doc.there \in BOOLEAN /\ (doc.there => doc \in CustomDocs)
<1>1. CASE doc \in CustomDocs
  BY <1>1 DEF CustomDocs
<1>2. ASSUME NEW v \in Nat, doc = NotThere(v)  PROVE  doc.ver \in Nat /\ doc.there = FALSE
  BY <1>2 DEF NotThere
<1> QED
  BY <1>1, <1>2 DEF OnSite

LEMMA NormalIs ==
  ASSUME NEW doc \in CustomDocs
  PROVE  Normal(doc) \in CustomFiles
<1> DEFINE cols == [i \in DOMAIN doc.rows |-> doc.rows[i].col]
<1>1. doc.rows \in Seq([col : Nat, newer : Nat]) /\ doc.plain \in Nat /\ doc.after \in Nat
      /\ doc.script \in Text \cup {NoScript}
  BY DEF CustomDocs
<1>2. cols \in Seq(Nat)
  <2>1. PICK n \in Nat : DOMAIN doc.rows = 1..n
    BY <1>1
  <2>2. \A i \in 1..n : doc.rows[i].col \in Nat
    <3> DEFINE R == [col : Nat, newer : Nat]
               rows == doc.rows
    <3>2. rows \in Seq(R) /\ DOMAIN rows = 1..n
      BY <1>1, <2>1
    <3> HIDE DEF R, rows
    <3>3. \A i \in 1..n : rows[i] \in R
      BY <3>2
    <3>1. \A i \in 1..n : doc.rows[i] \in [col : Nat, newer : Nat]
      BY <3>3 DEF R, rows
    <3> QED
      BY <3>1
  <2>3. cols \in [1..n -> Nat]
    BY <2>1, <2>2
  <2> QED
    BY <2>3, FunctionIsSeq
<1> HIDE DEF cols
<1>3. Normal(doc) = [there |-> TRUE, plain |-> doc.plain, script |-> doc.script, rows |-> cols, after |-> doc.after]
  BY DEF Normal, cols
<1> QED
  BY <1>1, <1>2, <1>3 DEF CustomFiles

FileOf(plain, script, rows, after) ==
  [there |-> TRUE, plain |-> plain, script |-> script, rows |-> rows, after |-> after]

LEMMA ScriptIs ==
  ASSUME NEW plain, NEW script, NEW rows, NEW after, NEW new
  PROVE  WithScript(FileOf(plain, script, rows, after), new) = FileOf(plain, new, rows, after)
<1> DEFINE r == FileOf(plain, script, rows, after)
           e == [r EXCEPT !.script = new]
<1>1. /\ DOMAIN r = {"there", "plain", "script", "rows", "after"}
      /\ r.there = TRUE /\ r.plain = plain /\ r.rows = rows /\ r.after = after
  BY DEF FileOf
<1> HIDE DEF r
<1>2. /\ e = [f \in {"there", "plain", "script", "rows", "after"} |-> e[f]]
      /\ e.there = TRUE /\ e.plain = plain /\ e.rows = rows /\ e.after = after /\ e.script = new
  BY <1>1
<1> HIDE DEF e
<1>3. e = FileOf(plain, new, rows, after)
  BY <1>2 DEF FileOf
<1> QED
  BY <1>3 DEF r, e, WithScript

LEMMA JsonIs ==
  ASSUME NEW file \in CustomFiles
  PROVE  /\ InJson(file).there /\ InJson(file) # NoCustomFile
         /\ InJson(file).script = Beside <=> file.script \in Text
         /\ file.script \notin Text => InJson(file) = file
         /\ WithScript(InJson(file), file.script) = file
<1>1. PICK plain, script, rows, after :
        /\ file = FileOf(plain, script, rows, after) /\ file.script = script
        /\ script \in Text \cup {NoScript}
  <2>1. file = FileOf(file.plain, file.script, file.rows, file.after) /\ file.script \in Text \cup {NoScript}
    BY DEF CustomFiles, FileOf
  <2> QED
    BY <2>1
<1>2. Beside \notin Text /\ Beside # NoScript
  BY DEF Beside, Text, NoScript
<1> DEFINE s == IF script \in Text THEN Beside ELSE script
<1> HIDE DEF s
<1>3. InJson(file) = FileOf(plain, s, rows, after)
  <2>1. WithScript(file, Beside) = FileOf(plain, Beside, rows, after)
    BY <1>1, ScriptIs
  <2> QED
    BY <1>1, <2>1 DEF InJson, s
<1>4. WithScript(InJson(file), file.script) = file
  <2>1. WithScript(FileOf(plain, s, rows, after), script) = FileOf(plain, script, rows, after)
    BY ScriptIs
  <2> QED
    BY <1>1, <1>3, <2>1, Zenon
<1>5. LET f == FileOf(plain, s, rows, after) IN f.there /\ f.script = s /\ f # NoCustomFile
  BY DEF FileOf, NoCustomFile
<1>6. InJson(file).there /\ InJson(file).script = s /\ InJson(file) # NoCustomFile
  BY <1>3, <1>5, Zenon
<1>7. file.script \notin Text => InJson(file) = file
  BY DEF InJson
<1>8. InJson(file).script = Beside <=> file.script \in Text
  BY <1>1, <1>2, <1>6 DEF s
<1> QED
  BY <1>4, <1>6, <1>7, <1>8, Zenon

\* The rows a site makes of a file's are the file's.
LEMMA NewRowsAre ==
  ASSUME NEW rows \in Seq(Nat)
  PROVE  NewRows(rows) \in Seq([col : Nat, newer : Nat]) /\ SameRows(rows, NewRows(rows))
<1> DEFINE new == NewRows(rows)
<1>1. Len(rows) \in Nat /\ DOMAIN rows = 1..Len(rows)
  OBVIOUS
<1>2. new \in [1..Len(rows) -> [col : Nat, newer : Nat]] /\ \A i \in DOMAIN rows : new[i].col = rows[i]
  BY <1>1 DEF NewRows
<1> HIDE DEF new
<1>3. new \in Seq([col : Nat, newer : Nat]) /\ Len(new) = Len(rows)
  BY <1>1, <1>2, FunctionIsSeq
<1> QED
  BY <1>2, <1>3 DEF SameRows, new

\* What the site has after it took an item is what the file has.
LEMMA CreatedIs ==
  ASSUME NEW file \in CustomFiles, NEW ver \in Nat
  PROVE  /\ Created(file, ver) \in CustomDocs /\ Created(file, ver).ver = ver + 1
         /\ Differs(file, Created(file, ver)) = {}
<1> DEFINE new == [there |-> TRUE, ver |-> ver + 1, plain |-> file.plain, script |-> file.script,
                   rows |-> NewRows(file.rows), after |-> file.after, secret |-> "none"]
<1>1. Created(file, ver) = new
  BY DEF Created
<1>2. file.plain \in Nat /\ file.script \in Text \cup {NoScript} /\ file.rows \in Seq(Nat) /\ file.after \in Nat
  BY DEF CustomFiles
<1>3. NewRows(file.rows) \in Seq([col : Nat, newer : Nat]) /\ SameRows(file.rows, NewRows(file.rows))
  BY <1>2, NewRowsAre
<1>4. new \in CustomDocs
  BY <1>2, <1>3 DEF CustomDocs
<1>5. SameRows(file.rows, new.rows) /\ \A f \in {"plain", "script", "after"} : file[f] = new[f]
  BY <1>3
<1> QED
  BY <1>1, <1>4, <1>5 DEF Differs

LEMMA UpdatedIs ==
  ASSUME NEW file \in CustomFiles, NEW doc \in CustomDocs, NEW fields, fields = Differs(file, doc)
  PROVE  LET new == Updated(doc, file, fields)
         IN  new \in CustomDocs /\ new.ver = doc.ver + 1 /\ Differs(file, new) = {}
<1> DEFINE new == Updated(doc, file, fields)
<1>1. file.plain \in Nat /\ file.script \in Text \cup {NoScript} /\ file.rows \in Seq(Nat) /\ file.after \in Nat
  BY DEF CustomFiles
<1>2. NewRows(file.rows) \in Seq([col : Nat, newer : Nat]) /\ SameRows(file.rows, NewRows(file.rows))
  BY <1>1, NewRowsAre
<1>3. /\ DOMAIN doc = {"there", "ver", "plain", "script", "rows", "after", "secret"}
      /\ doc.there = TRUE /\ doc.ver \in Nat /\ doc.plain \in Nat /\ doc.script \in Text \cup {NoScript}
      /\ doc.rows \in Seq([col : Nat, newer : Nat]) /\ doc.after \in Nat /\ doc.secret \in {"old", "none"}
  BY DEF CustomDocs
<1>4. /\ "rows" \in fields <=> ~SameRows(file.rows, doc.rows)
      /\ "plain" \in fields <=> file.plain # doc.plain /\ file.plain # Cleared
      /\ "script" \in fields <=> file.script # doc.script
      /\ "after" \in fields <=> file.after # doc.after
      /\ "there" \notin fields /\ "secret" \notin fields
  BY DEF Differs
<1> HIDE DEF new
<1>5. /\ DOMAIN new = DOMAIN doc
      /\ new.there = doc.there /\ new.secret = doc.secret /\ new.ver = doc.ver + 1
      /\ new.plain = IF "plain" \in fields THEN file.plain ELSE doc.plain
      /\ new.script = IF "script" \in fields THEN file.script ELSE doc.script
      /\ new.after = IF "after" \in fields THEN file.after ELSE doc.after
      /\ new.rows = IF "rows" \in fields THEN NewRows(file.rows) ELSE doc.rows
  BY <1>3, <1>4 DEF Updated, new
<1>6. new = [there |-> new.there, ver |-> new.ver, plain |-> new.plain, script |-> new.script,
             rows |-> new.rows, after |-> new.after, secret |-> new.secret]
  BY <1>3, <1>5 DEF Updated, new
<1>7. new \in CustomDocs
  <2>1. new.there = TRUE /\ new.ver \in Nat /\ new.plain \in Nat /\ new.script \in Text \cup {NoScript}
        /\ new.after \in Nat /\ new.secret \in {"old", "none"}
    BY <1>1, <1>3, <1>5
  <2>2. new.rows \in Seq([col : Nat, newer : Nat])
    BY <1>2, <1>3, <1>5
  <2> QED
    BY <1>6, <2>1, <2>2 DEF CustomDocs
<1>8. /\ SameRows(file.rows, new.rows) /\ file.script = new.script /\ file.after = new.after
      /\ file.plain = new.plain \/ file.plain = Cleared
  BY <1>2, <1>4, <1>5
<1>9. Differs(file, new) = {}
  BY <1>8 DEF Differs
<1> QED
  BY <1>5, <1>7, <1>9 DEF new

-----------------------------------------------------------------------------
\* What a file read is, while the files do not change.
LEMMA FolderSame ==
  ASSUME NEW d, json'[d] = json[d], sidecar'[d] = sidecar[d] \/ (json[d].script # Beside /\ json[d].there)
  PROVE  (FileOK(d)' <=> FileOK(d)) /\ InFolder(d)' = InFolder(d)
BY DEF FileOK, Readable, InFolder

LEMMA WasReadStays ==
  ASSUME had \subseteq had', NEW d, WasRead(d), pull'.docs[d] = pull.docs[d]
  PROVE  WasRead(d)'
BY DEF WasRead

LEMMA CustomStarts == CustomInit => CustomInv
<1> SUFFICES ASSUME CustomInit PROVE CustomInv
  OBVIOUS
<1>1. source \in [Customs -> CustomDocs \cup {NoCustom}] /\ target \in [Customs -> CustomDocs \cup {NoCustom}]
  BY SitesAreOfCustoms DEF CustomInit
<1>2. source \in [Customs -> OnSite] /\ target \in [Customs -> OnSite]
  <2>1. NoCustom \in OnSite
    BY DEF NoCustom, OnSite
  <2> QED
    BY <1>1, <2>1 DEF OnSite
<1>3. SourceOK
  BY <1>2 DEF SourceOK, CustomInit, NamedCustoms
<1>4. PullOK
  BY DEF PullOK, PullStates, CustomInit, MaybeFile
<1>5. DOMAIN json = Customs /\ sidecar \in [Customs -> Text \cup {"none"}] /\ \A d \in Customs : FileOK(d)
  <2>1. PICK dir \in CustomDirs : json = dir.json /\ sidecar = dir.sidecar
    BY DEF CustomInit
  <2>2. DOMAIN json = Customs /\ sidecar \in [Customs -> Text \cup {"none"}]
    BY <2>1, DirsAreWhole
  <2>3. ASSUME NEW d \in Customs  PROVE  FileOK(d)
    <3>1. \/ json[d] = NoCustomFile
          \/ json[d] \in CustomFiles
          \/ json[d].script = Beside /\ WithScript(json[d], sidecar[d]) \in CustomFiles
      BY <2>1, DirsAreWhole
    <3>2. CASE json[d] \in CustomFiles
      <4>1. json[d].there = TRUE /\ json[d].script # Beside
        BY <3>2 DEF CustomFiles, Beside, Text, NoScript
      <4> QED
        BY <3>2, <4>1 DEF FileOK, Readable, InFolder
    <3>3. CASE json[d].script = Beside /\ WithScript(json[d], sidecar[d]) \in CustomFiles
      <4> DEFINE f == WithScript(json[d], sidecar[d])
      <4>1. /\ f.there = TRUE /\ f.script \in Text \cup {NoScript}
            /\ DOMAIN f = {"there", "plain", "script", "rows", "after"}
        BY <3>3 DEF CustomFiles
      <4>2. DOMAIN json[d] = DOMAIN f /\ json[d].there = f.there /\ f.script = sidecar[d]
        BY <4>1 DEF WithScript
      <4>3. sidecar[d] # "none"
        BY <4>1, <4>2 DEF Text, NoScript
      <4> QED
        BY <3>3, <4>1, <4>2, <4>3 DEF FileOK, Readable, InFolder
    <3> QED
      BY <3>1, <3>2, <3>3 DEF FileOK
  <2> QED
    BY <2>2, <2>3
<1>6. FolderOK
  BY <1>5 DEF FolderOK, CustomInit
<1>7. push \in PushStates /\ \A d \in Customs : push.wrote[d] <= target[d].ver
  <2>1. \A d \in Customs : target[d].ver \in Nat
    BY <1>2, OnSiteIs
  <2> QED
    BY <2>1 DEF CustomInit, PushStates, MaybeFile
<1>8. PlanOK /\ PushedOnce /\ InOrderOfAfter
  BY DEF CustomInit, PlanOK, OneEach, PushedOnce, InOrderOfAfter
<1> QED
  BY <1>2, <1>3, <1>4, <1>6, <1>7, <1>8 DEF CustomInv, PushOK

-----------------------------------------------------------------------------
(* A pull's steps.                                                         *)
LEMMA SourceStays == SourceOK /\ UNCHANGED <<source, had>> => SourceOK'
BY DEF SourceOK

LEMMA CycleStays ==
  ASSUME push'.docs = push.docs, NEW d
  PROVE  Pushed' = Pushed /\ After(d)' = After(d) /\ (InCycle(d)' <=> InCycle(d))
<1>1. Pushed' = Pushed /\ \A e : After(e)' = After(e)
  BY DEF Pushed, After
<1>2. \A e : Reached(e)' = Reached(e)
  BY <1>1 DEF Reached, Way
<1> QED
  BY <1>1, <1>2 DEF InCycle

LEMMA PushStays == PushOK /\ UNCHANGED <<target, push>> => PushOK'
<1> SUFFICES ASSUME PushOK, target' = target, push' = push PROVE PushOK'
  OBVIOUS
<1>1. PlanOK'
  BY CycleStays DEF PushOK, PlanOK, ItemOK, OneEach
<1>2. PushedOnce'
  BY DEF PushOK, PushedOnce
<1>3. InOrderOfAfter'
  BY CycleStays DEF PushOK, InOrderOfAfter
<1> QED
  BY <1>1, <1>2, <1>3 DEF PushOK

\* The files stay, and nothing is at work on one that was not before.
LEMMA FolderStays ==
  ASSUME FolderOK, UNCHANGED <<json, sidecar>>, had \subseteq had',
         \A d \in Customs : pull.at \in {"json", "torn"} /\ AtWork(d) => pull'.at \in {"json", "torn"} /\ AtWork(d)'
  PROVE  FolderOK'
<1>1. \A d \in Customs : FileOK(d)'
  BY FolderSame DEF FolderOK
<1>2. ASSUME NEW d \in Customs, json'[d].there, ~(pull'.at \in {"json", "torn"} /\ AtWork(d)')
      PROVE  <<d, InFolder(d)'>> \in had'
  BY <1>2, FolderSame DEF FolderOK
<1> QED
  BY <1>1, <1>2 DEF FolderOK

LEMMA PullReads ==
  ASSUME CustomInv, \/ CustomNames \/ NameFiles \/ StaleCustomFiles \/ PullKilled
                    \/ \E d \in Customs : FetchCustomDoc(d)
  PROVE  CustomInv'
<1> USE DEF PullGoes, NoPullWrite, OnlyPull
<1>1. SourceOK' /\ PushOK'
  BY SourceStays, PushStays DEF CustomInv, CustomNames, NameFiles, StaleCustomFiles, PullKilled, FetchCustomDoc
<1>2. CASE CustomNames
  <2>1. PullOK'
    <3>1. pull \in PullStates
      BY DEF CustomInv, PullOK
    <3>2. CASE pull' = [pull EXCEPT !.at = "failed"]
      BY <3>1, <3>2 DEF PullOK, PullStates
    <3>3. ASSUME NEW S \in SUBSET Customs, pull' = [pull EXCEPT !.at = "read", !.names = S, !.rest = S]
          PROVE  PullOK'
      <4>1. pull' \in PullStates /\ pull'.at = "read" /\ pull'.names \ pull'.rest = {}
        BY <3>1, <3>3 DEF PullStates
      <4> QED
        BY <4>1 DEF PullOK
    <3>4. NamedCustoms \in SUBSET Customs
      BY DEF NamedCustoms
    <3> QED
      BY <1>2, <3>2, <3>3, <3>4 DEF CustomNames
  <2>2. FolderOK'
    BY <1>2, FolderStays DEF CustomNames, CustomInv
  <2> QED
    BY <1>1, <2>1, <2>2 DEF CustomInv
<1>3. CASE NameFiles
  <2>1. PullOK'
    <3>1. pull \in PullStates /\ \A d \in pull.names : WasRead(d)
      BY <1>3 DEF NameFiles, CustomInv, PullOK
    <3>2. CASE pull' = [pull EXCEPT !.at = "clash"]
      BY <3>1, <3>2 DEF PullOK, PullStates
    <3>3. CASE pull' = [pull EXCEPT !.at = "sidecar", !.rest = pull.names]
      <4>1. pull' \in PullStates /\ pull'.at = "sidecar" /\ pull'.rest = pull'.names /\ pull'.names = pull.names
            /\ pull'.docs = pull.docs /\ had' = had
        BY <1>3, <3>1, <3>3 DEF PullStates, NameFiles
      <4>2. \A d \in pull'.names : WasRead(d)'
        BY <3>1, <4>1 DEF WasRead
      <4> QED
        BY <4>1, <4>2 DEF PullOK
    <3> QED
      BY <1>3, <3>2, <3>3 DEF NameFiles
  <2>2. FolderOK'
    BY <1>3, FolderStays DEF NameFiles, CustomInv
  <2> QED
    BY <1>1, <2>1, <2>2 DEF CustomInv
<1>4. CASE StaleCustomFiles
  <2>1. PullOK'
    BY <1>4 DEF StaleCustomFiles, CustomInv, PullOK, PullStates
  <2>2. FolderOK'
    BY <1>4, FolderStays DEF StaleCustomFiles, CustomInv
  <2> QED
    BY <1>1, <2>1, <2>2 DEF CustomInv
<1>5. CASE PullKilled
  <2>1. PullOK'
    BY <1>5 DEF PullKilled, CustomInv, PullOK, PullStates
  <2>2. FolderOK'
    BY <1>5, FolderStays DEF PullKilled, CustomInv, AtWork
  <2> QED
    BY <1>1, <2>1, <2>2 DEF CustomInv
<1>6. ASSUME NEW d \in Customs, FetchCustomDoc(d)  PROVE  CustomInv'
  <2>1. FolderOK'
    BY <1>6, FolderStays DEF FetchCustomDoc, CustomInv
  <2>2. CASE source[d].there /\ pull' = [pull EXCEPT !.rest = @ \ {d}, !.docs[d] = Normal(source[d])]
    <3>1. Normal(source[d]) \in CustomFiles /\ <<d, Normal(source[d])>> \in had
      <4>1. source[d] \in CustomDocs
        BY <2>2, OnSiteIs DEF CustomInv, SourceOK
      <4> QED
        BY <2>2, <4>1, NormalIs DEF CustomInv, SourceOK
    <3> DEFINE x == Normal(source[d])
    <3> HIDE DEF x
    <3>2. pull' = [pull EXCEPT !.rest = @ \ {d}, !.docs[d] = x] /\ x \in CustomFiles /\ <<d, x>> \in had
          /\ pull.at = "read" /\ pull \in PullStates /\ UNCHANGED <<had, json, sidecar>>
      BY <1>6, <2>2, <3>1 DEF x, FetchCustomDoc, CustomInv, PullOK
    <3>3. pull' \in PullStates /\ pull'.at = "read" /\ pull'.names = pull.names /\ pull'.rest = pull.rest \ {d}
          /\ pull'.docs[d] = x /\ \A e \in Customs \ {d} : pull'.docs[e] = pull.docs[e]
      BY <3>2 DEF PullStates, MaybeFile
    <3>4. ASSUME NEW e \in pull'.names \ pull'.rest  PROVE WasRead(e)'
      <4>1. e \in Customs /\ (e = d \/ e \in pull.names \ pull.rest)
        BY <3>3 DEF PullStates
      <4>2. CASE e = d
        BY <3>2, <3>3, <4>2 DEF WasRead
      <4>3. CASE e # d
        BY <3>2, <3>3, <4>1, <4>3 DEF WasRead, CustomInv, PullOK
      <4> QED
        BY <4>2, <4>3
    <3>5. PullOK'
      BY <3>3, <3>4 DEF PullOK
    <3> QED
      BY <1>1, <2>1, <3>5 DEF CustomInv
  <2>3. CASE pull' = [pull EXCEPT !.at = "failed"]
    <3>1. PullOK'
      BY <2>3 DEF CustomInv, PullOK, PullStates
    <3> QED
      BY <1>1, <2>1, <3>1 DEF CustomInv
  <2> QED
    BY <1>6, <2>2, <2>3 DEF FetchCustomDoc
<1> QED
  BY <1>2, <1>3, <1>4, <1>5, <1>6

LEMMA OneAtWork ==
  ASSUME pull \in PullStates, NEW d, AtWork(d)
  PROVE  d \in Customs /\ \A e : AtWork(e) => e = d
<1>1. pull.rest \in SUBSET Nat /\ pull.rest \in SUBSET Customs
  BY CustomsAreNumbers DEF PullStates
<1> QED
  BY <1>1 DEF AtWork

LEMMA OtherScript ==
  ASSUME NEW x, NEW s, NEW t \in Text \cup {NoScript}, WithScript(x, s) \in CustomFiles
  PROVE  WithScript(x, t) \in CustomFiles
<1> DEFINE f == WithScript(x, s)
           g == WithScript(x, t)
           Names == {"there", "plain", "script", "rows", "after"}
<1>1. /\ f.there = TRUE /\ f.plain \in Nat /\ f.rows \in Seq(Nat) /\ f.after \in Nat
      /\ DOMAIN f = Names
  BY DEF CustomFiles
<1>2. /\ DOMAIN f = DOMAIN x
      /\ \A n \in DOMAIN x \ {"script"} : f[n] = x[n]
  BY DEF WithScript
<1>3. /\ DOMAIN x = Names
      /\ x.there = TRUE /\ x.plain \in Nat /\ x.rows \in Seq(Nat) /\ x.after \in Nat
  <2> HIDE DEF f
  <2> QED
    BY <1>1, <1>2
<1>4. /\ g = [n \in Names |-> g[n]]
      /\ g.there = x.there /\ g.plain = x.plain /\ g.rows = x.rows /\ g.after = x.after /\ g.script = t
  BY <1>3 DEF WithScript
<1> HIDE DEF g
<1>5. g.there = TRUE /\ g.plain \in Nat /\ g.rows \in Seq(Nat) /\ g.after \in Nat /\ g.script \in Text \cup {NoScript}
  BY <1>3, <1>4
<1>6. g = [there |-> g.there, plain |-> g.plain, script |-> g.script, rows |-> g.rows, after |-> g.after]
  BY <1>4
<1>7. g \in CustomFiles
  BY <1>5, <1>6 DEF CustomFiles
<1> QED
  BY <1>7 DEF g

\* The three steps of a document's files.
LEMMA PullWrites ==
  ASSUME CustomInv, NEW d \in Customs, WriteSidecar(d) \/ WriteJson(d) \/ RemoveSidecar(d)
  PROVE  CustomInv'
<1> USE DEF PullGoes, NoPullWrite, OnlyPull
<1>1. SourceOK' /\ PushOK'
  BY SourceStays, PushStays DEF CustomInv, WriteSidecar, WriteJson, RemoveSidecar
<1> DEFINE file == pull.docs[d]
<1>2. /\ AtWork(d) /\ pull \in PullStates /\ pull.at \in {"sidecar", "json", "remove"} /\ had' = had
      /\ pull.rest \subseteq pull.names /\ \A e \in pull.names : WasRead(e)
      /\ DOMAIN json = Customs /\ sidecar \in [Customs -> Text \cup {"none"}] /\ \A e \in Customs : FileOK(e)
  BY DEF WriteSidecar, WriteJson, RemoveSidecar, WritesNow, AtWork, CustomInv, PullOK, FolderOK
<1>3. file \in CustomFiles /\ <<d, file>> \in had
  BY <1>2 DEF WasRead, AtWork
<1>4. \A e : AtWork(e) => e = d
  BY <1>2, OneAtWork
<1>5. \A e \in Customs : json[e].there /\ e # d => <<e, InFolder(e)>> \in had
  BY <1>4 DEF CustomInv, FolderOK
<1> HIDE DEF file
<1>6. ASSUME pull'.at \in {"failed", "torn"}, pull' = [pull EXCEPT !.at = pull'.at], UNCHANGED <<json, sidecar>>,
             pull.at = "json" => pull'.at = "torn"
      PROVE  CustomInv'
  <2>1. PullOK'
    <3>1. pull' \in PullStates
      BY <1>2, <1>6 DEF PullStates
    <3> QED
      BY <1>6, <3>1 DEF PullOK
  <2>2. FolderOK'
    BY <1>2, <1>6, FolderStays DEF CustomInv, AtWork, PullStates
  <2> QED
    BY <1>1, <2>1, <2>2 DEF CustomInv
<1>7. CASE WriteSidecar(d)
  <2>1. CASE pull' = [pull EXCEPT !.at = "failed"] /\ UNCHANGED sidecar
    BY <1>2, <1>6, <1>7, <2>1 DEF WriteSidecar, WritesNow, PullStates
  <2>2. CASE pull' = [pull EXCEPT !.at = "json"]
             /\ sidecar' = IF file.script \in Text THEN [sidecar EXCEPT ![d] = file.script] ELSE sidecar
    <3>1. /\ pull.at = "sidecar" /\ json' = json /\ pull'.at = "json" /\ pull' \in PullStates
          /\ pull'.rest = pull.rest /\ pull'.names = pull.names /\ pull'.docs = pull.docs
      BY <1>2, <1>7, <2>2 DEF WriteSidecar, WritesNow, PullStates
    <3>2. /\ sidecar' \in [Customs -> Text \cup {"none"}]
          /\ \A e \in Customs \ {d} : sidecar'[e] = sidecar[e]
          /\ file.script \in Text => sidecar'[d] = file.script
          /\ sidecar'[d] = sidecar[d] \/ sidecar'[d] \in Text
      BY <1>2, <2>2
    <3>3. \A e : AtWork(e)' <=> AtWork(e)
      BY <3>1 DEF AtWork
    <3>4. PullOK'
      <4>1. \A e \in pull'.names : WasRead(e)'
        BY <1>2, <3>1 DEF WasRead
      <4> QED
        BY <1>2, <1>4, <3>1, <3>2, <3>3, <4>1 DEF PullOK, file
    <3>5. FileOK(d)'
      <4>1. CASE sidecar'[d] = sidecar[d] \/ json[d].script # Beside \/ json[d] = NoCustomFile
        BY <1>2, <3>1, <4>1 DEF FileOK, Readable, InFolder
      <4>2. CASE sidecar'[d] \in Text /\ json[d].script = Beside /\ json[d] # NoCustomFile
        <5>1. json[d].there /\ WithScript(json[d], sidecar[d]) \in CustomFiles
          BY <1>2, <4>2 DEF FileOK, InFolder
        <5>2. WithScript(json[d], sidecar'[d]) \in CustomFiles
          BY <4>2, <5>1, OtherScript
        <5>3. sidecar'[d] # "none"
          BY <4>2 DEF Text
        <5> QED
          BY <3>1, <4>2, <5>1, <5>2, <5>3 DEF FileOK, Readable, InFolder
      <4> QED
        BY <3>2, <4>1, <4>2
    <3>6. \A e \in Customs \ {d} : FileOK(e)' /\ InFolder(e)' = InFolder(e)
      BY <1>2, <3>1, <3>2, FolderSame
    <3>7. FolderOK'
      BY <1>2, <1>5, <3>1, <3>2, <3>3, <3>5, <3>6 DEF FolderOK
    <3> QED
      BY <1>1, <3>4, <3>7 DEF CustomInv
  <2> QED
    BY <1>7, <2>1, <2>2 DEF WriteSidecar, file
<1>8. CASE WriteJson(d)
  <2>1. CASE pull' = [pull EXCEPT !.at = "torn"] /\ UNCHANGED json
    BY <1>2, <1>6, <1>8, <2>1 DEF WriteJson, WritesNow, PullStates
  <2>2. ASSUME NEW old \in BOOLEAN, old => file.script \notin Text,
               pull' = [pull EXCEPT !.at = "remove", !.old = old], json' = [json EXCEPT ![d] = InJson(file)]
        PROVE  CustomInv'
    <3>1. /\ pull.at = "json" /\ sidecar' = sidecar /\ pull'.at = "remove" /\ pull' \in PullStates
          /\ pull'.rest = pull.rest /\ pull'.names = pull.names /\ pull'.docs = pull.docs /\ pull'.old = old
      BY <1>2, <1>8, <2>2 DEF WriteJson, WritesNow, PullStates
    <3>2. /\ DOMAIN json' = Customs /\ json'[d] = InJson(file)
          /\ \A e \in Customs \ {d} : json'[e] = json[e]
      BY <1>2, <2>2
    <3>3. \A e : AtWork(e)' <=> AtWork(e)
      BY <3>1 DEF AtWork
    <3>4. file.script \in Text => sidecar[d] = file.script
      BY <1>2, <3>1 DEF CustomInv, PullOK, file
    <3>5. PullOK'
      <4>1. \A e \in pull'.names : WasRead(e)'
        BY <1>2, <3>1 DEF WasRead
      <4>2. old => json'[d].script # Beside
        BY <1>3, <2>2, <3>2, JsonIs
      <4> QED
        BY <1>2, <1>4, <3>1, <3>3, <4>1, <4>2 DEF PullOK
    <3>6. FileOK(d)' /\ InFolder(d)' = file
      <4>1. CASE file.script \in Text
        <5>1. file.script # "none"
          BY <4>1 DEF Text
        <5> QED
          BY <1>3, <3>1, <3>2, <3>4, <4>1, <5>1, JsonIs DEF FileOK, Readable, InFolder
      <4>2. CASE file.script \notin Text
        BY <1>3, <3>1, <3>2, <4>2, JsonIs DEF FileOK, Readable, InFolder
      <4> QED
        BY <4>1, <4>2
    <3>7. \A e \in Customs \ {d} : FileOK(e)' /\ InFolder(e)' = InFolder(e)
      BY <1>2, <3>1, <3>2, FolderSame
    <3>8. FolderOK'
      BY <1>2, <1>3, <1>5, <3>1, <3>2, <3>6, <3>7 DEF FolderOK
    <3> QED
      BY <1>1, <3>5, <3>8 DEF CustomInv
  <2> QED
    BY <1>8, <2>1, <2>2 DEF WriteJson, file
<1>9. CASE RemoveSidecar(d)
  <2>1. /\ pull.at = "remove" /\ json' = json /\ pull'.at = "sidecar" /\ pull' \in PullStates
        /\ pull'.rest = pull.rest \ {d} /\ pull'.names = pull.names /\ pull'.docs = pull.docs
    BY <1>2, <1>9 DEF RemoveSidecar, WritesNow, PullStates
  <2>2. /\ sidecar' \in [Customs -> Text \cup {"none"}]
        /\ \A e \in Customs \ {d} : sidecar'[e] = sidecar[e]
        /\ sidecar'[d] = sidecar[d] \/ json[d].script # Beside
    BY <1>2, <1>9, <2>1 DEF RemoveSidecar, CustomInv, PullOK
  <2>3. PullOK'
    <3>1. \A e \in pull'.names : WasRead(e)'
      BY <1>2, <2>1 DEF WasRead
    <3> QED
      BY <1>2, <2>1, <3>1 DEF PullOK
  <2>4. \A e \in Customs : FileOK(e)' /\ (json[e].there => InFolder(e)' = InFolder(e))
    BY <1>2, <2>1, <2>2 DEF FileOK, Readable, InFolder
  <2>5. \A e \in Customs : json[e].there => <<e, InFolder(e)>> \in had
    BY <2>1 DEF CustomInv, FolderOK
  <2>6. FolderOK'
    BY <1>2, <2>1, <2>2, <2>4, <2>5 DEF FolderOK
  <2> QED
    BY <1>1, <2>3, <2>6 DEF CustomInv
<1> QED
  BY <1>7, <1>8, <1>9

-----------------------------------------------------------------------------
(* A push's steps.                                                         *)
LEMMA PullStays ==
  SourceOK /\ PullOK /\ FolderOK /\ UNCHANGED <<source, json, sidecar, pull, had>> => SourceOK' /\ PullOK' /\ FolderOK'
<1> SUFFICES ASSUME SourceOK, PullOK, FolderOK, UNCHANGED <<source, json, sidecar, pull, had>>
             PROVE  SourceOK' /\ PullOK' /\ FolderOK'
  OBVIOUS
<1>1. \A d : AtWork(d)' = AtWork(d) /\ WasRead(d)' = WasRead(d)
  BY DEF AtWork, WasRead
<1>2. PullOK'
  BY <1>1 DEF PullOK
<1> QED
  BY <1>1, <1>2, SourceStays, FolderStays

LEMMA PushPlans ==
  ASSUME CustomInv, NEW dry \in BOOLEAN, NEW yes \in BOOLEAN, ReadCustomDir(dry, yes)
  PROVE  PushOK'
<1> DEFINE listed == {d \in Customs : json[d].there}
           docs == [d \in Customs |-> IF d \in listed THEN InFolder(d) ELSE NoCustomFile]
<1>1. push \in PushStates /\ target' = target /\ push.items = <<>> /\ push.status = <<>>
      /\ target \in [Customs -> OnSite] /\ \A d \in Customs : push.wrote[d] <= target[d].ver
  BY DEF CustomInv, PushOK, PlanOK, ReadCustomDir, NoRequest
<1>2. CASE push' = [push EXCEPT !.at = "refused"]
  <2>1. push' \in PushStates /\ push'.at = "refused" /\ push'.items = <<>> /\ push'.status = <<>>
        /\ push'.wrote = push.wrote
    BY <1>1, <1>2 DEF PushStates
  <2> QED
    BY <1>1, <2>1 DEF PushOK, PlanOK, OneEach, PushedOnce, InOrderOfAfter
<1>3. CASE push' = [push EXCEPT !.at = "plan", !.rest = listed, !.dry = dry, !.yes = yes, !.docs = docs]
  <2>1. docs \in [Customs -> MaybeFile]
    <3>1. \A d \in listed : InFolder(d) \in CustomFiles
      BY DEF CustomInv, FolderOK, FileOK, NoCustomFile
    <3> QED
      BY <3>1 DEF MaybeFile
  <2>2. {d \in Customs : docs[d].there} = listed
    <3>1. \A d \in listed : docs[d].there
      <4>1. \A d \in listed : InFolder(d) \in CustomFiles
        BY DEF CustomInv, FolderOK, FileOK, NoCustomFile
      <4>2. \A file \in CustomFiles : file.there
        BY DEF CustomFiles
      <4> QED
        BY <4>1, <4>2
    <3>2. \A d \in Customs \ listed : ~docs[d].there
      BY DEF NoCustomFile
    <3> QED
      BY <3>1, <3>2
  <2>3. listed \in SUBSET Customs
    OBVIOUS
  <2> HIDE DEF listed, docs
  <2>4. push' \in PushStates /\ push'.at = "plan" /\ push'.items = <<>> /\ push'.status = <<>>
        /\ push'.wrote = push.wrote /\ push'.rest = listed /\ push'.docs = docs
    BY <1>1, <1>3, <2>1, <2>3 DEF PushStates
  <2>5. Pushed' = listed
    BY <2>2, <2>4 DEF Pushed
  <2> QED
    BY <1>1, <2>4, <2>5 DEF PushOK, PlanOK, OneEach, PushedOnce, InOrderOfAfter
<1> QED
  BY <1>2, <1>3 DEF ReadCustomDir, PushGoes

\* A push goes to another place; its plan is the same.
LEMMA PushGoesOn ==
  ASSUME PushOK, target' = target, push' \in PushStates, push'.docs = push.docs, push'.items = push.items,
         push'.wrote = push.wrote, push'.at \in {"failed", "cancelled", "apply", "stopped", "done"},
         IF push'.at = "failed" THEN push.at = "plan" /\ push'.status = push.status
         ELSE push.at \notin {"start", "refused", "plan", "failed"} /\ DOMAIN push'.status = DOMAIN push.status,
         \A i \in DOMAIN push'.status : push'.status[i] = "done" => push.status[i] = "done",
         push'.at = "apply" => push'.yes /\ ~push'.dry
  PROVE  PushOK'
<1>1. \A it : ItemOK(it)' <=> ItemOK(it)
  BY CycleStays DEF ItemOK
<1>2. Len(push'.status) = Len(push.status)
  <2>1. push.status \in Seq({"waits", "done", "error", "skipped"})
        /\ push'.status \in Seq({"waits", "done", "error", "skipped"})
    BY DEF PushOK, PushStates
  <2>2. DOMAIN push'.status = DOMAIN push.status
    OBVIOUS
  <2> QED
    BY <2>1, <2>2
<1>3. PlanOK'
  BY <1>1, <1>2 DEF PushOK, PlanOK, OneEach
<1>4. PushedOnce'
  <2>1. DOMAIN push'.status = DOMAIN push.status
    OBVIOUS
  <2> QED
    BY <2>1 DEF PushOK, PushedOnce
<1>5. InOrderOfAfter'
  BY CycleStays DEF PushOK, InOrderOfAfter
<1> QED
  BY <1>3, <1>4, <1>5 DEF PushOK

LEMMA DiffersIs ==
  ASSUME NEW file, NEW doc
  PROVE  Differs(file, doc) \in SUBSET Fields
BY DEF Differs, Fields

LEMMA PushReads ==
  ASSUME CustomInv, NEW d \in Customs, PlanCustomPush(d)
  PROVE  PushOK'
<1>1. /\ push \in PushStates /\ target' = target /\ push.at = "plan" /\ d \in push.rest /\ push.status = <<>>
      /\ PushOK /\ PlanOK
  BY DEF CustomInv, PushOK, PlanOK, PlanCustomPush, NoRequest
<1>2. CASE push' = [push EXCEPT !.at = "failed"]
  <2>1. /\ push' \in PushStates /\ push'.at = "failed" /\ push'.items = push.items /\ push'.status = push.status
        /\ push'.wrote = push.wrote /\ push'.docs = push.docs
    BY <1>1, <1>2 DEF PushStates
  <2> QED
    BY <1>1, <2>1, PushGoesOn
<1> DEFINE diff == Differs(push.docs[d], target[d])
           item == IF ~target[d].there THEN [act |-> "create", doc |-> d]
                   ELSE IF diff = {} THEN [act |-> "unchanged", doc |-> d]
                   ELSE [act |-> "update", doc |-> d, fields |-> diff, ver |-> target[d].ver]
<1>3. CASE push' = [push EXCEPT !.rest = @ \ {d}, !.items = Append(@, item)]
  <2>1. target[d].ver \in Nat /\ d \in Pushed
    BY <1>1, OnSiteIs DEF PushOK, PlanOK
  <2>2. diff \in SUBSET Fields
    BY DiffersIs
  <2>3. item \in Items /\ item.doc = d /\ ItemOK(item)
    <3> HIDE DEF diff
    <3>1. item \in Items /\ item.doc = d
      BY <2>1, <2>2 DEF Items
    <3>2. item.act = "update" => item.ver = target[d].ver /\ item.fields = diff
      OBVIOUS
    <3> HIDE DEF item
    <3> QED
      BY <2>1, <3>1, <3>2 DEF ItemOK, diff
  <2> HIDE DEF item, diff
  <2>4. /\ push' \in PushStates /\ push'.at = "plan" /\ push'.items = Append(push.items, item)
        /\ push'.rest = push.rest \ {d} /\ push'.status = <<>> /\ push'.wrote = push.wrote /\ push'.docs = push.docs
    <3> DEFINE items == Append(push.items, item)
               rest == push.rest \ {d}
    <3>1. items \in Seq(Items) /\ rest \in SUBSET Customs
      BY <1>1, <2>3 DEF PushStates
    <3>2. push' = [push EXCEPT !.rest = rest, !.items = items]
      BY <1>3
    <3> HIDE DEF items, rest
    <3> QED
      BY <1>1, <3>1, <3>2 DEF PushStates, items, rest
  <2> DEFINE n == Len(push.items)
  <2>5. /\ n \in Nat /\ DOMAIN push.items = 1..n /\ DOMAIN push'.items = 1..n + 1
        /\ push'.items[n + 1] = item /\ \A i \in 1..n : push'.items[i] = push.items[i]
    <3>1. push.items \in Seq(Items)
      BY <1>1 DEF PushStates
    <3> QED
      BY <2>3, <2>4, <3>1
  <2> HIDE DEF n
  <2>6. \A it : ItemOK(it)' <=> ItemOK(it)
    BY <1>1, <2>4, CycleStays DEF ItemOK
  <2>7. \A i \in 1..n : push.items[i].doc # d /\ ItemOK(push.items[i])
    BY <1>1, <2>1, <2>5 DEF PlanOK
  <2>8. OneEach(push.items)
    BY <1>1 DEF PlanOK
  <2>9. \A i \in DOMAIN push'.items : (i \in 1..n /\ push'.items[i] = push.items[i]) \/ (i = n + 1 /\ push'.items[i] = item)
    BY <2>5
  <2>10. OneEach(push'.items)
    <3>1. ASSUME NEW i \in DOMAIN push'.items, NEW j \in DOMAIN push'.items, push'.items[i].doc = push'.items[j].doc
          PROVE  i = j
      <4>1. CASE i \in 1..n /\ j \in 1..n
        BY <2>5, <2>8, <3>1, <4>1 DEF OneEach
      <4>2. CASE i = n + 1 \/ j = n + 1
        BY <2>3, <2>5, <2>7, <2>9, <3>1, <4>2
      <4> QED
        BY <2>9, <4>1, <4>2
    <3> QED
      BY <3>1 DEF OneEach
  <2>11. ASSUME NEW i \in DOMAIN push'.items  PROVE  ItemOK(push.items[i])'
    <3>1. PICK it : it = push'.items[i] /\ ItemOK(it)
      BY <2>3, <2>7, <2>9
    <3>2. ItemOK(it)'
      BY <2>6, <3>1
    <3> QED
      BY <3>1, <3>2 DEF ItemOK
  <2>12. Pushed' = Pushed
    BY <2>4, CycleStays
  <2>13. ASSUME NEW e \in Pushed  PROVE  e \notin push'.rest <=> \E i \in DOMAIN push'.items : push'.items[i].doc = e
    <3>1. e \notin push.rest <=> \E i \in 1..n : push.items[i].doc = e
      BY <1>1, <2>5 DEF PlanOK
    <3>2. e \notin push'.rest <=> e = d \/ e \notin push.rest
      BY <2>4
    <3>3. (\E i \in DOMAIN push'.items : push'.items[i].doc = e) <=> e = d \/ \E i \in 1..n : push.items[i].doc = e
      <4>1. n + 1 \in DOMAIN push'.items /\ 1..n \subseteq DOMAIN push'.items
        BY <2>5
      <4>2. \A i \in 1..n : push'.items[i].doc = push.items[i].doc
        BY <2>5
      <4>3. push'.items[n + 1].doc = d
        BY <2>3, <2>5
      <4> QED
        BY <2>9, <4>1, <4>2, <4>3
    <3> QED
      BY <3>1, <3>2, <3>3
  <2>14. push'.rest \subseteq Pushed
    BY <1>1, <2>4 DEF PlanOK
  <2>15. PlanOK'
    <3>1. push'.at = "plan" => \A e \in Pushed' : e \notin push'.rest <=> \E i \in DOMAIN push'.items : push'.items[i].doc = e
      BY <2>12, <2>13
    <3>2. OneEach(push.items)'
      BY <2>10 DEF OneEach
    <3> QED
      BY <2>4, <2>11, <2>12, <2>14, <3>1, <3>2 DEF PlanOK
  <2> QED
    BY <1>1, <2>4, <2>15 DEF PushOK, PushedOnce, InOrderOfAfter
<1> QED
  BY <1>2, <1>3 DEF PlanCustomPush, PushGoes

\* The plan is put in order and shown.
LEMMA PushShows ==
  ASSUME CustomInv, ShowPlan
  PROVE  PushOK'
<1>1. /\ push \in PushStates /\ target' = target /\ push.at = "plan" /\ push.rest = {} /\ push.status = <<>>
      /\ PushOK /\ PlanOK
  BY DEF CustomInv, PushOK, PlanOK, ShowPlan, NoRequest
<1> DEFINE changes == InOrder(ChangesOf(push.items))
           status == [i \in DOMAIN changes |-> "waits"]
           at == IF push.dry \/ changes = <<>> THEN "shown" ELSE IF push.yes THEN "apply" ELSE "ask"
<1>2. push' = [push EXCEPT !.items = changes, !.status = status, !.at = at]
  BY DEF ShowPlan, ChangesOf
<1>3. /\ changes \in Seq(Items) /\ OneEach(changes)
      /\ \A i \in DOMAIN changes : changes[i].act # "unchanged" /\ \E j \in DOMAIN push.items : changes[i] = push.items[j]
      /\ \A i, j \in DOMAIN changes : After(changes[i].doc) = changes[j].doc /\ i < j => InCycle(changes[i].doc)
  <2>1. push.items \in Seq(Items) /\ OneEach(push.items)
    BY <1>1 DEF PushStates, PlanOK
  <2>2. \A i \in DOMAIN push.items : push.items[i].doc \in Pushed
    BY <1>1 DEF PlanOK, ItemOK
  <2>3. changes = InOrder(ChangesOf(push.items))
    OBVIOUS
  <2> HIDE DEF changes
  <2> QED
    BY <2>1, <2>2, <2>3, ChangesAre
<1> HIDE DEF changes
<1>4. status \in Seq({"waits", "done", "error", "skipped"}) /\ Len(status) = Len(changes)
      /\ \A i \in DOMAIN status : status[i] = "waits"
  <2>1. Len(changes) \in Nat /\ DOMAIN changes = 1..Len(changes)
    BY <1>3
  <2>2. status \in [1..Len(changes) -> {"waits", "done", "error", "skipped"}]
    BY <2>1
  <2> HIDE DEF status
  <2>3. status \in Seq({"waits", "done", "error", "skipped"}) /\ Len(status) = Len(changes)
    BY <2>1, <2>2, FunctionIsSeq
  <2> QED
    BY <2>3 DEF status
<1> HIDE DEF status
<1>5. at \in {"shown", "ask", "apply"} /\ (at # "shown" => ~push.dry) /\ (at = "apply" => push.yes)
  OBVIOUS
<1> HIDE DEF at
<1>6. /\ push' \in PushStates /\ push'.at = at /\ push'.items = changes /\ push'.status = status
      /\ push'.docs = push.docs /\ push'.wrote = push.wrote /\ push'.dry = push.dry /\ push'.yes = push.yes
  BY <1>1, <1>2, <1>3, <1>4, <1>5 DEF PushStates
<1>7. ASSUME NEW i \in DOMAIN push'.items  PROVE  ItemOK(push.items[i])'
  <2>1. PICK it : it = push'.items[i] /\ ItemOK(it)
    BY <1>1, <1>3, <1>6 DEF PlanOK
  <2>2. ItemOK(it)'
    BY <1>1, <1>6, <2>1, CycleStays DEF ItemOK
  <2> QED
    BY <2>1, <2>2 DEF ItemOK
<1>8. PlanOK'
  <2>1. OneEach(push.items)'
    BY <1>3, <1>6 DEF OneEach
  <2> QED
    BY <1>3, <1>4, <1>5, <1>6, <1>7, <2>1 DEF PlanOK
<1>9. PushedOnce'
  BY <1>4, <1>6 DEF PushedOnce
<1>10. InOrderOfAfter'
  BY <1>3, <1>6, CycleStays DEF InOrderOfAfter
<1> QED
  BY <1>1, <1>6, <1>8, <1>9, <1>10 DEF PushOK

LEMMA PushIsAnswered ==
  ASSUME CustomInv, NEW answer \in BOOLEAN, AnswerPlan(answer)
  PROVE  PushOK'
<1>1. push \in PushStates /\ target' = target /\ push.at = "ask" /\ ~push.dry /\ PushOK
  BY DEF CustomInv, PushOK, PlanOK, AnswerPlan, NoRequest
<1>2. CASE push' = [push EXCEPT !.at = "apply", !.yes = TRUE]
  <2>1. /\ push' \in PushStates /\ push'.at = "apply" /\ push'.items = push.items /\ push'.status = push.status
        /\ push'.docs = push.docs /\ push'.wrote = push.wrote /\ push'.yes /\ ~push'.dry
    BY <1>1, <1>2 DEF PushStates
  <2> QED
    BY <1>1, <2>1, PushGoesOn
<1>3. CASE push' = [push EXCEPT !.at = "cancelled"]
  <2>1. /\ push' \in PushStates /\ push'.at = "cancelled" /\ push'.items = push.items /\ push'.status = push.status
        /\ push'.docs = push.docs /\ push'.wrote = push.wrote
    BY <1>1, <1>3 DEF PushStates
  <2> QED
    BY <1>1, <2>1, PushGoesOn
<1> QED
  BY <1>2, <1>3 DEF AnswerPlan, PushGoes

LEMMA PushStops ==
  ASSUME CustomInv, StopPush
  PROVE  PushOK'
<1> DEFINE status == [i \in DOMAIN push.status |-> IF push.status[i] = "waits" THEN "skipped" ELSE push.status[i]]
<1>1. push \in PushStates /\ target' = target /\ push.at \in {"apply", "stopped"} /\ PushOK
      /\ push.status \in Seq({"waits", "done", "error", "skipped"})
  BY DEF CustomInv, PushOK, PushStates, StopPush, NoRequest
<1>2. push' = [push EXCEPT !.at = "done", !.status = status]
  BY DEF StopPush
<1>3. /\ status \in Seq({"waits", "done", "error", "skipped"}) /\ DOMAIN status = DOMAIN push.status
      /\ \A i \in DOMAIN status : status[i] = "done" => push.status[i] = "done"
  <2>1. Len(push.status) \in Nat /\ DOMAIN push.status = 1..Len(push.status)
    BY <1>1
  <2>2. \A i \in DOMAIN push.status : push.status[i] \in {"waits", "done", "error", "skipped"}
    BY <1>1
  <2>3. status \in [1..Len(push.status) -> {"waits", "done", "error", "skipped"}]
    BY <2>1, <2>2
  <2>4. status \in Seq({"waits", "done", "error", "skipped"})
    <3> HIDE DEF status
    <3> QED
      BY <2>1, <2>3, FunctionIsSeq
  <2> QED
    BY <2>4
<1> HIDE DEF status
<1>4. /\ push' \in PushStates /\ push'.at = "done" /\ push'.items = push.items /\ push'.status = status
      /\ push'.docs = push.docs /\ push'.wrote = push.wrote
  BY <1>1, <1>2, <1>3 DEF PushStates
<1> QED
  BY <1>1, <1>3, <1>4, PushGoesOn

-----------------------------------------------------------------------------
(* What a document becomes has a later version.                            *)
Later(doc, new) == doc.ver <= new.ver /\ (new.there => doc.ver < new.ver)
TargetGrows ==
  /\ target \in [Customs -> OnSite] /\ target' \in [Customs -> OnSite]
  /\ \A d \in Customs : target'[d] = target[d] \/ Later(target[d], target'[d])

LEMMA ItemStays ==
  ASSUME TargetGrows, push'.docs = push.docs, NEW it \in Items, ItemOK(it)
  PROVE  ItemOK(it)'
<1>1. Pushed' = Pushed /\ it.doc \in Pushed /\ it.doc \in Customs
  BY CycleStays DEF ItemOK, Pushed
<1>2. CASE it.act = "update"
  <2>1. it.ver \in Nat /\ target[it.doc].ver \in Nat /\ target'[it.doc].ver \in Nat
    BY <1>1, <1>2, OnSiteIs DEF Items, TargetGrows
  <2>2. target'[it.doc] = target[it.doc] \/ Later(target[it.doc], target'[it.doc])
    BY <1>1 DEF TargetGrows
  <2> QED
    BY <1>1, <1>2, <2>1, <2>2 DEF ItemOK, Later
<1> QED
  BY <1>1, <1>2 DEF ItemOK

LEMMA ItemsAre ==
  ASSUME PushOK
  PROVE  \A i \in DOMAIN push.items : push.items[i] \in Items
<1>1. push.items \in Seq(Items)
  BY DEF PushOK, PushStates
<1> HIDE DEF Items
<1> QED
  BY <1>1

LEMMA OthersSave ==
  ASSUME PushOK, TargetGrows, push' = push
  PROVE  PushOK'
<1>1. \A i \in DOMAIN push.items : ItemOK(push.items[i])'
  <2> SUFFICES ASSUME NEW i \in DOMAIN push.items  PROVE ItemOK(push.items[i])'
    OBVIOUS
  <2>1. PICK it \in Items : it = push.items[i] /\ ItemOK(it)
    BY ItemsAre DEF PushOK, PlanOK
  <2>2. ItemOK(it)'
    BY <2>1, ItemStays
  <2> QED
    BY <2>1, <2>2 DEF ItemOK
<1>2. PlanOK'
  BY <1>1, CycleStays DEF PushOK, PlanOK, OneEach
<1>3. \A d \in Customs : push.wrote[d] \in Nat /\ target[d].ver \in Nat /\ target'[d].ver \in Nat
  BY OnSiteIs DEF PushOK, PushStates, TargetGrows
<1>4. \A d \in Customs : push.wrote[d] <= target[d].ver
  BY DEF PushOK
<1>5. \A d \in Customs : push.wrote[d] <= target'[d].ver
  BY <1>3, <1>4 DEF TargetGrows, Later
<1>6. \A d \in Customs : target'[d].there /\ target'[d].ver = push.wrote[d] => target'[d] = target[d]
  BY <1>3, <1>4 DEF TargetGrows, Later
<1>7. PushedOnce'
  <2> SUFFICES ASSUME NEW i \in DOMAIN push.status, push.status[i] = "done",
                      target'[push.items[i].doc].there,
                      target'[push.items[i].doc].ver = push.wrote[push.items[i].doc]
               PROVE  Differs(push.docs[push.items[i].doc], target'[push.items[i].doc]) = {}
    BY DEF PushedOnce
  <2>1. i \in DOMAIN push.items
    <3>1. push.status \in Seq({"waits", "done", "error", "skipped"}) /\ push.items \in Seq(Items)
      BY DEF PushOK, PushStates
    <3>2. push.status = <<>> \/ Len(push.status) = Len(push.items)
      BY DEF PushOK, PlanOK
    <3> HIDE DEF Items
    <3> QED
      BY <3>1, <3>2
  <2>2. push.items[i].doc \in Customs
    BY <2>1 DEF PushOK, PlanOK, ItemOK, Pushed
  <2> QED
    BY <1>6, <2>2 DEF PushOK, PushedOnce
<1>8. InOrderOfAfter'
  BY CycleStays DEF PushOK, InOrderOfAfter
<1> QED
  BY <1>2, <1>5, <1>7, <1>8 DEF PushOK, TargetGrows

LEMMA NotThereIs ==
  ASSUME NEW v \in Nat
  PROVE  NotThere(v) \in OnSite /\ NotThere(v).ver = v /\ NotThere(v).there = FALSE
<1>1. NotThere(v) \in {NotThere(w) : w \in Nat}
  OBVIOUS
<1> QED
  BY <1>1 DEF OnSite, NotThere

DocFields == {"there", "ver", "plain", "script", "rows", "after", "secret"}
LEMMA DocIs ==
  ASSUME NEW old \in CustomDocs, NEW doc, doc = [f \in DocFields |-> doc[f]],
         doc.ver = old.ver + 1, doc.script \in Text \cup {NoScript}, doc.plain \in Nat,
         \A f \in {"there", "rows", "after", "secret"} : doc[f] = old[f]
  PROVE  doc \in OnSite /\ Later(old, doc)
<1>1. /\ old.there = TRUE /\ old.ver \in Nat /\ old.rows \in Seq([col : Nat, newer : Nat])
      /\ old.after \in Nat /\ old.secret \in {"old", "none"}
  BY DEF CustomDocs
<1>2. /\ doc.there = TRUE /\ doc.ver \in Nat /\ doc.rows \in Seq([col : Nat, newer : Nat])
      /\ doc.after \in Nat /\ doc.secret \in {"old", "none"}
  BY <1>1
<1>3. doc = [there |-> doc.there, ver |-> doc.ver, plain |-> doc.plain, script |-> doc.script,
             rows |-> doc.rows, after |-> doc.after, secret |-> doc.secret]
  BY DEF DocFields
<1>4. doc \in CustomDocs
  BY <1>2, <1>3 DEF CustomDocs
<1> QED
  BY <1>1, <1>4 DEF OnSite, Later

LEMMA SavesAreLater ==
  ASSUME NEW site \in [Customs -> OnSite], NEW d \in Customs, NEW doc \in Saves(site, d)
  PROVE  doc \in OnSite /\ Later(site[d], doc)
<1> DEFINE old == site[d]
<1>1. old \in OnSite /\ old.ver \in Nat
  BY OnSiteIs
<1> HIDE DEF old
<1>2. CASE old.there
  <2>1. old \in CustomDocs
    BY <1>1, <1>2, OnSiteIs
  <2>2. DOMAIN old = DocFields /\ old.plain \in Nat
    BY <2>1 DEF CustomDocs, DocFields
  <2>3. CASE doc = NotThere(old.ver)
    <3>1. doc \in OnSite /\ doc.ver = old.ver /\ doc.there = FALSE
      BY <1>1, <2>3, NotThereIs
    <3> QED
      BY <1>1, <3>1 DEF Later, old
  <2>4. ASSUME NEW s \in Text \cup {NoScript}, doc = [old EXCEPT !.ver = @ + 1, !.script = s]
        PROVE  doc \in OnSite /\ Later(old, doc)
    <3>1. doc = [f \in DocFields |-> doc[f]] /\ doc.ver = old.ver + 1 /\ doc.script = s
          /\ \A f \in {"there", "plain", "rows", "after", "secret"} : doc[f] = old[f]
      BY <2>2, <2>4 DEF DocFields
    <3> QED
      BY <2>1, <2>2, <3>1, DocIs
  <2>5. CASE doc = [old EXCEPT !.ver = @ + 1, !.plain = Cleared]
    <3>1. doc = [f \in DocFields |-> doc[f]] /\ doc.ver = old.ver + 1 /\ doc.plain = 0
          /\ \A f \in {"there", "script", "rows", "after", "secret"} : doc[f] = old[f]
      BY <2>2, <2>5 DEF DocFields, Cleared
    <3>2. old.script \in Text \cup {NoScript}
      BY <2>1 DEF CustomDocs
    <3> QED
      BY <2>1, <3>1, <3>2, DocIs DEF old
  <2>6. doc \in Edits(old) \cup {NotThere(old.ver)}
    BY <1>2 DEF Saves, old
  <2> QED
    BY <2>3, <2>4, <2>5, <2>6 DEF Edits, Text, old
<1>3. CASE ~old.there
  <2> DEFINE made == CustomDoc(1, "text 1", <<>>, First)
  <2>1. doc = [made EXCEPT !.ver = old.ver + 1]
    BY <1>3 DEF Saves, old
  <2>2. made = [there |-> TRUE, ver |-> 1, plain |-> 1, script |-> "text 1", rows |-> <<>>,
                after |-> 0, secret |-> "old"]
    BY DEF CustomDoc, First
  <2> HIDE DEF made
  <2>3. doc = [there |-> TRUE, ver |-> old.ver + 1, plain |-> 1, script |-> "text 1", rows |-> <<>>,
               after |-> 0, secret |-> "old"]
    BY <2>1, <2>2
  <2>4. doc \in CustomDocs
    <3> DEFINE rows == <<>>
    <3>1. rows \in Seq([col : Nat, newer : Nat]) /\ old.ver + 1 \in Nat
      BY <1>1
    <3>2. doc = [there |-> TRUE, ver |-> old.ver + 1, plain |-> 1, script |-> "text 1", rows |-> rows,
                 after |-> 0, secret |-> "old"]
      BY <2>3
    <3> HIDE DEF rows
    <3> QED
      BY <3>1, <3>2 DEF CustomDocs, Text
  <2>5. doc.ver = old.ver + 1
    BY <2>3
  <2> QED
    BY <1>1, <2>4, <2>5 DEF OnSite, Later, old
<1> QED
  BY <1>2, <1>3 DEF old

LEMMA PeopleSave ==
  ASSUME CustomInv, SaveCustom
  PROVE  CustomInv'
<1>1. UNCHANGED <<json, sidecar, pull, push>>
  BY DEF SaveCustom
<1>2. ASSUME NEW d \in Customs, NEW doc \in Saves(source, d), source' = [source EXCEPT ![d] = doc],
             had' = IF doc.there THEN had \cup {<<d, Normal(doc)>>} ELSE had, UNCHANGED target
      PROVE  CustomInv'
  <2>1. doc \in OnSite /\ source \in [Customs -> OnSite]
    BY <1>2, SavesAreLater DEF CustomInv, SourceOK
  <2>2. source' \in [Customs -> OnSite] /\ source'[d] = doc /\ \A e \in Customs \ {d} : source'[e] = source[e]
    <3> HIDE DEF OnSite
    <3> QED
      BY <1>2, <2>1
  <2>3. had \subseteq had' /\ (doc.there => <<d, Normal(doc)>> \in had')
    BY <1>2
  <2>4. SourceOK'
    <3>1. ASSUME NEW e \in Customs, source'[e].there  PROVE <<e, Normal(source'[e])>> \in had'
      <4>1. CASE e = d
        BY <2>2, <2>3, <3>1, <4>1
      <4>2. CASE e # d
        BY <2>2, <2>3, <3>1, <4>2 DEF CustomInv, SourceOK
      <4> QED
        BY <4>1, <4>2
    <3>2. \A e \in Customs : Normal(source[e])' = Normal(source'[e])
      BY DEF Normal
    <3> QED
      BY <2>2, <3>1, <3>2 DEF SourceOK
  <2>5. PullOK'
    <3>1. \A e : (WasRead(e) => WasRead(e)') /\ (AtWork(e)' <=> AtWork(e))
      BY <1>1, <2>3 DEF WasRead, AtWork
    <3> QED
      BY <1>1, <3>1 DEF CustomInv, PullOK
  <2>6. FolderOK'
    BY <1>1, <2>3, FolderStays DEF CustomInv, AtWork
  <2> QED
    BY <1>1, <1>2, <2>4, <2>5, <2>6, PushStays DEF CustomInv
<1>3. ASSUME NEW d \in Customs, NEW doc \in Saves(target, d), target' = [target EXCEPT ![d] = doc],
             UNCHANGED <<source, had>>
      PROVE  CustomInv'
  <2>1. doc \in OnSite /\ target \in [Customs -> OnSite] /\ Later(target[d], doc)
    BY <1>3, SavesAreLater DEF CustomInv, PushOK
  <2>2. TargetGrows
    <3> HIDE DEF OnSite
    <3> QED
      BY <1>3, <2>1 DEF TargetGrows
  <2> QED
    BY <1>1, <1>3, <2>2, OthersSave, PullStays DEF CustomInv
<1> QED
  BY <1>2, <1>3 DEF SaveCustom

-----------------------------------------------------------------------------
\* What a site takes: the document of the item then is what its file is, and
\* a later version.
LEMMA ItemIsTaken ==
  ASSUME PushOK, NEW i \in DOMAIN push.items, Takes(push.items[i]), push.items[i].act # "unchanged"
  PROVE  LET item == push.items[i]
             d == item.doc
             new == IF item.act = "create" THEN Created(push.docs[d], target[d].ver)
                    ELSE Updated(target[d], push.docs[d], item.fields)
         IN  /\ d \in Customs /\ new \in CustomDocs /\ new.ver = target[d].ver + 1
             /\ Differs(push.docs[d], new) = {}
             /\ target[d].there => item.fields = Differs(push.docs[d], target[d])
             /\ ~target[d].there => item.act = "create"
<1> DEFINE item == push.items[i]
           d == item.doc
<1>1. item \in Items /\ ItemOK(item)
  BY ItemsAre DEF PushOK, PlanOK
<1> HIDE DEF item
<1>2. d \in Pushed /\ d \in Customs /\ item.act \in {"create", "update"}
  BY <1>1 DEF ItemOK, Items, Pushed, item
<1>3. push.docs[d] \in CustomFiles
  <2>1. push.docs[d] \in MaybeFile
    BY <1>2 DEF PushOK, PushStates
  <2> QED
    BY <1>2, <2>1 DEF MaybeFile, NoCustomFile, Pushed
<1>4. target[d] \in OnSite /\ target[d].ver \in Nat
  BY <1>2, OnSiteIs DEF PushOK
<1>5. CASE item.act = "create"
  BY <1>2, <1>3, <1>4, <1>5, CreatedIs DEF Takes, item
<1>6. CASE item.act = "update"
  <2>1. target[d].there /\ target[d].ver = item.ver
    BY <1>6 DEF Takes, item
  <2>2. target[d] \in CustomDocs /\ item.fields = Differs(push.docs[d], target[d])
    BY <1>1, <1>4, <1>6, <2>1, OnSiteIs DEF ItemOK
  <2>3. LET new == Updated(target[d], push.docs[d], item.fields)
        IN  new \in CustomDocs /\ new.ver = target[d].ver + 1 /\ Differs(push.docs[d], new) = {}
    BY <1>3, <2>2, UpdatedIs
  <2> QED
    BY <1>2, <1>6, <2>1, <2>2, <2>3 DEF item
<1> QED
  BY <1>2, <1>5, <1>6 DEF item

LEMMA ItemIsApplied ==
  ASSUME CustomInv, NEW i \in DOMAIN push.items, NEW failFast \in BOOLEAN, ApplyItem(i, failFast)
  PROVE  PushOK'
<1> DEFINE d == push.items[i].doc
           Statuses == {"waits", "done", "error", "skipped"}
<1>1. /\ PushOK /\ PlanOK /\ push \in PushStates /\ push.at = "apply" /\ push.yes /\ ~push.dry
      /\ push.status \in Seq(Statuses) /\ Len(push.status) = Len(push.items) /\ push.items \in Seq(Items)
      /\ push.items[i].act # "unchanged" /\ target \in [Customs -> OnSite] /\ push.wrote \in [Customs -> Nat]
  BY DEF CustomInv, PushOK, PlanOK, PushStates, ApplyItem
<1>2. DOMAIN push.status = DOMAIN push.items
  <2> HIDE DEF Items
  <2> QED
    BY <1>1
<1>3. ASSUME NEW s \in {"done", "error"}, NEW at \in {"apply", "stopped"}, NEW wrote \in [Customs -> Nat],
             push' = [push EXCEPT !.status[i] = s, !.at = at, !.wrote = wrote], TargetGrows,
             \A e \in Customs : wrote[e] <= target'[e].ver,
             \A e \in Customs \ {d} : target'[e] = target[e] /\ wrote[e] = push.wrote[e],
             s = "done" => Differs(push.docs[d], target'[d]) = {}
      PROVE  PushOK'
  <2> DEFINE status == [push.status EXCEPT ![i] = s]
  <2>1. status \in Seq(Statuses) /\ DOMAIN status = DOMAIN push.status
        /\ status[i] = s /\ \A j \in DOMAIN status : j # i => status[j] = push.status[j]
    BY <1>1, <1>2
  <2>2. push' = [push EXCEPT !.status = status, !.at = at, !.wrote = wrote]
    BY <1>3
  <2> HIDE DEF status
  <2>3. /\ push' \in PushStates /\ push'.at = at /\ push'.items = push.items /\ push'.docs = push.docs
        /\ push'.status = status /\ push'.wrote = wrote /\ push'.yes = push.yes /\ push'.dry = push.dry
    BY <1>1, <1>3, <2>1, <2>2 DEF PushStates
  <2>4. \A j \in DOMAIN push.items : ItemOK(push.items[j])'
    <3> SUFFICES ASSUME NEW j \in DOMAIN push.items  PROVE ItemOK(push.items[j])'
      OBVIOUS
    <3>1. PICK it \in Items : it = push.items[j] /\ ItemOK(it)
      BY <1>1, ItemsAre DEF PlanOK
    <3>2. ItemOK(it)'
      BY <1>3, <2>3, <3>1, ItemStays
    <3> QED
      BY <2>3, <3>1, <3>2 DEF ItemOK
  <2>5. Len(status) = Len(push.items)
    <3>1. Len(status) = Len(push.status)
      BY <1>1, <2>1
    <3> QED
      BY <1>1, <3>1
  <2>6. PlanOK'
    BY <1>1, <1>3, <2>3, <2>4, <2>5 DEF PlanOK, OneEach
  <2>7. PushedOnce'
    <3> SUFFICES ASSUME NEW j \in DOMAIN status, status[j] = "done",
                        target'[push.items[j].doc].there,
                        target'[push.items[j].doc].ver = wrote[push.items[j].doc]
                 PROVE  Differs(push.docs[push.items[j].doc], target'[push.items[j].doc]) = {}
      BY <2>3 DEF PushedOnce
    <3>1. CASE j = i
      BY <1>3, <2>1, <3>1
    <3>2. CASE j # i
      <4>1. j \in DOMAIN push.items /\ push.items[j].doc # d
        BY <1>1, <1>2, <2>1, <3>2 DEF PlanOK, OneEach
      <4>2. push.items[j].doc \in Customs
        BY <1>1, <4>1 DEF PlanOK, ItemOK, Pushed
      <4>3. push.status[j] = "done" /\ j \in DOMAIN push.status
        BY <2>1, <3>2
      <4> QED
        BY <1>1, <1>3, <4>1, <4>2, <4>3 DEF PushOK, PushedOnce
    <3> QED
      BY <3>1, <3>2
  <2>8. InOrderOfAfter'
    BY <1>1, <1>3, <2>3, CycleStays DEF PushOK, InOrderOfAfter
  <2> QED
    BY <1>3, <2>3, <2>6, <2>7, <2>8 DEF PushOK, TargetGrows
<1>4. CASE push' = [push EXCEPT !.status[i] = "error", !.at = IF failFast THEN "stopped" ELSE @] /\ UNCHANGED target
  <2> DEFINE at == IF failFast THEN "stopped" ELSE "apply"
  <2>1. push' = [push EXCEPT !.status[i] = "error", !.at = at, !.wrote = push.wrote]
    BY <1>1, <1>4 DEF PushStates
  <2>2. at \in {"apply", "stopped"} /\ TargetGrows
    BY <1>1, <1>4 DEF TargetGrows
  <2> HIDE DEF at
  <2>3. \A e \in Customs : push.wrote[e] <= target'[e].ver
    BY <1>1, <1>4 DEF PushOK
  <2> QED
    BY <1>1, <1>3, <1>4, <2>1, <2>2, <2>3
<1>5. ASSUME Takes(push.items[i]), NEW s \in {"done", "error"},
             target' = [target EXCEPT ![d] =
               IF push.items[i].act = "create" THEN Created(push.docs[d], @.ver)
               ELSE Updated(@, push.docs[d], push.items[i].fields)],
             push' = [push EXCEPT !.status[i] = s, !.at = IF s = "error" /\ failFast THEN "stopped" ELSE @,
                                  !.wrote[d] = target'[d].ver]
      PROVE  PushOK'
  <2> DEFINE new == IF push.items[i].act = "create" THEN Created(push.docs[d], target[d].ver)
                    ELSE Updated(target[d], push.docs[d], push.items[i].fields)
             at == IF s = "error" /\ failFast THEN "stopped" ELSE "apply"
             wrote == [push.wrote EXCEPT ![d] = new.ver]
  <2>1. /\ d \in Customs /\ new \in CustomDocs /\ new.ver = target[d].ver + 1
        /\ Differs(push.docs[d], new) = {}
    BY <1>1, <1>5, ItemIsTaken
  <2>2. target' = [target EXCEPT ![d] = new]
    BY <1>5
  <2> HIDE DEF new
  <2>3. /\ target[d].ver \in Nat /\ new.ver \in Nat /\ new \in OnSite
    BY <1>1, <2>1, OnSiteIs DEF OnSite
  <2>4. /\ target'[d] = new /\ \A e \in Customs \ {d} : target'[e] = target[e]
        /\ target' \in [Customs -> OnSite]
    <3> HIDE DEF OnSite
    <3> QED
      BY <1>1, <2>1, <2>2, <2>3
  <2>5. push' = [push EXCEPT !.status[i] = s, !.at = at, !.wrote = wrote]
    BY <1>1, <1>5, <2>4 DEF PushStates
  <2>6. wrote \in [Customs -> Nat] /\ wrote[d] = new.ver /\ \A e \in Customs \ {d} : wrote[e] = push.wrote[e]
    BY <1>1, <2>1, <2>3
  <2>7. at \in {"apply", "stopped"}
    OBVIOUS
  <2> HIDE DEF wrote, at
  <2>8. TargetGrows
    <3>1. Later(target[d], target'[d])
      BY <2>1, <2>3, <2>4 DEF Later
    <3> QED
      BY <1>1, <2>4, <3>1 DEF TargetGrows
  <2>9. \A e \in Customs : wrote[e] <= target'[e].ver
    <3>1. \A e \in Customs : push.wrote[e] <= target[e].ver
      BY <1>1 DEF PushOK
    <3> QED
      BY <2>3, <2>4, <2>6, <3>1
  <2> QED
    BY <1>3, <2>1, <2>4, <2>5, <2>6, <2>7, <2>8, <2>9
<1> QED
  BY <1>4, <1>5 DEF ApplyItem

LEMMA CustomsStep == CustomInv /\ [CustomNext]_customVars => CustomInv'
<1> SUFFICES ASSUME CustomInv, [CustomNext]_customVars PROVE CustomInv'
  OBVIOUS
<1> USE DEF CustomInv
<1>1. CASE CustomNames \/ NameFiles \/ StaleCustomFiles \/ PullKilled \/ \E d \in Customs : FetchCustomDoc(d)
  BY <1>1, PullReads
<1>2. CASE \E d \in Customs : WriteSidecar(d) \/ WriteJson(d) \/ RemoveSidecar(d)
  BY <1>2, PullWrites
<1>3. CASE \E dry, yes \in BOOLEAN : ReadCustomDir(dry, yes)
  BY <1>3, PushPlans, PullStays DEF ReadCustomDir, NoRequest, OnlyPush
<1>4. CASE \E d \in Customs : PlanCustomPush(d)
  BY <1>4, PushReads, PullStays DEF PlanCustomPush, NoRequest, OnlyPush
<1>5. CASE ShowPlan
  BY <1>5, PushShows, PullStays DEF ShowPlan, NoRequest, OnlyPush
<1>6. CASE \E answer \in BOOLEAN : AnswerPlan(answer)
  BY <1>6, PushIsAnswered, PullStays DEF AnswerPlan, NoRequest, OnlyPush
<1>7. CASE \E i \in DOMAIN push.items, failFast \in BOOLEAN : ApplyItem(i, failFast)
  BY <1>7, ItemIsApplied, PullStays DEF ApplyItem, OnlyPush
<1>8. CASE StopPush
  BY <1>8, PushStops, PullStays DEF StopPush, NoRequest, OnlyPush
<1>9. CASE SaveCustom
  BY <1>9, PeopleSave
<1>10. CASE UNCHANGED customVars
  BY <1>10, PullStays, PushStays DEF customVars
<1> QED
  BY <1>1, <1>2, <1>3, <1>4, <1>5, <1>6, <1>7, <1>8, <1>9, <1>10 DEF CustomNext

LEMMA PlanStep == CustomInv /\ [CustomNext]_customVars => [PlanIsKept]_customVars
<1> SUFFICES ASSUME CustomInv, CustomNext, NEW d \in Customs, target'[d] # target[d], push' # push
             PROVE  /\ push.yes /\ ~push.dry /\ target'[d].there
                    /\ \E i \in DOMAIN push.items :
                         /\ push.items[i].doc = d
                         /\ IF target[d].there THEN push.items[i].fields = Differs(push.docs[d], target[d])
                            ELSE push.items[i].act = "create"
  BY DEF PlanIsKept
<1>1. PICK i \in DOMAIN push.items, failFast \in BOOLEAN : ApplyItem(i, failFast)
  BY DEF CustomNext, CustomNames, NameFiles, StaleCustomFiles, PullKilled, FetchCustomDoc, WriteSidecar,
         WriteJson, RemoveSidecar, OnlyPull, NoPullWrite, ReadCustomDir, PlanCustomPush, ShowPlan,
         AnswerPlan, StopPush, SaveCustom, NoRequest
<1> DEFINE e == push.items[i].doc
           new == IF push.items[i].act = "create" THEN Created(push.docs[e], target[e].ver)
                  ELSE Updated(target[e], push.docs[e], push.items[i].fields)
<1>2. Takes(push.items[i]) /\ target' = [target EXCEPT ![e] = new] /\ push.at = "apply"
  BY <1>1 DEF ApplyItem
<1>3. PushOK /\ push.yes /\ ~push.dry /\ push.items[i].act # "unchanged" /\ target \in [Customs -> OnSite]
  BY <1>2 DEF CustomInv, PushOK, PlanOK
<1>4. /\ e \in Customs /\ new \in CustomDocs
      /\ target[e].there => push.items[i].fields = Differs(push.docs[e], target[e])
      /\ ~target[e].there => push.items[i].act = "create"
  BY <1>2, <1>3, ItemIsTaken
<1> HIDE DEF new
<1>5. d = e /\ target'[e] = new
  BY <1>2, <1>3, <1>4
<1>6. new.there = TRUE
  BY <1>4 DEF CustomDocs
<1> QED
  BY <1>3, <1>4, <1>5, <1>6

LEMMA CustomsHold == CustomInv => FolderIsWhole /\ PushedOnce /\ InOrderOfAfter
<1> SUFFICES ASSUME CustomInv PROVE FolderIsWhole
  BY DEF CustomInv, PushOK
<1> SUFFICES ASSUME PullEnded, NEW d \in Customs, json[d].there, ~(pull.at = "torn" /\ AtWork(d))
             PROVE  Readable(d) /\ <<d, InFolder(d)>> \in had
  BY DEF FolderIsWhole, AtWork
<1>1. pull.at # "json"
  BY DEF PullEnded
<1>2. json[d] # NoCustomFile
  BY DEF NoCustomFile
<1> QED
  BY <1>1, <1>2 DEF CustomInv, FolderOK, FileOK

\* For every folder and every pair of sites: what a pull leaves and a push
\* reads are documents as one site had them, but the one whose two files a
\* pull was killed between, a push sends what its plan
\* showed in an order that works, and writes over no save that was made since
\* it compared (customize.go, writeCustomizations; customize_push.go,
\* planCustomPush, orderCustomFields, apply).
THEOREM CustomsKept == CustomSpec => CustomsArrive
<1>1. CustomInit => CustomInv
  BY CustomStarts
<1>2. CustomInv /\ [CustomNext]_customVars => CustomInv' /\ [PlanIsKept]_customVars
  BY CustomsStep, PlanStep
<1>3. CustomInv => FolderIsWhole /\ PushedOnce /\ InOrderOfAfter
  BY CustomsHold
<1> QED
  BY <1>1, <1>2, <1>3, PTL DEF CustomSpec, CustomsArrive
=============================================================================
