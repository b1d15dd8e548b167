---------------------------- MODULE TokenRefresh ----------------------------
(***************************************************************************)
(* OAuth access tokens: how the requests of a client, the clients of       *)
(* several ffc processes and the app refresh a token the site refuses      *)
(* (internal/client/client.go, internal/cmd/site_client.go).               *)
(*                                                                         *)
(* The config file stores a pair of an access token and the refresh token  *)
(* that replaces it; pairs are numbered as the site issues them, and       *)
(* issuing one spends the refresh token before it.  A job is a process's   *)
(* start (it loads the config and refreshes an expired token) or a         *)
(* request.  A process has one client, whose loginSem one job holds at a   *)
(* time; the config's lock is exclusive, as ConfigLock shows.              *)
(***************************************************************************)
EXTENDS Integers, FiniteSets

CONSTANTS
  Starts, Reads, Writes,  \* the jobs
  Owner,                  \* the process of each job
  MaxPairs,               \* bound: pairs the site issues
  MaxLost                 \* bound: refreshes whose answer is lost, by whatever

Jobs == Starts \cup Reads \cup Writes
Requests == Reads \cup Writes
Procs == {Owner[j] : j \in Jobs}
Pairs == 1..MaxPairs

ASSUME JobsAreFinite == IsFiniteSet(Jobs)
ASSUME KindsDiffer == Starts \cap Requests = {} /\ Reads \cap Writes = {}
ASSUME BoundsAreNat == MaxPairs \in Nat \ {0} /\ MaxLost \in Nat

VARIABLES
  pc,      \* where each job is
  used,    \* the access token each job was last refused with, or loaded
  ran,     \* how often each request's method has run on the site
  good,    \* the requests whose token the site has accepted since they were sent
  token,   \* the access token of each client, or 0 before it starts
  failed,  \* the token whose refresh failed for good, of each client, or 0
  stored,  \* the pair in the config file
  expired, \* whether its access token is past its expiry, less a minute
  issued,  \* the last pair the site issued: its refresh token is the good one
  live,    \* the access tokens the site accepts
  lost     \* history: the spent refresh tokens whose answer was not saved

jobVars == <<used, ran, good>>
clientVars == <<token, failed>>
fileVars == <<stored, expired>>
siteVars == <<issued, live>>
vars == <<pc, jobVars, clientVars, fileVars, siteVars, lost>>

\* With the client's loginSem; with the config's lock.
LoggingIn == {"decide", "probe", "lock", "file", "site", "save", "reprobe"}
Under == {"file", "site", "save"}
Ends == {"done", "failed", "refused", "dead"}

TypeOK ==
  /\ pc \in [Jobs -> {"new", "login", "again", "relogin"} \cup LoggingIn \cup Ends]
  /\ used \in [Jobs -> Pairs \cup {0}]
  /\ ran \in [Jobs -> 0..2]
  /\ good \subseteq Requests
  /\ token \in [Procs -> Pairs \cup {0}]
  /\ failed \in [Procs -> Pairs \cup {0}]
  /\ stored \in Pairs /\ expired \in BOOLEAN /\ issued \in Pairs
  /\ live \subseteq 1..issued /\ lost \subseteq 1..issued

Init ==
  /\ pc = [j \in Jobs |-> "new"]
  /\ used = [j \in Jobs |-> 0]
  /\ ran = [j \in Jobs |-> 0]
  /\ good = {}
  /\ token = [p \in Procs |-> 0]
  /\ failed = [p \in Procs |-> 0]
  /\ stored = 1 /\ issued = 1
  /\ live \in SUBSET {1} /\ expired \in BOOLEAN
  /\ lost = {}

Go(j, from, to) == pc[j] = from /\ pc' = [pc EXCEPT ![j] = to]

SemFree(p) == \A j \in Requests : Owner[j] = p => pc[j] \notin LoggingIn
ConfigFree == \A j \in Jobs : pc[j] \notin Under

-----------------------------------------------------------------------------
(* A process starts.                                                       *)

\* newClient loads the config and refreshes an expired token (refreshSite).
Load(j) ==
  /\ j \in Starts
  /\ Go(j, "new", IF expired THEN "lock" ELSE "done")
  /\ used' = [used EXCEPT ![j] = stored]
  /\ token' = [token EXCEPT ![Owner[j]] = stored]
  /\ UNCHANGED <<ran, good, failed, fileVars, siteVars, lost>>

-----------------------------------------------------------------------------
(* A request: send.                                                        *)

\* The site refuses the token, and the request waits to log in; or the method
\* runs, and may raise a 401 itself; or the connection fails.
Attempt(j, from, onRefusal) ==
  /\ j \in Requests /\ token[Owner[j]] # 0
  /\ used' = [used EXCEPT ![j] = token[Owner[j]]]
  /\ good' = IF token[Owner[j]] \in live THEN good \cup {j} ELSE good \ {j}
  /\ \/ token[Owner[j]] \notin live /\ Go(j, from, onRefusal) /\ UNCHANGED ran
     \/ /\ token[Owner[j]] \in live
        /\ Go(j, from, onRefusal) \/ Go(j, from, "done")
        /\ ran' = [ran EXCEPT ![j] = @ + 1]
     \/ Go(j, from, "done") /\ UNCHANGED ran
  /\ UNCHANGED <<clientVars, fileVars, siteVars, lost>>

\* Once its process has started, a request is made.
Send(j) ==
  /\ \A s \in Starts : Owner[s] = Owner[j] => pc[s] \in Ends
  /\ Attempt(j, "new", "login")

\* A second 401 is returned, never retried.
Repeat(j) == Attempt(j, "again", "relogin")

-----------------------------------------------------------------------------
(* refreshToken, with loginSem.                                            *)

LockLogin(j) ==
  /\ j \in Requests /\ SemFree(Owner[j])
  /\ Go(j, "login", "decide")
  /\ UNCHANGED <<jobVars, clientVars, fileVars, siteVars, lost>>

\* The caller's context ends first.
GivesUp(j) ==
  /\ Go(j, "login", "done") \/ Go(j, "relogin", "done")
  /\ UNCHANGED <<jobVars, clientVars, fileVars, siteVars, lost>>

\* Mutant of Decision: writes repeat as reads do.
DecisionEager(j) ==
  CASE token[Owner[j]] # used[j] -> "again"
    [] failed[Owner[j]] = used[j] -> "refused"
    [] OTHER -> "probe"

\* Another request refreshed: a read is repeated, a write only once its own
\* token is shown refused.  A token whose refresh failed for good is not
\* refreshed again.
Decision(j) ==
  CASE token[Owner[j]] # used[j] /\ j \in Reads -> "again"
    [] token[Owner[j]] = used[j] /\ failed[Owner[j]] = used[j] -> "refused"
    [] OTHER -> "probe"

Decide(j) ==
  /\ Go(j, "decide", Decision(j))
  /\ UNCHANGED <<jobVars, clientVars, fileVars, siteVars, lost>>

\* tokenRefused: only a 401 counts, and a network error may come instead.
Probe(j) ==
  /\ \/ /\ used[j] \notin live
        /\ Go(j, "probe", IF token[Owner[j]] # used[j] THEN "again" ELSE "lock")
     \/ Go(j, "probe", "done")
  /\ UNCHANGED <<jobVars, clientVars, fileVars, siteVars, lost>>

\* refreshedRefused, after a second 401.
LockLoginAgain(j) ==
  /\ SemFree(Owner[j])
  /\ Go(j, "relogin",
        CASE failed[Owner[j]] = used[j] -> "refused"
          [] failed[Owner[j]] # used[j] /\ token[Owner[j]] # used[j] -> "done"
          [] OTHER -> "reprobe")
  /\ UNCHANGED <<jobVars, clientVars, fileVars, siteVars, lost>>

\* The new token is refused too: the sign-in is over.
Reprobe(j) ==
  /\ \/ /\ used[j] \notin live
        /\ Go(j, "reprobe", "refused")
        /\ failed' = [failed EXCEPT ![Owner[j]] = used[j]]
     \/ Go(j, "reprobe", "done") /\ UNCHANGED failed
  /\ UNCHANGED <<jobVars, token, fileVars, siteVars, lost>>

-----------------------------------------------------------------------------
(* refreshOAuth, under the config's lock.                                  *)

LockConfig(j) ==
  /\ ConfigFree
  /\ Go(j, "lock", "file")
  /\ UNCHANGED <<jobVars, clientVars, fileVars, siteVars, lost>>

\* How a job goes on without a new token: a start, with the old one.
Fails(j, from, how) ==
  Go(j, from, IF j \in Starts THEN "done" ELSE how)

\* The config stays locked or cannot be read, or the caller's time is up.
ConfigFails(j) ==
  /\ Fails(j, "lock", "failed") \/ Fails(j, "file", "failed")
  /\ UNCHANGED <<jobVars, clientVars, fileVars, siteVars, lost>>

\* A new token: the request is repeated with it.
Succeed(j, from, pair) ==
  /\ Go(j, from, IF j \in Starts THEN "done" ELSE "again")
  /\ token' = [token EXCEPT ![Owner[j]] = pair]

\* The stored token is another process's, and has not expired.  A start
\* rejects none.
Reusable(j) == ~expired /\ (j \in Starts \/ stored # used[j])

Reuse(j) ==
  /\ Reusable(j)
  /\ Succeed(j, "file", stored)
  /\ UNCHANGED <<jobVars, failed, fileVars, siteVars, lost>>

AskSite(j) ==
  /\ ~Reusable(j)
  /\ Go(j, "file", "site")
  /\ UNCHANGED <<jobVars, clientVars, fileVars, siteVars, lost>>

\* Mutant of Presented: the one the process loaded.
PresentedLoaded(j) == used[j]

\* The pair whose refresh token is presented: the one the file stores now.
Presented(j) == stored

\* The site issues a new pair and spends the refresh token.
Issue(j, next) ==
  /\ Presented(j) = issued /\ issued < MaxPairs
  /\ Go(j, "site", next)
  /\ issued' = issued + 1
  /\ live' = live \cup {issued'}
  /\ UNCHANGED <<jobVars, clientVars, fileVars>>

SiteIssues(j) == Issue(j, "save") /\ UNCHANGED lost

\* The answer is lost, or comes after MaxLockHold.
AnswerLost(j) ==
  /\ Cardinality(lost) < MaxLost
  /\ Issue(j, IF j \in Starts THEN "done" ELSE "failed")
  /\ lost' = lost \cup {Presented(j)}

\* The request never arrives, or the site is down: it may work the next time.
SiteDown(j) ==
  /\ Fails(j, "site", "failed")
  /\ UNCHANGED <<jobVars, clientVars, fileVars, siteVars, lost>>

\* The refresh token is refused (spent, or revoked with the sign-in), which
\* the client remembers.
SiteRefuses(j) ==
  /\ Fails(j, "site", "refused")
  /\ failed' = IF j \in Starts THEN failed ELSE [failed EXCEPT ![Owner[j]] = used[j]]
  /\ UNCHANGED <<jobVars, token, fileVars, siteVars, lost>>

\* Mutant of Save: the new pair is not written.
SaveNot(j) ==
  /\ Succeed(j, "save", issued)
  /\ UNCHANGED <<jobVars, failed, fileVars, siteVars, lost>>

\* The new pair is written to the config.
Save(j) ==
  /\ stored' = issued /\ expired' = FALSE
  /\ Succeed(j, "save", issued)
  /\ UNCHANGED <<jobVars, failed, siteVars, lost>>

\* It cannot be written: the client does not use it either.
SaveFails(j) ==
  /\ Cardinality(lost) < MaxLost
  /\ Fails(j, "save", "failed")
  /\ lost' = lost \cup {stored}
  /\ UNCHANGED <<jobVars, clientVars, fileVars, siteVars>>

-----------------------------------------------------------------------------
(* Time and crashes.                                                       *)

\* The site no longer accepts an access token: it has expired or was revoked,
\* or its user was disabled.
Lapse(i) ==
  /\ i \in live
  /\ live' = live \ {i}
  /\ good' = {j \in good : used[j] # i}
  /\ UNCHANGED <<pc, used, ran, clientVars, fileVars, issued, lost>>

\* It accepts it again: the user is enabled.
Restore(i) ==
  /\ i \in 1..issued \ live
  /\ live' = live \cup {i}
  /\ UNCHANGED <<pc, jobVars, clientVars, fileVars, issued, lost>>

\* The stored access token expires; its refresh token does not.
Expire ==
  /\ ~expired /\ expired' = TRUE
  /\ UNCHANGED <<pc, jobVars, clientVars, stored, siteVars, lost>>

\* A process dies (between the site's answer and the write of the config, at
\* worst).
Crash(p) ==
  LET saving == \E j \in Jobs : Owner[j] = p /\ pc[j] = "save" IN
  /\ Cardinality(lost) < MaxLost
  /\ \E j \in Jobs : Owner[j] = p /\ pc[j] \notin Ends
  /\ pc' = [j \in Jobs |->
             IF Owner[j] = p /\ pc[j] \notin Ends THEN "dead" ELSE pc[j]]
  /\ lost' = IF saving THEN lost \cup {stored} ELSE lost
  /\ UNCHANGED <<jobVars, clientVars, fileVars, siteVars>>

-----------------------------------------------------------------------------
Step(j) ==
  \/ Load(j) \/ Send(j) \/ Repeat(j)
  \/ LockLogin(j) \/ GivesUp(j) \/ Decide(j) \/ Probe(j)
  \/ LockLoginAgain(j) \/ Reprobe(j)
  \/ LockConfig(j) \/ ConfigFails(j) \/ Reuse(j) \/ AskSite(j)
  \/ SiteIssues(j) \/ AnswerLost(j) \/ SiteDown(j) \/ SiteRefuses(j)
  \/ Save(j) \/ SaveFails(j)

Next ==
  \/ \E j \in Jobs : Step(j)
  \/ \E i \in Pairs : Lapse(i) \/ Restore(i)
  \/ \E p \in Procs : Crash(p)
  \/ Expire

Spec == Init /\ [][Next]_vars
-----------------------------------------------------------------------------
(* Properties.                                                             *)

\* No refresh token is spent twice by concurrent requests, processes and the
\* app: the one in a request to the site is good, unless the answer to an
\* earlier request with it was lost (refreshOAuth's doc comment).
SpentOnce ==
  \A j \in Jobs : pc[j] = "site" => Presented(j) = issued \/ Presented(j) \in lost

\* The config keeps the site signed in: with nobody refreshing, the refresh
\* token it stores is the good one, unless the answer with it was lost.
StaysSignedIn == ConfigFree => stored = issued \/ stored \in lost

\* A write is not repeated, whoever else refreshed in the meantime, if the site
\* has accepted its token ever since it was sent: then it has run.
RepeatedWhenRefused ==
  [][\A j \in Writes :
       pc[j] # "again" /\ pc'[j] = "again" => j \notin good]_vars
=============================================================================
