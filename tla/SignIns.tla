------------------------------- MODULE SignIns -------------------------------
(***************************************************************************)
(* Sign-ins through the browser: the Sites screen's (SitesService,         *)
(* desktop/services/oauth.go), the wizard's of ffc init and site add       *)
(* (internal/cmd/oauth_wizard.go), both on sitesetup.OAuthFlow, and the    *)
(* one that gets an OpenRouter key (openrouter_auth.go).  Each listens on  *)
(* a port of this computer (internal/loopback) for the one redirect that   *)
(* carries its state.  The screen and the key service have one attempt at  *)
(* a time: a new one cancels the last and waits for it.                    *)
(***************************************************************************)
EXTENDS Integers, FiniteSetsExt

CONSTANTS
  Attempts,   \* bound: the attempts
  Owners,     \* bound: who makes them, [Attempts -> {"screen", "wizard", "key"}]
  NoAttempt

ASSUME OwnersAssumption == Owners \subseteq [Attempts -> {"screen", "wizard", "key"}]
ASSUME AttemptsAssumption == Attempts \cap {NoAttempt, "denied", "error"} = {}

VARIABLES
  by,         \* who makes each: one of Owners
  step,       \* where each attempt is
  givenUp,    \* those whose context has ended
  current,    \* of the screen and the key service: the last attempt begun
  before,     \* the attempt each one replaces, or NoAttempt
  port,       \* 0, or the port each listens on
  page,       \* the port the browser's page of each will redirect to, or 0
  result,     \* what was delivered to each: NoAttempt, "denied", "error", or the
              \*   attempt whose redirect brought the code
  spent,      \* how often each one's code was sent to be exchanged
  traded,       \* those whose exchange gave a token or a key
  end,        \* how each ended: "", "saved", "refused", "failed", "cancelled"
  provider,   \* the OpenRouter row is there
  down        \* the app shuts down

signVars == <<by, step, givenUp, current, before, port, page, result, spent, traded,
              end, provider, down>>

Services == {"screen", "key"}
Preferred == {1}                            \* bound: of callbackPorts
Ports == 1 .. Cardinality(Attempts) + 1     \* those above it are the system's
Taken == {port[a] : a \in Attempts} \ {0}
Working(a) == step[a] \notin {"new", "ended"}

StepsTo(a, where) == step' = [step EXCEPT ![a] = where]
GivesUp(a, how)  == StepsTo(a, "leave") /\ end' = [end EXCEPT ![a] = how]
Stopped(a)     == a \in givenUp /\ GivesUp(a, "cancelled")

-----------------------------------------------------------------------------
\* A service's attempt replaces the last; what was asked for may be refused
\* before (prepare, provider), and after shutdown nothing is begun (enter).
BeginSignIn(a) ==
  /\ step[a] = "new"
  /\ IF by[a] \in Services
     THEN /\ ~down
          /\ before' = [before EXCEPT ![a] = current[by[a]]]
          /\ givenUp' = givenUp \cup ({current[by[a]]} \ {NoAttempt})
          /\ current' = [current EXCEPT ![by[a]] = a]
          /\ StepsTo(a, IF current[by[a]] = NoAttempt THEN "bind" ELSE "replace")
     ELSE StepsTo(a, "bind") /\ UNCHANGED <<before, givenUp, current>>
  /\ UNCHANGED <<by, port, page, result, spent, traded, end, provider, down>>

\* It waits for the last to end, for replaceWait (its "before" is forgotten
\* then), or until it is cancelled itself.
Replace(a) ==
  /\ step[a] = "replace"
  /\ \/ step[before[a]] = "ended" /\ StepsTo(a, "bind") /\ UNCHANGED <<end, before>>
     \/ /\ step[before[a]] # "ended"
        /\ StepsTo(a, "bind") /\ before' = [before EXCEPT ![a] = NoAttempt] /\ UNCHANGED end
     \/ Stopped(a) /\ UNCHANGED before
  /\ UNCHANGED <<by, givenUp, current, port, page, result, spent, traded, provider, down>>

\* Start binds the first free port; OpenRouter's takes any.
Bind(a) ==
  /\ step[a] = "bind"
  /\ LET free == Ports \ Taken
         own  == IF by[a] = "key" THEN free \ Preferred ELSE free
     IN port' = [port EXCEPT ![a] = Min(own)]
  /\ StepsTo(a, "app")
  /\ UNCHANGED <<by, givenUp, current, before, page, result, spent, traded, end, provider, down>>

\* An OAuth client is given or registered; where a site has no registration
\* the screen's attempt ends, and the wizard asks for a client.  Cancelled,
\* all of them leave.
App(a) ==
  /\ step[a] = "app"
  /\ \/ a \notin givenUp /\ StepsTo(a, "open") /\ UNCHANGED end
     \/ by[a] # "key" /\ a \notin givenUp /\ GivesUp(a, "failed")
     \/ Stopped(a)
  /\ UNCHANGED <<by, givenUp, current, before, port, page, result, spent, traded, provider, down>>

\* OpenBrowser: the page has the attempt's state and its port.
OpenPage(a) ==
  /\ step[a] = "open"
  /\ page' = [page EXCEPT ![a] = port[a]]
  /\ StepsTo(a, "wait")
  /\ UNCHANGED <<by, givenUp, current, before, port, result, spent, traded, end, provider, down>>

\* handle: a redirect of b's page at a's server, which takes its own state
\* only, or for OpenRouter a refusal that has none.
Accepts(a, b, what) == a = b \/ (what = "denied" /\ by[a] = "key" /\ by[b] = "key")

\* A page redirects to its port, once or again, whoever listens there; the
\* first that is accepted is delivered, the others are answered and dropped.
Redirect(b, what) ==
  /\ page[b] # 0
  /\ \E a \in Attempts :
       /\ port[a] = page[b] /\ result[a] = NoAttempt
       /\ Accepts(a, b, what)
       /\ result' = [result EXCEPT ![a] = IF what = "code" THEN b ELSE what]
  /\ UNCHANGED <<by, step, givenUp, current, before, port, page, spent, traded, end, provider, down>>

TimesOut(a) == GivesUp(a, IF a \in givenUp THEN "cancelled" ELSE "failed")

\* Wait: a result, the end of the context or the timeout, whichever the
\* select takes; the server is closed with it.
Wait(a) ==
  /\ step[a] = "wait"
  /\ \/ result[a] \in Attempts /\ StepsTo(a, "exchange") /\ UNCHANGED end
     \/ /\ result[a] \in {"denied", "error"}
        /\ IF a \in givenUp THEN Stopped(a) ELSE GivesUp(a, "refused")
     \/ Stopped(a)
     \/ TimesOut(a)
  /\ port' = [port EXCEPT ![a] = 0]
  /\ UNCHANGED <<by, givenUp, current, before, page, result, spent, traded, provider, down>>

\* Mutant of MayGoOn: the sign-in goes on though it was cancelled.
GoesOn(a) == TRUE

\* A cancelled sign-in is not taken further, but a key that exists is.
MayGoOn(a) == a \notin givenUp \/ by[a] = "key"

\* The code is sent (nothing is, when it is cancelled before); the answer is
\* a token or a key, or an error; cancelled meanwhile, a site's is dropped.
Exchange(a) ==
  /\ step[a] = "exchange"
  /\ \/ /\ a \notin givenUp
        /\ spent' = [spent EXCEPT ![result[a]] = @ + 1]
        /\ StepsTo(a, "answer")
        /\ UNCHANGED end
     \/ Stopped(a) /\ UNCHANGED spent
  /\ UNCHANGED <<by, givenUp, current, before, port, page, result, traded, provider, down>>
Answered(a) ==
  /\ step[a] = "answer"
  /\ \/ /\ traded' = traded \cup {a}
        /\ IF MayGoOn(a)
           THEN StepsTo(a, IF by[a] = "key" THEN "save" ELSE "user") /\ UNCHANGED end
           ELSE Stopped(a)
     \/ /\ IF a \in givenUp THEN Stopped(a) ELSE GivesUp(a, "failed")
        /\ UNCHANGED traded
  /\ UNCHANGED <<by, givenUp, current, before, port, page, result, spent, provider, down>>

\* Who signed in is asked; a cancelled context is looked at for the last time.
User(a) ==
  /\ step[a] = "user"
  /\ IF MayGoOn(a) THEN StepsTo(a, "save") /\ UNCHANGED end ELSE Stopped(a)
  /\ UNCHANGED <<by, givenUp, current, before, port, page, result, spent, traded, provider, down>>

\* The site is saved, or the key is checked and saved, if its provider is
\* still there.
StoreIt(a) ==
  /\ step[a] = "save"
  /\ \/ GivesUp(a, "failed")
     \/ /\ by[a] = "key" => provider
        /\ GivesUp(a, "saved")
     \/ by[a] = "key" /\ GivesUp(a, "refused")
  /\ UNCHANGED <<by, givenUp, current, before, port, page, result, spent, traded, provider, down>>

\* The deferred calls, in their order: the port, then the attempt.
Leave(a) ==
  /\ step[a] = "leave"
  /\ port' = [port EXCEPT ![a] = 0]
  /\ StepsTo(a, "done")
  /\ UNCHANGED <<by, givenUp, current, before, page, result, spent, traded, end, provider, down>>
Done(a) ==
  /\ step[a] = "done"
  /\ current' = [s \in Services |-> IF current[s] = a THEN NoAttempt ELSE current[s]]
  /\ StepsTo(a, "ended")
  /\ UNCHANGED <<by, givenUp, before, port, page, result, spent, traded, end, provider, down>>

-----------------------------------------------------------------------------
\* CancelSignIn, the call's own context, or Ctrl+C in the wizard.
CancelSignIn(a) ==
  /\ Working(a) /\ a \notin givenUp
  /\ givenUp' = givenUp \cup {a}
  /\ UNCHANGED <<by, step, current, before, port, page, result, spent, traded, end, provider, down>>

\* ServiceShutdown of both services.
Shutdown ==
  /\ ~down /\ down' = TRUE
  /\ givenUp' = givenUp \cup {a \in Attempts : Working(a) /\ by[a] \in Services
                                                   /\ (by[a] = "screen" => current["screen"] = a)}
  /\ UNCHANGED <<by, step, current, before, port, page, result, spent, traded, end, provider>>

RemoveProvider ==
  /\ provider /\ provider' = FALSE
  /\ UNCHANGED <<by, step, givenUp, current, before, port, page, result, spent, traded, end, down>>

Steps(a) ==
  \/ Replace(a) \/ Bind(a) \/ App(a) \/ OpenPage(a) \/ Wait(a) \/ Exchange(a)
  \/ Answered(a) \/ User(a) \/ StoreIt(a) \/ Leave(a) \/ Done(a)

SignInit ==
  /\ by \in Owners
  /\ step = [a \in Attempts |-> "new"]
  /\ givenUp = {} /\ current = [s \in Services |-> NoAttempt]
  /\ before = [a \in Attempts |-> NoAttempt]
  /\ port = [a \in Attempts |-> 0] /\ page = [a \in Attempts |-> 0]
  /\ result = [a \in Attempts |-> NoAttempt]
  /\ spent = [a \in Attempts |-> 0]
  /\ traded = {} /\ end = [a \in Attempts |-> ""]
  /\ provider = (\E a \in Attempts : by[a] = "key") /\ down = FALSE

SignNext ==
  \/ \E a \in Attempts : BeginSignIn(a) \/ Steps(a) \/ CancelSignIn(a)
  \/ \E b \in Attempts, what \in {"code", "denied", "error"} : Redirect(b, what)
  \/ Shutdown \/ RemoveProvider

SignSpec == SignInit /\ [][SignNext]_signVars

-----------------------------------------------------------------------------
\* A sign-in ends with the redirect of its own page and no other, however
\* many pages are open and whichever port they come back to; a code is sent
\* once; and a new attempt that waited for the last finds its port free.
AnswersItsOwn ==
  /\ \A a \in Attempts : result[a] \in Attempts => result[a] = a
  /\ \A a \in Attempts : spent[a] <= 1
  /\ \A a \in Attempts :
       before[a] # NoAttempt /\ step[a] \notin {"new", "replace", "leave", "done", "ended"} => port[before[a]] = 0

\* An attempt that is to be saved though it was cancelled is a key that
\* exists, and such a key is not given up.
KeepsCancel(a) ==
  /\ a \in givenUp /\ step[a] # "save" /\ step'[a] = "save" => by[a] = "key" /\ a \in traded'
  /\ by[a] = "key" /\ a \in traded => end'[a] # "cancelled"

\* A sign-in cancelled before its last look saves nothing, and a key that
\* exists is never given up as cancelled: it is saved, or said to be refused.
CancelIsKept == [][\A a \in Attempts : KeepsCancel(a)]_signVars

\* However attempts replace, cancel and outwait each other, one ends with what
\* its own page brought, or with nothing.
SignInsAreOwn == []AnswersItsOwn /\ CancelIsKept
=============================================================================
