----------------------------- MODULE Aggregates -----------------------------
(***************************************************************************)
(* ffc aggregate (internal/cmd/aggregate.go, internal/client/aggregate.go) *)
(* and the remembered versions of a site (internal/cmd/server_cache.go),   *)
(* which whoami fills.  Frappe 15 and 16 want aggregates written in two    *)
(* ways, each refuses the other's, 15 drops columns the user may not read, *)
(* and 16 on PostgreSQL drops the order.  The site is upgraded, and groups *)
(* appear, while commands run.                                             *)
(***************************************************************************)
EXTENDS Integers, Sequences, FiniteSets, SequencesExt, Selection

CONSTANTS
  Askers,    \* bound: the commands
  Questions, \* bound: what each may ask, [Askers -> a set of Queries and Whoamis]
  Groups,    \* the groups there are, numbers: their place in the order
  ProbeRows, \* aggregateProbeRows
  FetchCap,  \* aggregateFetchCap
  MaxLimit   \* bound of --limit

ASSUME GroupsAre == Groups \in SUBSET Nat /\ IsFiniteSet(Groups)
ASSUME CapsAre == ProbeRows \in Nat /\ FetchCap \in Nat /\ MaxLimit \in Nat

Queries ==
  [cmd : {"aggregate"}, limit : 0 .. MaxLimit,
   hidden : BOOLEAN,    \* has a column the user may not read
   byIt : BOOLEAN,      \* is ordered by that column
   wrong : {"no", "417", "other"}]  \* is refused by any site, with that status
Whoamis == [cmd : {"whoami"}, refresh : BOOLEAN]

ASSUME QuestionsAre == \A a \in Askers : Questions[a] \subseteq Queries \cup Whoamis

VARIABLES
  major,     \* the site's Frappe
  unordered, \* it drops the order
  cache,     \* server.json: a major, NoCache, or Old, past its 24 hours
  asker      \* [Askers -> where each command is]

aggVars == <<major, unordered, cache, asker>>

NoCache == 0
Old     == 1
Dict    == "dict"
Str     == "string"
SyntaxFor(frappe) == IF frappe = 15 THEN Str ELSE Dict
OtherSyntax(syntax) == IF syntax = Dict THEN Str ELSE Dict

AskerAt(a, at) == asker[a].at = at
AskerTo(a, at) == asker' = [asker EXCEPT ![a].at = at]
Says(a, result) == asker' = [asker EXCEPT ![a] = [at |-> "over", q |-> @.q, began |-> @.began, result |-> result]]
Fails(a, why) == Says(a, [is |-> "error", why |-> why])
SameSite == UNCHANGED <<major, unordered>>

-----------------------------------------------------------------------------
(* The site.                                                               *)

\* How it answers a query: another syntax is refused first; 16 refuses a
\* column that may not be read, 15 leaves it out, or fails when it orders.
SiteAnswer(q, syntax) ==
  IF syntax # SyntaxFor(major) THEN [about |-> "syntax", status |-> IF syntax = Str THEN "417" ELSE "500"]
  ELSE IF q.wrong # "no" THEN [about |-> "wrong", status |-> q.wrong]
  ELSE IF ~q.hidden THEN [about |-> "rows", status |-> "200"]
  ELSE IF major = 16 THEN [about |-> "unreadable", status |-> "403"]
  ELSE [about |-> IF q.byIt THEN "unknown column" ELSE "dropped", status |-> "other"]

\* The rows: the first in order, or so many of them in another.
PageOf(n) ==
  LET all == Ascending(Groups)
      k   == IF n = 0 THEN Len(all) ELSE Min({n, Len(all)})
  IN  IF unordered THEN Reverse(SubSeq(all, Len(all) - k + 1, Len(all))) ELSE SubSeq(all, 1, k)

UpgradeSite ==
  /\ major = 15 /\ major' = 16 /\ unordered' \in BOOLEAN
  /\ UNCHANGED <<cache, asker>>
ExpireVersions == cache \in {15, 16} /\ cache' = Old /\ SameSite /\ UNCHANGED asker

-----------------------------------------------------------------------------
StartAsker(a, q) ==
  /\ AskerAt(a, "idle") /\ q \in Questions[a]
  /\ asker' = [asker EXCEPT ![a] =
       [at |-> IF q.cmd = "whoami" THEN "user" ELSE "access", q |-> q,
        syntax |-> Dict, known |-> FALSE, read |-> 0, why |-> "none", rows |-> <<>>, began |-> major]]
  /\ SameSite /\ UNCHANGED cache

\* ReadableFields, CheckReadable: where the meta cannot be read it goes on.
CheckReadable(a) ==
  /\ AskerAt(a, "access")
  /\ \/ IF asker[a].q.hidden THEN Fails(a, "unreadable") ELSE AskerTo(a, "version")
     \/ AskerTo(a, "version")
  /\ SameSite /\ UNCHANGED cache

\* serverInfo: a fresh cache, or the site, whose answer is kept in the next
\* step; a failure that may mean another server drops the cache.  A command
\* that cannot know the version asks as for 16.
Cached == cache \in {15, 16}
ServerVersions(a) ==
  asker' = [asker EXCEPT ![a].at = "keep", ![a].read = major] /\ UNCHANGED cache
NoVersions == cache' \in {cache, NoCache}
ServerInfo(a) ==
  /\ AskerAt(a, "version")
  /\ \/ Cached /\ UNCHANGED cache
        /\ asker' = [asker EXCEPT ![a].at = "ask", ![a].known = TRUE, ![a].syntax = SyntaxFor(cache)]
     \/ ~Cached /\ ServerVersions(a)
     \/ ~Cached /\ AskerTo(a, "ask") /\ NoVersions
  /\ SameSite
WriteServerCache(a) ==
  /\ AskerAt(a, "keep")
  /\ cache' \in {cache, asker[a].read}    \* or it cannot be written
  /\ IF asker[a].q.cmd = "whoami" THEN Says(a, [is |-> "versions"])
     ELSE asker' = [asker EXCEPT ![a].at = "ask", ![a].known = TRUE, ![a].syntax = SyntaxFor(asker[a].read)]
  /\ SameSite
\* buildWhoami: the user, and then the versions.
WhoamiUser(a) ==
  /\ AskerAt(a, "user")
  /\ \/ Fails(a, "down") /\ cache' \in {cache, NoCache}
     \/ AskerTo(a, "versions") /\ UNCHANGED cache
  /\ SameSite
WhoamiVersions(a) ==
  /\ AskerAt(a, "versions")
  /\ \/ ~asker[a].q.refresh /\ Cached /\ Says(a, [is |-> "versions"]) /\ UNCHANGED cache
     \/ (asker[a].q.refresh \/ ~Cached) /\ ServerVersions(a)
     \/ (asker[a].q.refresh \/ ~Cached) /\ Says(a, [is |-> "note"]) /\ NoVersions
  /\ SameSite

\* Mutant of Asked: as many as were asked for.
AskedExactly(q) == q.limit
\* One more tells whether there are more, and enough to see an order.
Asked(q) == IF q.limit = 0 THEN 0 ELSE Max({q.limit + 1, ProbeRows})

\* checkColumns and droppedColumn make of 15's answers what 16's is.
ReadColumns(about) == IF about \in {"dropped", "unknown column"} THEN "unreadable" ELSE about

\* By status and type alone: a query that is wrong may look the same.
SyntaxRejected(answer, syntax) == answer.status = IF syntax = Str THEN "417" ELSE "500"

\* Aggregate with a syntax, and what follows.
TakesRows(a, syntax, answer) ==
  LET about == ReadColumns(answer.about)
  IN  IF about # "rows" THEN Fails(a, about)
      ELSE asker' = [asker EXCEPT ![a].at = "probe", ![a].rows = PageOf(Asked(asker[a].q)), ![a].syntax = syntax]

\* aggregateRows: the first syntax, and when the site refuses it the other.
AskFirst(a) ==
  /\ AskerAt(a, "ask")
  /\ LET r == asker[a]
         answer == SiteAnswer(r.q, r.syntax)
     IN  \/ Fails(a, "down")
         \/ IF SyntaxRejected(answer, r.syntax)
            THEN asker' = [asker EXCEPT ![a].at = "other", ![a].why = answer.about]
            ELSE TakesRows(a, r.syntax, answer)
  /\ SameSite /\ UNCHANGED cache
\* When it refuses both the first error is about the query; otherwise it is
\* not the version the cache has.
AskOther(a) ==
  /\ AskerAt(a, "other")
  /\ LET r == asker[a]
         answer == SiteAnswer(r.q, OtherSyntax(r.syntax))
         drop == cache' = IF r.known THEN NoCache ELSE cache
     IN  \/ Fails(a, "down") /\ drop
         \/ IF SyntaxRejected(answer, OtherSyntax(r.syntax)) THEN Fails(a, r.why) /\ UNCHANGED cache
            ELSE TakesRows(a, OtherSyntax(r.syntax), answer) /\ drop
  /\ SameSite

\* rowsSorted, and sortAggregateRows: a group is in one row.
RowsSorted(rows) == \A i \in 1 .. Len(rows) - 1 : rows[i] <= rows[i + 1]
CutRows(q, rows, warning) ==
  LET sorted == Ascending(ToSet(rows))
      more   == q.limit > 0 /\ Len(sorted) > q.limit
  IN  [is |-> "groups", rows |-> IF more THEN SubSeq(sorted, 1, q.limit) ELSE sorted,
       truncated |-> more, warning |-> warning]

\* runAggregate: a full page out of order is no top: all are read.
Probe(a) ==
  /\ AskerAt(a, "probe")
  /\ LET r == asker[a] IN
     IF r.q.limit > 0 /\ Len(r.rows) >= Asked(r.q) /\ ~RowsSorted(r.rows) THEN AskerTo(a, "all")
     ELSE Says(a, CutRows(r.q, r.rows, FALSE))
  /\ SameSite /\ UNCHANGED cache
FetchAll(a) ==
  /\ AskerAt(a, "all")
  /\ LET r == asker[a]
         about == ReadColumns(SiteAnswer(r.q, r.syntax).about)
         rows == PageOf(FetchCap + 1)
     IN  \/ Fails(a, "down")
         \/ about # "rows" /\ Fails(a, about)
         \/ /\ about = "rows"
            /\ Says(a, CutRows(r.q, SubSeq(rows, 1, Min({FetchCap, Len(rows)})), Len(rows) > FetchCap))
  /\ SameSite /\ UNCHANGED cache

-----------------------------------------------------------------------------
AggInit ==
  /\ major \in {15, 16} /\ unordered \in BOOLEAN /\ (unordered => major = 16)
  /\ cache \in {NoCache, Old, 15, 16}
  /\ asker = [a \in Askers |-> [at |-> "idle"]]
AggNext ==
  \/ UpgradeSite \/ ExpireVersions
  \/ \E a \in Askers :
       \/ \E q \in Questions[a] : StartAsker(a, q)
       \/ CheckReadable(a) \/ ServerInfo(a) \/ WriteServerCache(a) \/ WhoamiUser(a) \/ WhoamiVersions(a)
       \/ AskFirst(a) \/ AskOther(a) \/ Probe(a) \/ FetchAll(a)
AggSpec == AggInit /\ [][AggNext]_aggVars

-----------------------------------------------------------------------------
\* The groups a correct answer shows of a question with that limit.
TopGroups(n) == SubSeq(Ascending(Groups), 1, IF n = 0 THEN Cardinality(Groups) ELSE Min({n, Cardinality(Groups)}))

\* An answer is the top groups, cut off only when it says so, whatever the
\* site does with the order and whatever version the cache believes it is
\* (more groups than are ever fetched are said); a column that may not be
\* read never makes an answer, and an error tells what was wrong with the
\* query, never with the syntax ffc chose, unless the site is upgraded
\* between two tries, or refuses the query on 15 with the status of a syntax
\* error when 16 was tried first (runAggregate, aggregateRows).
AggregatesAreRight ==
  \A a \in Askers :
    AskerAt(a, "over") /\ asker[a].q.cmd = "aggregate" =>
      LET r == asker[a].result
          q == asker[a].q
      IN  /\ r.is = "groups" =>
               /\ ~q.hidden /\ q.wrong = "no"
               /\ IF r.warning THEN Cardinality(Groups) > FetchCap
                  ELSE /\ r.rows = TopGroups(q.limit)
                       /\ r.truncated = (q.limit > 0 /\ Cardinality(Groups) > q.limit)
          /\ r.is = "error" =>
               \/ r.why = "down"
               \/ r.why = "unreadable" /\ q.hidden
               \/ r.why = "wrong" /\ q.wrong # "no"
               \/ r.why = "syntax" /\ (asker[a].began # major \/ q.wrong = "417")
=============================================================================
