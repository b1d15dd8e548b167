# A TLA+ development of ffc

ffc is a command-line client, an MCP server and a desktop app for Frappe
sites, written in Go. This directory models the parts of it whose correctness
depends on the order in which things happen, or on separate pieces of code that
have to agree, checks the models with TLC, and proves what matters most for
every size of the system with TLAPS. Paths below are relative to `src/`.

- [The system](#the-system): its parts, their state, how they interact
- [The modules](#the-modules): what each one models and how
- [The runs](#the-runs): what TLC checks, with which bounds, and what it shows
- [The proofs](#the-proofs): what holds for every size, and why
- [What the code does and its comments do not say](#disagreements-with-the-documentation)
- [What is not modelled, and why](#not-modelled)
- [The plan](#the-plan)

`PROJECT.json` lists the components, runs, mutants, hazards and theorems, and
the lines of the source that every definition stands for.

## The system

### Processes

Several processes of one user share a config file (`~/.config/ffc/config.yaml`)
and the sites it names: one-shot commands (`internal/cmd`), long-lived MCP
servers (`ffc mcp`, one per client program, or detached), and the desktop app
(`desktop/`), which hosts MCP servers in its own process. Nothing coordinates
the processes but the config file's lock, a few files with fixed names, and the
sites.

```
 web view ──calls──▶ AssistantService ──▶ runner ──▶ run (a goroutine each)
    ▲                    │  life lock        │ r.mu      │        │
    └──── events ────────┴───────────────────┘           │        ▼
                         │                               │   model adapter (HTTP)
                         ▼                               ▼
                    store (SQLite)              Engine ──▶ engineServer (shared)
                    keychain                     ▲ e.mu         │ elicitation
                 config watcher ──Invalidate─────┘              ▼
                                                        FrappeClient ──▶ site
   ffc commands, ffc mcp ──────────────────────────────────────▲
        ├───────── config.yaml, config.yaml.lock ──────────────┘
        └───────── audit log, daemon state, ffc's binary, the app's copy
```

### Components

| Component | State it keeps | Operations | What makes it correct |
|---|---|---|---|
| Assistant engine (`desktop/services/engine.go`) | the cache of MCP servers by site and spec; each server's reference count, retired flag, idle generation; the open sessions; `closed` | Open, session Tools/Call/Close, build, idle timer, Invalidate, Close | a server is never closed in use and always closed in the end; nobody gets a server older than the config he asked under; Close ends |
| Assistant service, run loop, titles, retention (`assistant*.go`, `history.go`) | `r.active`, `r.closed`, title claims, the service's life lock; in the store: conversations, runs, usage | Send, Retry, Continue, Cancel, Rewind, Rename, Delete, sweep, startup, shutdown, crash | one run at a time per conversation; a paused run is the last one; a run stored as running runs, unless a crash or a failed write lost its end; one title call counts; shutdown returns and outlives its users |
| One run: loop, approvals (`assistant_loop.go`, `assistant_approval.go`, `engine.go` Elicit) | the calls of a turn, their cards and answers, `asking`, the step budget, the pinned version | turns, parallel reads, cards, ffc's questions, Stop | no change without the user's yes, to the version the user saw, alone; the record is true; Stop stops |
| A conversation's messages (`message_actions.go`, `attachments.go`, `desktop/llm`) | messages, staged and sent files, the answer a run paused in | Rewind, Retry, DeleteExchange, Continue, import, replay to one of four providers | every request is one the provider accepts; what is to be continued is there |
| Providers, keys, site settings (`keys.go`, `sitecontext.go`, `assistant.go`) | rows of the store, keys in the keychain, sites in the config | CRUD, what a run may reach | a key goes to the address it was typed in for; data of a local-only site stays on this computer |
| Store (`desktop/store`) | SQLite: conversations, messages, runs, calls, usage, attachments, profiles, settings | one transaction per call | see the rows above |
| Config file (`internal/config/file.go`) | the file, its lock file and the token in it | lockFile, Edit, Overwrite, WriteFileAtomic | exclusive; no edit reverts another; nobody waits for ever |
| Sites (`desktop/services/sites.go`, `policy.go`, `internal/sitesetup`, `internal/cmd/site*.go`) | the config's sites: address, sign-in, rules | add, move, rename, remove, default, rules, browser sign-in | a sign-in stays with its server; a site keeps its rules; nothing is opened unasked |
| Site client and OAuth (`internal/client/client.go`, `internal/cmd/site_client.go`) | the client's token, the token whose refresh failed, `loginSem`; the pair in the config | send, refreshToken, refreshedRefused, relogin | a refresh token is spent once; the sign-in is not lost; a write is not repeated once it ran |
| MCP server (`internal/cmd/mcp*.go`) | the sites' rules, clients, the confirmer's pending states, the audit file | policy, tools, confirm, Close, audit | only what the rules allow is shown and written; what must be confirmed is, once |
| MCP daemon (`internal/cmd/mcp_daemon.go`) | a state file, a start lock | start, stop, status | the record names the server that runs; stop stops that one |
| Updates and installers (`internal/cmd/update.go`, `internal/desktopinstall`, `desktop/services/install.go`) | the installed programs and what is set aside | download, verify, replace, roll back | a program is there after every step, whole |
| Commands over documents (`internal/cmd/bulk*.go`, `import*.go`, `export.go`, `edit_doc.go`, `customize*.go`, `aggregate.go`, `doc_info.go`, `can.go`) | progress of one command; files | many requests to a site that others change meanwhile | what is reported is what was done; nothing unseen is overwritten; what is shown may be read |
| Model adapters, release signatures, rendering, jsonedit/tomledit | none, or a stream | decode, encode | pure |

`PROJECT.json` names every component with its files and how far it is modelled.

### What is hard

*Interleaving.* The engine's critical sections are short, with builds (up to 60 s),
logins and closes outside them. A run ends in four steps (outcome stored, left
`r.active`, events, title) with calls of the web view in between. A config
edit is eight system calls, interleaved with those of other processes.
*Failure.* The app or a command may die at any point: the store keeps a run
marked as running, the config keeps a stale lock, an update leaves a program set
aside, a site has replaced a refresh token that nobody wrote down.
*Ordering.* ffc's question arrives on a goroutine of its own; answers race with
Stop; Invalidate races with builds; a browser's redirect arrives at a port that
has a new owner. *Time.* Idle timers fire late; a lock is stale by its age; a
question has a time to live. *Outside the process.* Other people save the
document, upgrade the site and change the roles; process numbers are used again.
*Agreement.* What a tool's arguments are judged by and what its code then does are
separate pieces of code; so are comparing two rule sets and enforcing one.

The hazards list in `PROJECT.json` gives each with its line and with the
properties that would catch it going wrong, or why none does.

## The modules

```
the app      ServerLifecycle ◀─refines─ EngineServers
             AssistantRuns, LocalModels            ◀─ AssistantMC
             RunWrites
             ModelTurns ◀─EXTENDS─ Conversations   ◀─ ConversationsMC
the sites    SiteScreens                           ◀─ ConversationsMC
             SignIns                               ◀─ DocCommandsMC
             AtomicEdits ◀─refines─ ConfigLock     ◀─ ConfigLockMC, McpCallsMC
             TokenRefresh                          ◀─ TokenRefreshMC
ffc mcp      McpPolicy ◀─ McpTools ◀─ McpCalls     ◀─ McpCallsMC
             McpPolicy ◀─ SafetyScreen             ◀─ McpCallsMC
the machine  McpDaemon, AuditLog, FfcBinary, AppUpdates      ◀─ MachineMC
commands     SiteDocs ◀─ BulkRuns, EditDoc ◀─ DocCommands    ◀─ DocCommandsMC
             SiteJobs, SiteFiles, Customize, Aggregates, DocContext ◀─ DocCommandsMC
shared       Selection: what a loop over a sequence keeps, in its order
proofs       EngineServersProofs, AssistantProofs, ApprovalProofs, SitesProofs,
             SiteClientProofs, MachineProofs, DocCommandsProofs ─EXTEND─▶ SelectionProofs
```

They compose by what they promise each other. AssistantRuns takes a run's loop
as one step that may end in any way; RunWrites is the inside of that step, and
Conversations what it does to the messages. Both take a session of the engine as
given, which is what ServerLifecycle promises. SiteScreens, SignIns and
TokenRefresh take an edit of the config as happening at once, which is what
AtomicEdits promises and ConfigLock implements (as long as no process crashes
under the lock while two wait for it, see below). RunWrites' questions of ffc are
those McpCalls asks. DocCommands composes the site's documents, a bulk command,
an edit session and other people on one state.

One rule decides the grain of the actions: what runs under one lock (`e.mu`,
`r.mu`, `loginSem`, one SQLite transaction, one system call, one request to a
site) is one action; everything between two of them may interleave with
everything else. Where a lock is held over several steps with I/O between them,
the steps are actions and the lock is state.

An MC module that `EXTENDS` components which share no variable gives each a
`part` of the behaviours: in the others it stays in one initial state.

### The assistant

**EngineServers**, **ServerLifecycle**. `ServerLifecycle` is the abstract
specification: a server is opened once, joined while open, and closed once, when
nobody has it. `EngineServers` is `engine.go`: `Acquire`/`AcquireNew`,
`StartBuild`, `BuildRead`, `BuildOk`, `BuildFails`, `BuildLate`, `EndBuild` are
Open and its build; `Ready`, `Register`, `OpenFails` are newSession;
`CallBegins`, `CallEnds`, `CloseSession`, `FinishSession`, `ReleaseSession` a
session's life; `IdleFires`, `Invalidate`, `CloseBegins` ... `CloseEnds` the rest.
`Release`, `MustClose`, `ArmsTimer` and `RetireAll` are `release`, `takeClose`,
the arming of the idle timer and `retireAll`. `taker[s]` is the goroutine that
set `srvClosed` and is to call `closeSrv`: the two-phase close is where a server
could be closed twice, or under a session. `cfgVer`, `builtCfg`, `invVer`,
`openInv` number the versions of the config, so that "fresh" can be said.

**AssistantRuns**. The runs of all conversations over the store, with calls of the
web view, the runs' goroutines, the life of the service, and crashes. `call[u]` is
where a call of the web view is: it holds the lifecycle lock (`enter`) from
`Enter` to `Exit`. `SendReads`, `SendStarts`, `SendFails`, `SendTitles` are `Send`
and `startParts`; `Retry`, `Continue`, `TakeBack` (Rewind, DeleteExchange),
`Cancel`, `Rename`, `Delete`, `Sweep` are the others. `pc[r]` is a run's goroutine:
`LoopEnds`, `FinishRun` or `FinishFails`, `Unlist`, then the title (`StartTitle`
... `EndTitle`). `ShutdownBegins` ... `ShutdownEnds` are ServiceShutdown, wait by
wait. `Crash` loses what is in memory and keeps the store; `Start` is
ServiceStartup.

**RunWrites**. One run: turns, `Plan`, the group of reads that run together
(`ReadStarts`, `ReadEnds`, `Flushed`), and `runWrite` on one call at a time
(`WriteStarts`, `PreRead`, `CardApproved`, `CardRefused`, `CallOk`, `CallFails`).
ffc's side of a call is external but for its questions: `FfcAsks`,
`FfcAsksAgain`, `FfcSends`, `SiteApplies`. The Elicitor's goroutine is
`ElicitOpens` ... `EngineGivesUp`; it may outlive the call, and the model lets it.
`Answer` and `Cancel` are the user's, `SavedElsewhere` somebody else's. `honest`
says whether ffc asks about the calls it is certain to ask about: the run must not
trust it, and `Unasked` is what the run does when a call came back that ffc should
have asked about (no property is about that end).

**Conversations**, **ModelTurns**. `ModelTurns` has no state: `FoldImported`,
`RepairHistory`, `MergeSameRole` and the four `...Wire` operators are what becomes
of a history on its way to a provider, the four `...Turn` operators what an
adapter makes of a stream that ends anywhere, `Accepted` what the providers'
documents ask of a request. `Conversations` has one conversation's rows, files
and runs. Starting a run and the message actions hold the runner's lock from
first read to last write, one store transaction a step (`op`), each of which may
fail, with a crash between any two; the composer's calls go on meanwhile. The
run itself takes turns from `ModelTurns`' outcomes.

**LocalModels**. Which model server a conversation reaches and with which key:
`saved` and the provider are rows of the store, the key is in the keychain, the
sites are in the config; no transaction spans two of the three. `BeginSave` ...
`SaveRow`, `BeginSetKey`/`SaveKey`, `BeginDeleteProvider`/`DeleteRow` are the
settings screens' calls step by step, `SaveSettings`, `ListEarlier`,
`ClearEarlier` SaveSiteSettings. `StartTurns` and `LaterTurn` begin a check, which
is `checkRun`'s four reads, one after the other, with anything in between:
`ReadSite` (and `AdoptUrl`, the address an old conversation gets), `ReadRow`,
`ReadConfig`, `ReadRule`; a run's first check is made twice, the second time for
its client with `ReadKey`. `CheckTurn` lets the turn begin.

### Sites

**ConfigLock**, **AtomicEdits**. `AtomicEdits`: each edit happens at once, on the
file as it is (an Overwrite discards it). `ConfigLock` is `lockFile` and `edit` one
system call at a time: `Take`, `TakeFails` and `Finds` are OpenFile with O_EXCL,
`TokenWritten` and `TokenFails` the token, `Stats` and `Break` os.Stat and
os.Remove of a stale lock (on a name: whatever file it is by then), `Late` the
deadline, `Read`, `Skips`, `Rename` the edit, `ReleaseReads` and `ReleaseRemoves`
the release. `Ages` makes a dead process's lock older than lockStale. Locks are
numbered as they are made, and the number stands for the random token and for
the edit made under it.

**TokenRefresh**. OAuth pairs are numbered as the site issues them; issuing one
spends the refresh token before it. A job is a process's start (`newClient` and
`refreshSite`) or a request. `Send` and `Repeat` are one HTTP request with the
client's token. `LockLogin`, `Decide`, `Probe` are `refreshToken` with `loginSem`;
`LockLoginAgain` and `Reprobe` are `refreshedRefused`; `LockConfig` ... `SaveFails`
are `refreshOAuth` under the config's lock. `Lapse`, `Restore` and `Expire` are
the site's and the clock's; `AnswerLost` and `Crash` lose a pair the site issued.

**SiteScreens**. Each caller has one operation of the Sites screen or of `ffc init`
and `ffc site` under way (`Start...`, then `Added`, `ChangedURL`, `Edited`, ...):
it reads the config, asks the site, and only then writes through
`sitesetup.Store`, when what it read may be old. `PutSite`, `RemoveSite`,
`RenameSite`, `SetSiteURL` are the store's writes.

**SignIns**. The three browser sign-ins (`Owners`: the screen's, the wizard's,
OpenRouter's) as attempts that bind a port, open a page, wait for the redirect
with their state, exchange its code and store what they get, while others cancel,
replace and outwait them. A page may be opened again and its redirect arrive at
whoever has the port by then.

**SafetyScreen**. What `policy.go` shows, compares (`Opens`), asks and saves, while
others edit the rules. `Looser` is the reference: some call is refused under the
old rules and not under the new ones, or asked about and now not.

### The MCP server

**McpPolicy** is the rules' side: what `Check`, `CheckReport`, `CheckRestore` and
`ConfirmMode` make of a scope. **McpTools** is the tools': `ScopeOf` is what a call
is judged by, `Does` what the tool's own code then shows and writes, and
`PlainCall`/`Offers` what completions offer. **McpCalls** runs handlers over them,
each through the site's rules as the config reads then, the signed confirmation
(`LookAtState`, `Spend`, `Ask`, `UserAnswers`), the site's client and the tool,
beside `EditConfig`, `Tick` and `Close`. A client of ffc may send any answer it
ever got, again, late, or with another call.

### The machine

**McpDaemon**: `ffc mcp --detach`, `status` and `stop` system call by system call
over the state file, the start lock and the computer's process numbers, which are
used again. **AuditLog**: servers that append to one log and rotate it, with the
marker file. **FfcBinary**: `ffc update`, its rollback and the app's InstallFFC on
Unix and Windows, rename by rename. **AppUpdates**: `Find` over the published
releases, and the replacement of the app on macOS and Windows, with its repair.

### Commands on a site

**SiteDocs** has the site's documents and what each request does to one.
**BulkRuns** is `runBulk` and the five commands on it: which lines start a document
and which continue it, the checks of names, values, links and unnamed rows, the
workers, the requests of an item, interrupt, report. ReportIsTrue's clause on links
is about the imports whose check found a link only the file can satisfy
(`sameFile`); a user who may not list the documents leaves links to the site. **EditDoc** is edit-doc.
**DocCommands** composes them with the Desk's users. **SiteJobs**: Data Imports
and prepared reports, whose jobs run on the site. **SiteFiles**: pages,
downloads, workbooks and uploads. **Customize**: pull into a folder, push from
it. **Aggregates**: aggregate with its two syntaxes, and the remembered versions.
**DocContext**: the fields a user may read, docinfo cut down to them, and `can`.

## The runs

All runs finish; each property of a passing run has a mutant in `PROJECT.json`
(an operator in its module whose comment calls it a mutant, a plausible bug of
that code) under which TLC finds it violated.

| Run | Instance | What it shows |
|---|---|---|
| `engine` | 2 callers, 2 servers, 1 key, 2 opens, 1 config edit | never closed in use, never stale, no session after Close; Close returns; refines ServerLifecycle with its fairness, so every server nobody has is closed in the end |
| `runs` | 2 web calls at a time, 1 conversation, 2 runs, 1 start | no overlap, the paused run is the last, one title call's usage counts; shutdown returns |
| `writes` | 2 calls of any kinds, 1 turn, 2 steps, 2 parallel reads, 1 foreign save | approval, version, isolation and record of every change; Stop ends the run |
| `assistant` | runs: 2 conversations, one not kept, 1 web call at a time, 2 runs, 2 starts; models: 2 site names, 2 addresses, 2 screens, 2 turns | the store closes last, and a run stored as running is active but for a crash or a failed write; keys stay with their address; no turn passes over a local-only rule that was in force all the while it was checked, while the client has the row's address; a rename keeps the rule of a site that did not move |
| `local_only_rename` | 2 names, 2 addresses, 1 screen | a disagreement, see below |
| `conversations` | messages: 4 rows, 2 turns, 1 file, any provider; screens: 2 names, 3 addresses of 2 servers | requests are accepted, what a paused run and a prompt need is there; sign-ins stay home but for two edits, sites keep their rules |
| `config_lock_broken` | 3 processes, 1 crash | a disagreement, see below |
| `config_lock_denied` | 2 processes, 1 crash, 1 without permission | a disagreement, see below |
| `token_refresh` | 2 processes and their starts, 1 read and 1 write at once, 3 pairs, 1 lost answer | a refresh token is spent once, the sign-in is kept, a write is repeated only when refused |
| `doc_commands` | 8 parts: documents (3 names, 16 commands, 1 save by others), sign-ins (2 attempts), Data Imports and prepared reports (2 commands), files (2 readers, pages of 2), customize (3 documents), aggregates (4 groups), rights (2 levels of fields) | what was done is reported, nothing unseen is overwritten, a sign-in is its page's, jobs and files are told as they are, customizations arrive as planned, what is shown without `--full` may be read |
| `machine` | daemon: 2 commands, 2 process numbers, 1 port; audit: 3 writers; binary: 2 tools, 2 versions; app: 3 releases | stop stops its own server and the record names it; after every step a program is there, or its copy is under another name, genuine and whole; the audit history is kept |
| `mcp` | calls: every tool under some hundred rule sets, one at a time, and 3 scenes of 2 handlers; lock: 2 processes, 1 crash; screen: 15 rule sets, servers with each kind of flags | the policy bounds the tools, nothing is done unasked, no client outlives Close; the lock with one waiting process; opening is asked |

*Why the bounds are enough.* A race needs two actors; two callers, two web calls
or two processes give every pairwise one, and the third writer of the audit log
is the one whose rotation the other two meet. The second server, third lock or
third pair are there for the ABA cases: a server rebuilt while its retired
predecessor is in use, a lock made after one was broken, a token replaced twice
between two looks at it. One crash, one lost answer, one foreign save and one
restart are each the first; a second one meets a state that the first one also
meets, from a later point. Two runs of a conversation are the smallest number
with a last and an earlier one; two conversations, with one not kept, the
smallest at which a sweep takes the wrong one. Four rows hold a prompt, its
answer, its results and what follows. `StepLimit`, `ParallelReads`, `PageSize`,
`FetchCap`, `ProbeRows` and `MaxLimit` are small so that their limits are met.
Where a part's instance is cut further the MC module names the bound
(`SecondScreen`, `RunOrSettings`, `RunOrKeys`, `LaterElsewhere`, `FirstRule`,
`OneOwnName`, `PrevIsOne`, `FullHasParts`, `OneKindOfJob`). `FreshPids` gives a process
number out again only once nobody is between its probe and its signal. What a
small instance cannot say is what the theorems below are for: they have no bounds
but the assumptions named with them.

*Symmetry* is over site names and addresses (`assistant`) and over commands,
process numbers and tools (`machine`), in runs without liveness and in
specifications that treat them alike.

*Deadlock* is not checked but in `local_only_rename`: every model may stop, for
nobody has to call, and the bounds end the counters. What must not stop is stated
as liveness (CloseReturns, ShutdownReturns, StopEnds, WaitIsBounded,
ImplementsLifecycleFairly).

*Fairness.* Weak fairness only, and only for what the code's scheduling carries
forward by itself. EngineServers: the callers' own steps, builds (which have
timeouts), armed idle timers, Close's steps; a call of a session ends only once
the session is closed. AssistantRuns: web calls under way, the goroutine of a run
past its loop, a cancelled run's loop (every wait in a run selects on its context,
and every request carries it), shutdown's steps. RunWrites: the loop and the
Elicitor of a cancelled run. ConfigLock: a process that can step, and time.
Never for the user, the model or the site: a run may wait for an answer for ever,
and does.

### Disagreements with the documentation

Three runs state what a comment or document says, and TLC finds it violated
by what the code does.

- `config_lock_broken`. `lockFile` "takes an exclusive, cross-process lock". When a
  process has crashed under the lock, two waiting ones may both find it stale;
  the slower one removes the lock the faster one has just made, and both hold
  it. With one waiting process (`mcp`) and with no crash (the theorem) it is
  exclusive.
- `config_lock_denied`. A wait is to end after `lockWait`. When the stale lock
  cannot be removed the loop continues past both its deadline and its sleep, for
  ever. `mcp` shows the bound for processes that can.
- `local_only_rename`. "a rename never turns local only off"
  (`docs/desktop/using.md`). Settings saved before a site moved apply by its name
  alone, and a rename of such a site turns its rule off. For a site whose
  settings have its address, `RenameKeepsUnmoved` holds and is proved.

Seen while modelling, and in no run. Each is in the model as the code has it, so
the properties say no more than holds:

- *Engine.Close* "closes every server": one that a caller is acquiring is closed
  by that caller, after Close has returned.
- *The config lock's release* reads the token and removes the file in two calls: a
  holder suspended longer than `lockStale` between them removes a later holder's
  lock.
- *A model's client* is made once for a run. When a remote custom provider is
  pointed at this computer meanwhile and the site made local-only, the check reads
  the new row and the turns go on to the old address (`assistant_loop.go:411`,
  `checkRun`); "this is checked before the provider is contacted, for each model
  turn" (`docs/desktop/using.md:144`) does not say so. TurnsObeyRules is about
  clients that have the address of the row that was checked.
- *`keyFor`* (`assistant.go`) reads the provider's row and its key in two steps;
  KeyIsOfItsAddress is about what is stored.
- *Rewind's* limit on staged files and AddAttachment are two transactions
  (`message_actions.go`): both pass, and the limit is exceeded.
- *Sites screen*: that a name is free is checked minutes before it is written
  (`sites.go`); ChangeURL, `ffc site edit` and SaveSiteSettings write what they
  decided on older reads; `ffc init` overwrites a config made meanwhile.
- *refreshToken* takes the stored pair by the site's name only: a site that was
  removed and added again under the name gives its pair.
- *Writes after a 401 of their own*: RepeatedWhenRefused says only that a write is
  not repeated while the site has accepted its token ever since it was sent.
- *compat adapter*: after a stop at the length limit, a call whose arguments had not
  begun runs with none.
- *A Data Import* started twice, when the answer to the start was lost, runs twice;
  JobsAreTold assumes one job.
- *export* "a deleted document" (`export.go`): a deletion between two pages shifts
  the rows after it, and one is not exported; without hard links, `download`
  without `--force` replaces a file made meanwhile.
- *upload* looks for the document first, for the site would attach a file to any
  name (`files.go:58`): one deleted between the look and the file leaves a File of a
  document that is gone, and UploadIsTold does not exclude it.
- *doc-info --full* prints the docinfo as the site gave it, every version with every
  field, also beside its own note that the versions were left out, while
  `docs/development/internals/data-commands.md:29` has "Versions are filtered by
  readable fields for CLI and MCP alike". RightsAreKept is about the other views.
- *customize pull* killed between a document's two files leaves parts of two saves
  side by side; FolderIsWhole (in CustomsArrive) leaves out that one document.
- *aggregate* (`aggregate.go`, `aggregateRows`): of the errors of two syntaxes it
  reports the one about the query, but not when an unknown version meets
  Frappe 15's refusal of both. A query that the site answers with a 500 is not in
  the model.
- *Removal by name.* Three more files are judged by one call and removed by a
  later one, as the config's lock is: the audit log's marker (`robbed`), the
  daemon's record (`swept`: the servers whose record a status or a stop removed
  that had read an older one) and its start lock (`broken`). HistoryIsKept and
  ServersAreRecorded hold but there, the latter for every other server still.
- *An update of ffc on Windows* whose second rename fails renames the old binary
  back and ignores that this may fail too (`update.go:536`, `install.go:203`): the
  user is told only of the first failure, and no binary is in ffc's place. It is
  still there under the name it was moved to, until another update that began
  before frees that name (`taken`). BinaryIsOwn says that much and no more.
- *An update of the app*: "Any failure leaves the current copy as it was"
  (`self_update.go:33`), but the old copy that cannot be put back stays as
  `<app>.old`, with no app in its place (`apply.go:165-168`, `apply.go:206-217`,
  whose error says so). AllOrNothing has it there or in place, whole. Two
  installers at once both write `<app>.new`, and nothing prevents it; a Windows
  setup killed half way leaves what it leaves (both `met`); and half an exe that a
  failed setup left is moved over the old copy by the next install (`owned`).
- *The Safety screen* lets a first entry of `allow_methods` through unasked for a
  server that was started with `--allow-doctypes` and no `--allow-methods`, which
  it opens call_method for (`FirstMethods`). OpeningIsAsked excuses that call on
  such a server and nothing else.
- *A site's new address* is checked before it is written, and SetURL does not look
  again: when ffc replaces or moves the site meanwhile, the new sign-in stands next
  to an address of the old server, until the site is saved anew (`outrun`);
  `ffc site edit` moves the address and leaves the sign-in. SignInsStayHome
  excuses these two.
- *A document without `modified`* is not pinned (`assistant_approval.go:484-489`): a
  change approved for it is made to whatever version there is.
- *A title* is paid twice when the app dies between the model's answer and the row
  of its usage (`assistant_title.go:162`): RunsTakeTurns counts the rows. A run that
  a crash left marked as running stays so in the store: nothing looks for it.
- *A yes* given to an MCP confirmation is bound to its call, not to the rules it was
  asked under: NeverUnasked is about the call.

## The proofs

Proved by TLAPS for all values of the constants: any number of callers, servers,
sites, handlers, messages, processes, crashes within no bound but the named
ones. What a theorem assumes of a constant is an `ASSUME` of its module, and all
of them say no more than what the code gives: finiteness of callers, jobs and
processes (FiniteCallers, JobsAreFinite, FiniteProcs), bounds that are numbers
(MaxRunsIsNat, BytesAreCounted, ReleasesAreNumbers, ...), "none" values that differ
from the others (NoServerIsNone, NoneIsNothing, NoAppIsNoCopy, ReadersAreNamed,
...), and what a scene, a rule set, a file, a command, a question or a document is
(ScenesAssumption, RulesAssumption, FilesDiffer, JobsAreCommands, AsksAreAsks,
WantsAreWants, ViewsAre, HistoryIs, QuestionsAre, CustomsAreNumbers, SitesAreOfCustoms;
SitesAreWellFormed: rows with names of their own; DirsAreWhole: a folder whose files can be
read). OneImport has one process run Data Imports: the model has one import.
One theorem assumes more: ConfigLock's, that no process crashes. Where a property
excuses a case, as the bullets above say, its theorem's comment names the case.

Each module has one inductive invariant per component: Init gives it, each action
keeps it (a lemma or a step per action, one per conjunct it can disturb), and it
gives the property. TLC checked each one on the run's instance first.

| Module | Theorem | States | Inductive invariant |
|---|---|---|---|
| EngineServersProofs | `RefsCorrect`, `ClosedUnused` | counts are exact; NeverClosedInUse | `IInv` |
| | `SessionsEnd` | NoSessionOutlives | `SessionInv` |
| | `ImplementsLifecycle` | Spec => Lifecycle!Spec | both |
| ApprovalProofs | `YesBeforeWrite`, `RecordsTrue`, `AloneInTurn` | NoWriteWithoutYes, RecordIsTrue, ChangesRunAlone | `RunInv` |
| | `PolicyBounds`, `KeptToPolicy` | the check bounds the tools; KeepsToPolicy | `McpInv` |
| | `AskedFirst`, `ClosedForGood` | NeverUnasked, NoClientOutlivesClose | `McpInv` |
| | `NothingOpened`, `OpeningAsked` | ~Opens => ~Looser; OpeningIsAsked | `ScreenOK` |
| AssistantProofs | `TurnsTaken`, `StoreOutlives` | RunsTakeTurns, StoreOpenWhenUsed | `RunsInv` (`RunsHold`) |
| | `KeyAtHome`, `TurnsChecked`, `RenameKept` | KeyIsOfItsAddress, TurnsObeyRules, RenameKeepsUnmoved | `KeyInv`, `TurnsInv` |
| SitesProofs | `ShownThere` | ShownIsThere | `ConvInv` |
| | `RequestAccepted` | RequestIsAccepted | `TalkInv` |
| | `SitesKept`, `SignInsOwn` | SitesAreKept, SignInsAreOwn | `ScreenInv`, `SignInv` |
| SiteClientProofs | `NeverSpentTwice`, `SignInKept`, `WritesOnce` | SpentOnce, StaysSignedIn, RepeatedWhenRefused | `RefreshInv`, `GoodIsLive`, `RefusedFirst` |
| | `JobsTold`, `FilesKept` | JobsAreTold, FilesAreWhole | `JobsInv`, `FilesInv` |
| | `CustomsKept` | CustomsArrive | `CustomInv` |
| MachineProofs | `StopsOwn`, `Recorded` | StopsItsOwn, ServersAreRecorded | `DaemonInv` |
| | `HistoryKept`, `BinaryOwn`, `AllOrNone` | HistoryIsKept, BinaryIsOwn, AllOrNothing | `AuditInv`, `BinaryInv`, `AppInv` |
| | `Exclusive`, `EditsAreAtomic` (of ConfigLock) | MutualExclusion, ImplementsAtomicEdits | `LockInv` |
| DocCommandsProofs | `ReportsTrue`, `UnseenKept` | ReportIsTrue, KeepsUnseen | `IInv` |
| | `RightsKept` | RightsAreKept | `RightsInv` |
| | `AggregatesRight` | AggregatesAreRight | `AggInv` |

With `TypeCorrect` of EngineServers, TokenRefresh and DocCommands that is every safety property
of the runs. Why the invariants are what they are:

**EngineServers.** `RefsAreHolders` (a server's count is the callers that hold it
plus its own build) is inductive with TypeOK and with what ties a caller's place to
the server it is at; the cardinalities change by one with the set of callers, by
the library's theorems on finite sets. Never being closed in use then rests on
the count: `MustClose` needs no reference, so no user, and a retired server whose
taker is set left the cache, so that no caller can join it. For the sessions: a
server in the cache read the config no earlier than the last Invalidate
(`ReadsNew`), for Invalidate empties the cache and a late build does not enter it.
The refinement maps an engine's server to a lifecycle's by `StateOf` and `UsersOf`;
what is shared, counted and retired is stuttering.

**RunWrites** (in ApprovalProofs, with McpCalls and SafetyScreen). `YesOK`: an approval that a write will act on is the user's answer
to a card of this call and of the version it shows; `AskOK` keeps the Elicitor's
late answers apart by the call they were asked for; `GroupOK` says that while a
change is under way nothing else of its turn is. `ResultOK` and `SentOK` relate
what was recorded to what the site applied, in every order of stop and failure.

**AssistantRuns.** That only the last run is ever paused needs that an active run
is the last one (`ActiveOK`), which every start keeps by abandoning the paused
ones in the transaction that makes the new run; `PlacesOK` and `RunningOK` tie a
goroutine's place to what the store says of its run; `LifeOK` ties both to the
service's life, so that the store is never closed under a user. That a title is
counted once follows from the claim, which a Delete, a restart and a second Send
must each find (`TitlesOK`).

**LocalModels.** A stored key was typed in for the row's address, or the row is
being moved by a call that holds the lock and has removed the key first
(`KeyInv`). `seen` keeps the rules that have been in force since a check's first
read. The config that a check read has these rules, by the rows as they are when the
rule is looked up (`TurnsKnow`), so a turn that goes elsewhere past one of them has a
client whose address is not that of the row the check read.

**Conversations.** `ConvInv`: no two rows have one id (so the index of an id is its row's),
a file is staged or of a row that is there, the row an operation is about is there
until it deletes it, and an operation adds or deletes only once it has closed the
paused run, unless it deletes an earlier exchange, with a prompt behind it. The sequences (cutting a range, the
least index) have lemmas of their own, from the library's.

For RequestIsAccepted, `TalkInv` says what the rows are to each other. A message of
this app that is no prompt directly follows a message of this app, and one with
results follows one with calls (`TalkOK`). A run, a paused run and a row about to be
created go on from a last row of this app; of the calls a stream cut off only the
compat adapter's with no arguments are run (`TurnOK`). So what any order of turns, stops,
deletions, imports and prompts leaves of a conversation is a sequence whose own messages
open with a prompt and have their results behind their calls (`OwnMessages`). The rest
has no state: `RunIs` folds a run of one speaker's messages into one, `RepairAnswers`
gives each call one result and each result its call, `MergeKeeps` and the lemmas of
the four adapters (`ItemsAccepted` and its like) keep that pairing, and `WireAccepted`
puts them together, for a history of any length. The loops of the code are written as
what they keep of a sequence (`Chosen`, `InTurn`), whose laws SelectionProofs proves
from the ranks in a finite set of numbers: a least number takes the place of an
induction.

**Sites.** `ScreenInv` says what each screen call may still write given what it has
checked (`ChangeOK`, `Checked`): its sign-in is of the address it will write.
`SignInv`: an attempt takes no redirect but its own page's, sends a code only
then and once, and goes on only once the attempt it replaced has ended.

**McpCalls.** `PolicyBounds` has no state: `Check`, `CheckReport` and `CheckRestore`
over a scope bound `Does` over a call, tool by tool. It is the theorem that the two
pieces of code agree. `McpInv` carries it through a handler's steps, with the
rules as they were read (`CheckedOK`), a yes that is of one question and is spent
once (`SpentOK`, `AnswersOK`), and the clients of sites against Close
(`ClientsOK`).

**The machine.** `DaemonInv`: a process number belongs to one living process, a start
holds the lock from its look at the record to its write. `AuditInv`: a rotation has the marker
to itself, and renames a log that is still full. `BinaryInv`: each file in ffc's
place, in a name it was moved to or in a tool's hands is signed or was the binary, and
an empty place has its binary in such a name (`BinaryThere`), whether the rename back
failed or the tool was killed. `AppInv` says the same of `<app>.new`, the app and
`<app>.old` at each step of an installer that is alone, and `OwnedOK` that one of the
last two is whole; `FindIs` and `NewestIs` say what `Find` returns for any list
of releases.

**ConfigLock**, assuming `Undisturbed`. `LockInv` strengthens MutualExclusion with:
the lock file is there exactly while one process holds it and has its token, none
is ever stale, and what a process that is about to rename has read is still what
the file says. Without the last conjunct a rename could revert an edit; without the
first, a release could remove another's lock. The assumption is needed:
`config_lock_broken` is the counterexample.

**TokenRefresh**, with any number of crashes and lost answers. `RefreshInv`: one
job at a time is under the config's lock, the file is behind the site only while
a job is saving, or after an answer was lost, and how often a method has run by
each place of its request. For RepeatedWhenRefused: a token that the site has
accepted since a write was sent is still live when the write's 401 is judged
(`GoodIsLive`), so a job that goes to repeat was refused first (`RefusedFirst`).

**SiteJobs.** `JobSite` says what an import's status says of its log rows, given the
Frappe version's marks and how far the site's job is; `JobGood`, what each command may rely
on at its place: the log counts it reads (`LogsAre`) and the status it was told
(`Polled`) belong to one start of the import, and a report's name that is not among
those it had (`Old`) was made since. `JobLeft`: an import that was never started is
still some command's to discard or to tell of, unless its discard was lost.

**SiteFiles.** `PagesGood` relates what a paged read has so far to the list as it is now:
what comes is beyond what it has (`Beyond`), whatever was added or deleted, and
while nothing was deleted it is the list's own beginning (`SameAs`); of a list in an
order of the user's own nothing is said. `DiskGood`
and `FileGood` say that a file with the name asked for is the whole output of one
finished command, and `Columns` that a column is a field the user reads.

**Customize.** `FolderOK`: each file with the one beside it is a save that the source
had, but the document that the pull is at (`AtWork`), of which `PullOK` knows what was read.
`ItemOK` says what an item of the plan is: while the target has the version that the plan
read, the fields shown are those that differ, for a version of a document is one state of it,
and a deletion keeps it. The order of a push has no recursion: what a visit comes to is
the least set closed under "inserted after" (`Way`), so that of two fields the one with the
smaller way comes first. The places of the changes differ, so each number up to their count is
one's place, and a field behind its `insert_after` is in a cycle.

**DocCommands.** `Holders` and `Tells`: of the items handed out, each has a true line
in the report or one worker, whose place says what of the item was sent and applied
(`Place`); of the others nothing was. `WorkStep` is what every step of an item comes
to, so that one lemma (`WorkKeeps`) carries the invariant over all of them. For the
documents: one that was read is the site's until its version grows (`AsRead`, kept
since every change is an `Evolves`), so the body made from it, sent with its
`modified`, is applied to that very document or refused. WriteSet sends none: it
names no rows. `RowsAsSeen`: rows are numbered as they are added, and those there
were at the look of an import without row names are gone or the import is refused;
`Checked` says which files get that far. `LinksTold` needs that one worker runs
when `sameFile`, and that only an item's own Create makes its document exist
(`MakesItsOwn`). What a command takes from its file or lists on the site is a sequence of the
right things, by lemmas on the ranks in a finite set of numbers (`RankedUp`,
`AscendingIsOf`, `ChosenIsOf`). `Chosen` needs no induction.

**DocContext.** `Reading` says of each of a request's answers which of the site's
states (`was`) it is of; unless both the DocType and the roles were changed meanwhile,
the access it ends with is that of one of them (`AccessIs`), which `AccessReads` turns
into what the site lets the user read. The counts are cardinalities: what is shown,
hidden and left out is what there was. `Asking` has the roles that `can` adds up, for the
answer to be the site's while nothing changes.

**Aggregates.** `AskerIs` says why the site refused a syntax: for the query itself, or
for the version, which is then not the one the command began with. The pages are
sequences in order (`RisingIsAscending`), so that the first `limit` of a whole page are
the site's, and a page is cut off exactly when it is as long as was asked for.

*Only model-checked:*

- Liveness (CloseReturns, ShutdownReturns, StopEnds, WaitIsBounded) and
  ImplementsLifecycleFairly, whose fairness is defined with ENABLED: out of the
  prover's reach. What the latter says without fairness is `ImplementsLifecycle`.
- MutualExclusion and ImplementsAtomicEdits with a crash and one waiting process:
  the theorems have no crash, `mcp` has one.

## Not modelled

- *Durations and clocks.* Timeouts happen or do not. That a refresh's 30 s
  include the wait for the config's lock, which alone may take 45 s, is only a
  failure (`ConfigFails`) in the model. Runs are ordered by creation, where the
  store orders them by the wall clock.
- *Username and password sessions* (`relogin`, `session.go`): the hazard at
  `internal/client/client.go:152` has no property yet.
- *Profiles* and the history flag; *import and export of conversations*, of which
  only the imported messages are in Conversations; the store's migrations and
  search; the events sent to the web view.
- *MCP client installers* (`internal/mcpinstall`): text edits of other programs'
  files.
- *Pure code*: stream decoding, rendering, parsing, encoding of requests,
  checksums and signatures (a choice over what may be served, in FfcBinary).
  *Pure I/O*: one-request commands, unpacking. The web view and the tests' fakes.
- *customize push*'s order of kinds (`customPushOrder`: Workflow States before
  Workflows, fields before the property setters that may change them); only the order among custom fields is modelled. Of *imports on
  the site*, one Data Import, started again once at most.
- *Approvals* of bulk_update, copy_doc and restore_doc, whose cards read more than
  one document.

## The plan

Done: the assistant (EngineServers with ServerLifecycle, AssistantRuns, RunWrites,
Conversations with ModelTurns, LocalModels), the sites (ConfigLock with
AtomicEdits, TokenRefresh, SiteScreens, SignIns, SafetyScreen), the MCP server
(McpPolicy, McpTools, McpCalls), the machine (McpDaemon, AuditLog, FfcBinary,
AppUpdates), the commands (DocCommands and the site parts), and the proofs above.

Next, most important first:

1. `SessionLogin`: the other half of the site client, where a 403 that a method
   raised itself meets another request's login.
2. ConfigLock's theorems with a crash and one waiting process.
3. Profiles and the history flag, as the view changes them while a run reads them.
