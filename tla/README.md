# ESPHome MCP bridge: TLA+ models, checks and proofs

This directory holds TLA+ models of the ESPHome MCP bridge: the Home Assistant
integration `custom_components/esphome_mcp_bridge` and its transport library
`esphome_mcp_client`. TLC checks each model on small instances; TLAPS proves
theorems about all of them for every value of their constants. `PROJECT.json`
lists the components, the runs, the mutants that show each property can fail,
the source lines of every definition, the findings, the hazards and the
theorems.

## 1. The system

An agent calls tools (`llm.py`) inside Home Assistant. Tools edit files of
`/config/esphome`, talk to an ESPHome dashboard add-on through the Supervisor,
or read a device's log over the native API. All coroutines share one event loop;
file work runs in executor threads.

| Component | State | Operations | Talks to |
|---|---|---|---|
| Job registry and polling (`jobs.py`; `_run_job`, `_start_background_job`, `JobStatusTool`) | jobs by id; of each its status, `finished_at`, stop event and lines | create (with pruning), driver's end, status call with wait and stop | build client, log capture |
| Bounded capture (`log_capture.py`, `device_logs.py`) | kept lines, `full` event, stream task, end reason | raw-line callback, wait for the first of three events, wind-down | filter, device or dashboard |
| Log filter (`logtext.py`) | held context, trailing count, state of the current entry | `feed` | capture |
| Build commands (`ws_client.py`, `dashboard.py`, `_BuildClient`) | connection, operation, deadline, the result being filled | submit, follow, stream, upload after compile, fall back to the legacy spawn protocol | dashboard |
| File tools (`_write_file`, create / write / patch / read) | the file, its mode, a temporary file per write | check, read, patch, write, replace | file system |
| Secrets (`_insert_secret`, `AddSecretTool`) | lines of `secrets.yaml` | look, read and parse, append | file system |
| Log calls (`_capture_logs`, `_run_logs_job`, `LogsTool`) | the source in use, the lines a job shows | device first, dashboard on failure | registry, capture |
| Output trimming (`output.py`, `_trimmed_output`) | none between calls; a state machine over lines | trim build, trim validate | job status, build tools |
| Add-on discovery and connections (`supervisor.py`, `_async_connection`, the inventory) | cached dashboard target per add-on | default slug, target, ingress session | Supervisor |
| Dashboard REST (`dashboard.py`) | none | inventory with `/ping`, single reads and writes | dashboard |
| Set-up (`__init__.py`, `config_flow.py`) | the entry's data and options, registered API, live option | config flow, options flow, set up, unload, update listener | Home Assistant, file tools |
| File-name guard (`_guard`, `_sanitize_filename`) | none | a predicate of every tool that takes a file | live option |
| Device matching, schemas (`llm.py`) | none | predicates and declarations | - |

**What is hard here.** Polls, drivers and pruning interleave at every `await`.
A capture can be stopped, filled, ended and failed in the same turn of the loop.
`run` is two operations over two connections under one fallback. File tools
decide in one executor job and act in another. Any write can fail or be cut
short. A dashboard or device may be silent for ever. Several config flows can be open at once, and the
option the file tools read is a copy that outlives the entry it came from. What a
poll shows of a growing output is trimmed anew each time.

**What makes each part correct.**

* Registry: live jobs are never pruned; answers never go back; a driver's end is
  a verdict; the size is bounded.
* Capture: nothing kept is lost or repeated, whatever ends it; an error is not
  swallowed; the stream is over when the caller returns.
* Filter: it returns what `grep -C` would, with continuation lines.
* Build: the dashboard is never asked for the same work twice; only a compiled
  firmware is flashed; success is the dashboard's own; every call ends.
* Files: whole versions only, true answers, kept permissions, no litter.
* Secrets: no text is overwritten, no lines are glued; a key YAML finds in the
  file is refused to the calls that come later.
* Log calls: an answer comes whole from one source; an error only after every
  source was tried; a stop ends the job in every phase.
* Connections: a call reaches the add-on it names, in its caller's name.
* Output: no diagnostic, nor the excerpt under it, nor the tail of a failed
  build is left out; what a poll has shown, a later poll shows; a cut is told.
* Set-up: one entry; the API is registered with it and gone with it, where the
  release allows; the option in force is the user's last choice, and every file
  tool obeys it.

## 2. Modules

| Module | Models | Source |
|---|---|---|
| `JobRegistry` | registry, drivers, pollers, restart | `jobs.py`, `llm.py` |
| `LogCapture` | `async_capture` and the stream task | `log_capture.py`, `device_logs.py` |
| `BoundedCapture` | what a capture promises (abstract) | |
| `LogJob` | one log call over both sources, with the steps of `BoundedCapture` | `llm.py`, `dashboard.py`, `supervisor.py` |
| `LogJobProofs` | theorems about it | |
| `LogFilter` | `LogFilter.feed` | `logtext.py` |
| `LogProofs` | theorems about `LogFilter` and `LogCapture`, and the refinement of `BoundedCapture` | |
| `OutputTrim` | both trimmers and the answers they go into | `output.py`, `llm.py`, `jobs.py` |
| `JobProofs` | theorems about `JobRegistry` and `OutputTrim` | |
| `BuildRun` | one build command, /ws and legacy | `ws_client.py`, `dashboard.py`, `llm.py` |
| `BuildRunProofs` | theorems about it | |
| `ConfigFiles` | one file under concurrent tools | `llm.py` |
| `AtomicFile` | what the file tools promise (abstract) | |
| `ConfigFilesProofs` | theorems, and the refinement of `AtomicFile` | |
| `Secrets` | `secrets.yaml` under concurrent insertions | `llm.py` |
| `SecretsProofs` | theorems about it | |
| `Connection` | default add-on, target cache, ingress session and the request under concurrent calls | `supervisor.py`, `llm.py`, `dashboard.py` |
| `EntryLifecycle` | config and options flow, set-up, unloading, restart | `config_flow.py`, `__init__.py` |
| `FileGuard` | the guard of file names, and how each tool asks it | `llm.py` |
| `IntegrationProofs` | theorems about `Connection`, `EntryLifecycle` and `FileGuard` | |
| `Recursion` | induction over the naturals and recursion along a sequence, for the proofs | |
| `MC...` | instances for TLC, symmetry sets and reference definitions | |

How state and actions correspond to the code:

* **JobRegistry.** `jobs` is the key set of `JobRegistry._jobs`; `status`,
  `finished_at`, `stop` are the fields of `Job`. `Create` is
  `_start_background_job`: `_prune` (both passes, `Pruned`), the insertion and
  the launch of the driver, which no `await` separates. `TaskDone`, `TaskError`
  and `TaskCrash` are the endings of the drivers; `PollStart` and `PollAnswer`
  are the two halves of a status call around its sleep, the second answering
  from the `Job` object it holds even if that was pruned. `Restart` empties
  everything, as `hass.data` is not stored.
* **LogCapture.** `stream` is the stream task from connecting to its end,
  `caller` the coroutine that waits. `WakeFull`, `WakeStreamDone`, `WakeStopped`
  are the three branches after the wait in their order of precedence, `WindDown`
  the cancellation, `Return` its completion. `RawLine(n)` is `_on_raw` for a line
  of which the filter releases `n`. `OuterCancel` is the cancellation of the
  caller itself, which leaves the stream task running.
* **LogJob.** `pc` is the `await` the call is in: the first connection, the
  inventory, the device's capture, the second connection, the dashboard's
  capture. A capture takes the steps `BoundedCapture` allows, which
  `LogCapture` implements, so a stop, a full capture and a failure race here as
  they do there. `shown` is `job.lines`, `lines` what the filter of the capture
  in progress returned. `adopted` says how `_match_device` can find the device.
* **Connection.** One action per `await` of `_async_connection`; what lies
  between two of them (`LookUp`, `Opening`) is part of the step before. The
  Supervisor's answer and its arrival are two steps, because the cache is
  written at the second. `addon` is the world as the Supervisor knows it.
  `Answered`, `Pinged` and `TimesOut` are the request that follows: an inventory
  asks `/ping` along the same connection, whose failure it passes over and whose
  timeout it does not.
* **LogFilter.** One action per branch of `feed`. A line is known by its number
  and by what cleaning, parsing and the options make of it.
* **OutputTrim.** A line is the class that the patterns of `output.py` put it in;
  two patterns that may match one line ("|-- lib" is an excerpt and noise) make a
  class of their own. `TrimValidate` and `TrimBuild` are the two trimmers, with
  their loop state as functions of the line number (`Section`, `InExcerpt`).
  `Output` is `job.lines.append`, of one line or of a piece with two, `Poll` and
  `Result` the two places an answer is made in. `shown` holds line numbers, so
  that two answers can be compared.
* **EntryLifecycle.** A set-up, an unloading and a step of a flow await nothing,
  so each is one action. `flow` says which windows show the form; the test for
  an entry that each submission repeats is `AlreadyExists`. `on_unload` holds
  what `async_on_unload` was given, `allow_extra` is
  `hass.data[DOMAIN]["allow_extra_files"]`, which unloading leaves, and `wish`
  records what the user chose last. `MCEntryLifecycle` composes it with
  `FileGuard`: a tool asks the guard with the option the entry left behind.
* **BuildRun.** `pc` runs through the two connections; `OperationDone` is the
  return of `_pump` into `run`, with the test of `compiled.success`;
  `WsRefused` is `WsUnavailableError` reaching `_dispatch`. `started` and
  `reported` are the dashboard's record of what it was asked for and what it
  said.
* **ConfigFiles.** Every executor job and, inside `_write_file`, every system
  call that matters is an action of its own: `Mkstemp`, `Fill`, `Chmod`,
  `Replace`. `WriteFails` is the `except BaseException` clause. `Crash` ends all
  calls where they are.
* **Secrets.** `Look`, `Read`, `AppendLine` are the three contacts of
  `_insert_secret` with the file. The file is the sequence of the pieces written
  to it, each known by its key and writer. `CutShort` is an append that the disk
  or a crash cut short; `tail` says where. What the next call makes of it follows
  YAML: cut in a key or in a value it cannot be parsed (`Unreadable`), cut behind
  the colon (`k1:`) it can. Text put behind an unfinished line (`Joins`) makes one
  key of two (`k1:k2: "v"` has the key `k1:k2`) or no YAML at all; the pieces in
  `glued` are no lines of their own. `KeysRead` is what `key in existing` is asked
  of: without the glued pieces, and without the `Converted` keys, which pass
  `SECRET_KEY_PATTERN` but which YAML reads as a boolean or null (`on`, `yes`,
  `null`).

## 3. Runs

Passing runs, with the reason why their bounds suffice. Type invariants are
proved (section 5); two runs check theirs as well.

| Run | Bounds | Properties | What it shows |
|---|---|---|---|
| `job_registry` | 4 jobs, cap 1, TTL 1, clock to 2, one agent | `TypeOK` `LiveJobsKept` `UnknownOnlyWhenOver` `PrunedRightly` `AnswersNeverRegress` | Both passes of the pruning act together and more than one entry is evicted at once: that needs cap + 3 jobs. The agent follows one job (`OneJobEach`), the others are there to evict it; polling a job has no effect on another. |
| `log_capture` | limit 3, bursts to 3, 5 raw lines | `NothingLost` `OvershootBounded` `FailureSurfaces` `StopOrFullEnds` `ImplementsBoundedCapture` | The limit can be reached exactly, passed by every amount a burst allows, and lines can come after it. |
| `log_job` | limit 3, bursts to 2 | `ShownIsReturned` `ErrorIsLastResort` `StopEndsJob` | One call sees every order of the two sources' failures, a timeout of each request and a stop; three lines are enough for either source to be full, short or empty. |
| `log_filter` | inputs of up to 7 lines of 6 kinds, context 0, 1, 2 | `HeldEntryIsThere` `KeptExactly` `AsGrep` | Seven lines are enough for two matches whose context-2 windows leave a gap. |
| `output_trim` | outputs of up to 5 lines of every class, failed tail 2, 3 shown | `ValidateKeepsDiagnostics` `BuildLeavesOutOnlyNoise` `CutIsTold` `PollsOnlyAdd` | Five lines hold a diagnostic, an excerpt longer than one line and noise on both sides of the tail, and are two more than an answer shows. |
| `build_run` | all commands, line limit 3, 2 frames that are no JSON | `WorkDoneOnce` `FlashOnlyCompiled` `SuccessIsReal` `ReturnedMatchesStreamed` `CallEnds` | A limit of 3 lets an operation end below, at and past any number of lines; `run` has only two operations. |
| `config_files` | 3 concurrent calls of any kind | `OutcomeIsTrue` `OnlyCrashesLitter` `ModeKept` `CreateSparesOwner` `ImplementsAtomicFile` | Two writers and a reader, or a patch overtaken by two others. |
| `secrets` | 3 calls, 2 keys and a converted one | `TypeOK` `BrokenOnlyByCutLine` `LaterInsertRefused` `SecretsKept` | Two calls racing on one key or on the last newline, and a third that comes later; a call cut short, one whose line is glued to it, and a third that reads the outcome. |
| `connection` | 2 calls, a stable and a beta add-on, an admin and a guest, one change of an add-on | `RightAddon` `MadeAsCaller` | Two calls are enough for one to use what the other cached; one change between any two requests moves the default or makes a target stale. |
| `entry_lifecycle` | 2 entry ids, 2 config flows, file names of up to 3 parts | `SingleEntry` `ApiFollowsEntry` `LastChoiceInForce` `FilesAsChosen` | Two flows race; the second id is for an entry installed after the first was removed. Three parts are a directory, what leads out of it, and a file. |

Jobs, clients, keys, entries, flows and connection calls are interchangeable, so
their runs use symmetry. Deadlock is checked of `connection` and
`entry_lifecycle`, which can always go on; in the others a call, a capture or a
set of tool calls ends.

Runs that show a disagreement between the code and what the repository says of
it; each checks one property and TLC finds it violated:

| Run | Property | What happens |
|---|---|---|
| `job_verdict` | `EndedTaskHasVerdict` | `_run_job` catches only `ESPHomeMCPError`. A `TimeoutError` out of a Supervisor request ends the driver with status "running" for ever, though agents are told to poll until "done" or "error". |
| `build_fallback` | `FallbackBeforeOutput` | The handshake of `run`'s second connection is refused after the compile; the legacy client then starts the whole command, though the fallback is said to happen before any output. |

Further observations that are no runs:

* A creation "fails if it already exists" (`llm.py:593`), but its test and its write
  are two executor jobs: of two creations of one file both may succeed, the second
  replacing the first. `CreateSparesOwner` states what holds all the same.
* An insertion "returns an error if the key already exists" (`llm.py:765`), but
  `key in existing` looks for a text in the parsed file, where a key like `on`,
  `yes` or `null` is a boolean or None: it is never found and is inserted again by
  every call. Two insertions that overlap both find their key absent and both
  append it. And a line put behind a cut one (`k1:`) is found under neither key.
  `LaterInsertRefused` states what holds: a key YAML reads as text, on a line of its
  own, is refused to the calls that begin later.
* "When a build fails, its last 40 lines are always kept as-is" (`src/README.md:64`),
  but `_trimmed_output` keeps them only for an exit code other than 0. A background
  build that ends without one (time limit, lost connection, a result that has none)
  is trimmed like one that succeeded. `BuildLeavesOutOnlyNoise` leaves it out.
* A request that takes its 30 seconds raises `TimeoutError`, which nothing
  converts. A log call then ends before a known device is tried, though
  "device-direct can still work" (`_capture_logs`); and a slow `/ping` makes an
  inventory fail that could do without it. `ErrorIsLastResort` excepts this.
* `create` prunes before it inserts, so the registry holds up to `MAX_JOBS + 1`
  entries (`PrunedRightly` states the bound that holds).
* One raw line that releases held context takes a capture past `max_lines` by less
  than a burst (`OvershootBounded`), although `tests/test_log_capture.py` says a
  burst cannot overshoot.
* A cached target is never renewed: after an add-on is reinstalled, or if an old
  answer is cached last, calls to it fail until Home Assistant restarts.
* A patch writes what it computed from an earlier read, so a change made between
  is lost.
* A status line overtakes held context, so output is in input order only among
  entries (`KeptExactly`), and equals grep's only while no status line came
  (`AsGrep`).
* `output_truncated` compares the number of raw pieces with the limit. It may be
  true though nothing was cut, because the output was trimmed first, and false
  though lines were, when a piece has several (`CutIsTold` holds for pieces of one
  line).
* After an outer cancellation the stream task of a capture lives on until its own
  deadline.

## 4. Fairness

Three runs need it.

* `LogCapture!FairSpec`: weak fairness of the three wake-ups together, of the
  return and of a cancelled stream's unwinding. The event loop runs every ready
  callback, and a cancelled task is resumed. Nothing is assumed of the device: a
  stream may stay silent, and only the stop or the limit must end the capture.
* `BuildRun!FairSpec`: time passes, a handshake is answered or refused (aiohttp
  limits it), and the client acts on a deadline that has passed
  (`ws.receive(timeout=remaining)`). Nothing makes the dashboard answer.
* `LogJob!FairSpec`: every request is answered, refused or times out; a capture
  that can end does, which is what `StopOrFullEnds` shows of `LogCapture`; the
  call goes on with its result. The streams may stay silent, and a source is not
  made to fail: the conditions on `pc` keep each fairness to its phase.

The other specifications are about safety, where "nothing happens any more" must
be allowed.

## 5. Proofs

Checked by TLAPS, for all values of the constants under the assumptions each
module names. Every safety property of a passing run is a theorem: invariants,
action properties and the two refinements. The bounds of a run (`MaxInput`,
`MaxRaw`, `MaxLines`, numbers of calls) are constants like the others, so the
theorems hold for inputs, outputs and schedules of any length.

**Recursion.** Most of what the code does with lines is a loop, which the models
write as a function defined from one line to the next. The library states
induction for operators, which the provers cannot be given, so this module states
it for sets: a set of naturals that is not empty has a least element
(`LeastNat`, from the library's well-foundedness of `<`), hence a set that holds 0
and with each number the next holds all (`Induction`). `RecursionHolds` shows that
a first value and a step define a function along `0..n`, `RecursionKeeps` that
what one value has and each step keeps, all have. The proofs below use these
facts with the set of indices at which their claim is true.

**JobProofs, the registry.** Assumptions: the jobs are finitely many, cap, TTL and
clock bound are naturals, the two null values are outside their types. The
properties of the run are not inductive alone. The inductive invariant is
`TypeOK /\ LiveInv /\ GoneInv /\ HeardInv`: a job with a working driver is
registered, says "running" and has no `finished_at`, so that neither pass of the
pruning can take it; a job that was created and is gone is over; and what an
agent has heard agrees with the job's status. From it follow `TypeCorrect`,
`LiveJobsAlwaysKept`, `UnknownMeansOver` and the action property
`NoAnswerTakenBack`; there the evicted set enters only by
`Evictions(K) \subseteq SUBSET Evictable(K)`. `AlwaysPrunedRightly` needs its size
too: `CapSizes` counts what one pass leaves, and `FreshHolds` that the new job is
one more.

**JobProofs, the answers.** Assumptions: tail, limit and bound are naturals, and
the tail is no longer than the limit. `SectionMeans` and `InExcerptMeans` say what the
two loops know after each line (by `Induction` on its number), which gives
`ValidateRight` and `BuildRight`: the line-by-line trimmers keep what the conditions
over the whole output say. `BuildRight` speaks of builds that run or that reported
an exit code; of the others section 3 tells. `PollsAdd` is about two answers at different times. It
needs `TrimInv`: what was last shown is kept by the trimming of the output as it
is now. That is so because more output and the end of the command only add
lines to what is kept, except that lines leave the tail of a failed build, which
is only known when no more can come; the cut to the last lines then takes a
shown line only for newer ones. `CutTold` counts: cleaning adds no line, so a cut
answer means more pieces than the limit.

**LogProofs, the filter.** Assumptions: contexts and the bound are naturals. The
filter decides line by line, and `KeptExactly` speaks of entries on both sides of a
match. The invariant (`FilterInvK`) relates the state to the whole input by the
*reach* `K`, the count of eligible entries up to which the last match's context
goes. `after` is what is left of it; `_before` holds the lines of the entries
beyond it, entry by entry, as many as the context asks for (`HeldIs`); the
decision for the current entry says on which side of it that entry is; and what
was returned is what the reference definition keeps of the input so far. The
lemmas on the input (`EntryGrows`, `LinesGrow`, `MatchKeeps`) say what one more
line adds to that definition: nothing but itself, or, if it matches, itself and
the entries it reaches back to, which are those held (`MatchLists`). From the
invariant follow `HeldEntryHolds` and `KeptIsExact`. For the separators the
invariant is joined by `GrepInv`: until a status line comes, the last line
returned is of the last entry within reach, and `discarded` says whether more
entries are beyond it than are held. So a separator is put just where the next
returned line's entry is no neighbour (`OutputAsGrep`); with `KeptIsExact` that
determines the output line for line.

**LogProofs, the capture.** Assumptions: limit and burst positive. The inductive
invariant is `TypeOK /\ PhaseInv /\ ReasonInv /\ CountInv`: which states of the
stream are possible in each phase of the caller, what each end reason says about
`full`, stop and stream, and how many lines are kept while the capture is not
full. It gives `Overshoot`, `FailuresSurface`, `ReturnsAfterStream`,
`ClosedComplete`, and, with the mapping of `LogCapture` (a wind-down is still
pending), `Refinement`: every behaviour is one of `BoundedCapture`. `LogJob` uses
`BoundedCapture` in its stead on this ground. `NothingIsLost` says the lines kept are
those of the raw lines up to the one that filled the capture. It needs that
their number is the sum of what was released (`LostInv`), which is what tells
whether the limit was reached before a raw line or at it.

**LogJobProofs.** Assumptions: limit and burst positive. The inductive invariant
is `TypeOK /\ LinesInv /\ TriedInv` with the two properties: what a job shows is
what the capture in progress kept, and a device's capture that failed had kept
nothing, so the dashboard starts from an empty job; and each phase is reached
only past the sources before it. It gives `AnswerIsWhatWasShown` and
`EverySourceTried`.

**BuildRunProofs.** Assumptions: the commands are known and the limits positive
or natural. None of the properties is inductive: three speak of the
dashboard's record, which they relate to nothing the client holds. The invariant
is `TypeOK` with one conjunct per phase (`ConnectInv`, `StreamInv`, `FallbackInv`,
`LegacyInv`): how many requests were made and which, that a second one means a
compile reported successful on a Device Builder, and that the exit code being
filled is the last that was reported. The fallback after such a compile can
request nothing because the Device Builder lacks the legacy `run`. It gives
`NoWorkTwice`, `CompiledBeforeFlash` and `SuccessReported`. `ShownIsReturned` adds
`ShownInv`: the lines of the compile and of the operation in progress, put
together, are those that were streamed, except on the way to the legacy client,
which starts from none; a call that gets an answer there had not streamed
anything before.

**ConfigFilesProofs.** Assumptions: the owner is no call, and a file that is
absent or torn is not a whole version. The invariant is
`TypeOK /\ NeverTorn /\ CallInv /\ ModeInv /\ OwnerInv`: in each phase what a call
holds and whether it has landed; that a call about to replace the file has the
permissions for it, also when another creates the file first; and that, while
there is no file or a creation is under way, nothing of the owner's is in anyone's
hands. It gives `AnswersAreTrue`, `Clean`, `PermissionsKept`, `OwnerSpared` and, with
`content` for the abstract file and `FailedCalls` for the calls that were refused,
`Refinement`: every behaviour, failures and crashes included, is one of
`AtomicFile`.

**SecretsProofs.** Assumption: the owner is no call. The invariant is
`TypeOK /\ FileInv /\ BrokenOnlyByCutLine /\ CallInv`: a call about to append
without a newline of its own finds the last line terminated, or something was
cut; what it decided about its key stays true of the lines that were there when it
began, since the text only grows, by pieces of calls that had not succeeded, and
what is glued stays so (`Grows`, `GrowsKeeps`). `OthersKeep` is this for the calls
that do not move. It gives `NothingGlued`, `LaterRefused` and `NothingRemoved`.

**IntegrationProofs, the connections.** Assumptions: the null values are outside
their types and the bound on changes is a natural. `RightAddon` is not inductive:
a call copies what another call cached. The invariant is
`TypeOK /\ CacheInv /\ CallInv`: a target is filed under its own add-on, and a
call holds in each phase a target of its slug and, behind the ingress, its own
user's session. One lemma per action (`SetKeeps`, `OpeningOK` and `LookUpKeeps` are
shared by them) gives `Invariant`, and from it follow `TypeCorrect`,
`AnswersFromRightAddon` and `AlwaysAsCaller`, for any number of calls, users and
add-ons and any order of their changes.

**IntegrationProofs, the entry.** Assumption: the absent value is no Boolean. The
invariant joins `EntryTypeOK` and `SingleEntry` with `ApiInv` (the API is registered
by the one loaded entry, whose unloading takes it along exactly when the release
gave a callback), `WishInv` (what the present entry stores is what was chosen
last), `ScheduledInv` (only a loaded entry's listener waits) and `LastChoiceInForce`
itself. It gives `OneEntry`, `ApiWithEntry` and `ChoiceInForce`. `FilesChosen` follows
the path that a name leads to, part by part: a name the guard accepts has no part
that moves up or starts anew, so by induction it leads to `ConfigDir` with the
name after it.

## 6. Only model-checked

* Liveness (`StopOrFullEnds`, `CallEnds`, `StopEndsJob`): the prover has no rules
  for `ENABLED` and fairness here.

All else that a passing run checks is proved. The runs remain the test that the
models move as intended: every action fires in them, and each property is shown
to fail for a mutant of the code. Whether a definition says what its source does
is a matter of reading; `PROJECT.json` maps each to its lines.

## 7. Abstractions and what is not modelled

* Text: cleaning and parsing of log lines, the patterns of `output.py`, error
  wording, YAML syntax, text encodings and line ends. What they decide stands as
  the kind or class of a line.
* Secrets: a key with a trailing newline, which `re.match` with `$` lets through;
  a value that begins like a comment and is put behind a value cut short; two
  pieces that are both cut and lie behind a value, which are taken for no YAML;
  two pieces that together make a third call's key; calls whose key fails
  the syntax check, which end at once.
* File system: directories, symbolic links, power loss. The code calls no
  `fsync`, so what a power cut leaves is up to the file system; `Crash` is the
  death of the process only.
* Wind-down of a capture: an error of the client library replaces the result
  (modelled for an aborted connect), and a cancellation of the caller during the
  wind-down is suppressed with the stream's own, as if it had not come.
* Frames the /ws client skips: other message ids, no text, no JSON.
* `get_config`, `write_config`, `get_json_config` and `version` of the dashboard
  client: single stateless requests no other code calls.
* Which entry `_match_device` finds, the filter's counts and notes in an answer,
  and the cancellation of a waiting log call.
* `esphome_list_addons`, which asks the Supervisor twice and may name a default
  that is not in its list.
* Schemas, tool names and descriptions: declarations.
* Set-up: an exception of Home Assistant's own during set-up or unloading.

## 8. Plan

1. Two abstract specifications that the proofs could relate the details to: the
   filter as a function of its input (what `KeptExactly` and `AsGrep` determine
   together), and the registry as a map of jobs that only move forward.
2. `OutputTrim` over the pieces `ws_client` cuts, for what `CutIsTold` leaves out.
3. The liveness of a tool call in `Connection`, under the fairness of the
   30-second limit of each request.
4. `esphome_list_addons` and the default it names, as a second reader of the
   Supervisor's list.
