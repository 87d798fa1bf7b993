----------------------------- MODULE TestRunner -----------------------------
(***************************************************************************)
(* Invocations of `maybe-dont test policies` over one suite and one state  *)
(* file (runner.go, state.go): an invocation loads the file, runs the CEL  *)
(* cases, then for every selected model the AI cases that have no valid    *)
(* cached result, recording and saving each result before the next test.   *)
(* It may be killed at any point.  Between invocations policies and test   *)
(* cases are edited.                                                       *)
(*                                                                         *)
(* A test case is its content hash, and the policies are a version number  *)
(* that stands for their hashes.  The order of cases and models is that of *)
(* the suite's files: here any order.  A result is passed or not passed:   *)
(* nothing here tells a failed one from an errored one.  Left out: run     *)
(* history, durations, the match rate and its threshold, and output        *)
(* formats; the rate limiter has a module of its own.                      *)
(***************************************************************************)
EXTENDS Naturals, FiniteSets, TLC

CONSTANTS AICases, BothCases,  \* test cases with engine "ai" and "both"
          Models,
          Versions,            \* versions of the policies
          MaxTests,            \* largest --max-tests (bound)
          MaxInvocations       \* bound

ASSUME SuiteAssumption ==
    /\ IsFiniteSet(AICases) /\ IsFiniteSet(BothCases) /\ AICases \cap BothCases = {}
    /\ IsFiniteSet(Models)
    /\ Versions \subseteq Nat \ {0} /\ Versions # {}
    /\ MaxTests \in Nat /\ MaxInvocations \in Nat

Cases == AICases \cup BothCases
Statuses == {"passed", "notPassed"}

VARIABLES
    version,      \* the policies as they are now
    suite,        \* the test cases there are now
    disk,         \* the state file
    invocations,  \* number of invocations so far
    pc, opts,     \* place in Run, options of the invocation
    mem, dirty,   \* StateManager
    trouble,      \* a file operation failed since the last complete save
    todo, model,  \* models still to run, the one running
    cached,       \* its cases skipped because of a cached result
    queue,        \* its cases still to run
    hitLimit,     \* the test that just ended met a rate limit
    total,        \* number of results reported
    cut,          \* --max-tests left a case out
    missing,      \* per model: cases without a valid result at the start
    limited,      \* models cut short by a rate limit or an unusable client
    exit

world == <<version, suite, disk>>
state == <<mem, dirty, trouble>>
report == <<total, cut, limited>>
section == <<todo, model, cached, queue, hitLimit>>
vars == <<world, invocations, pc, opts, state, section, report, missing, exit>>

\* under: the version a result was obtained with (RunAt stands for it).
NoResult == [status |-> "none", under |-> 0]
NoEntry == [hash |-> 0, models |-> [m \in Models |-> NoResult]]
Empty == [c \in Cases |-> NoEntry]

NoOptions == [mode |-> "none", retryFailed |-> FALSE, maxTests |-> 0, engine |-> "all",
              models |-> {}, selected |-> {}]

\* What the filters of an invocation may leave: any of the cases ...
filterTestCases == SUBSET Cases
\* ... and, of the models of the suite or the command line, any.
getModelsToTest == SUBSET Models

\* Options of runTestPolicies (--wait is the rate limiter's).  The ones that do
\* not matter in a mode are fixed.
Options ==
    {o \in [mode : {"none", "incremental", "full", "summary"},
            retryFailed : BOOLEAN,
            maxTests : 0 .. MaxTests,
            engine : {"all", "ai", "cel"},
            models : getModelsToTest,
            selected : filterTestCases] :
       /\ o.retryFailed => o.mode = "incremental"
       /\ o.mode = "summary" => o = [NoOptions EXCEPT !.mode = "summary"]
       /\ o.engine = "cel" => o.models = {}}

Init ==
    /\ version \in Versions /\ suite = Cases /\ disk = Empty
    /\ invocations = 0 /\ pc = "off" /\ opts = NoOptions
    /\ mem = Empty /\ dirty = FALSE /\ trouble = FALSE
    /\ todo = {} /\ model = "none" /\ cached = {} /\ queue = {} /\ hitLimit = FALSE
    /\ total = 0 /\ cut = FALSE /\ limited = {}
    /\ missing = [m \in Models |-> 0]
    /\ exit = "none"

\* The process is gone: only the file stays.
Gone ==
    /\ pc' = "off" /\ opts' = NoOptions
    /\ mem' = Empty
    /\ todo' = {} /\ model' = "none" /\ cached' = {} /\ queue' = {} /\ hitLimit' = FALSE
    /\ total' = 0 /\ cut' = FALSE /\ limited' = {}
    /\ missing' = [m \in Models |-> 0]
    /\ exit' = "none"

useState == opts.mode # "none"

\* shouldRunEngine and filterCasesForEngine: cases with engine "both" that the
\* CEL engine has processed are not given to the models.
celCases == IF opts.engine \in {"all", "cel"} THEN opts.selected \cap BothCases ELSE {}

\* Mutant: cases of both engines are given to the models as well.
aiCasesAll == IF opts.engine \in {"all", "ai"} THEN opts.selected ELSE {}

aiCases == IF opts.engine \in {"all", "ai"} THEN opts.selected \ celCases ELSE {}
-----------------------------------------------------------------------------
(* StateManager. *)

\* ShouldSkip: the hashes are those of the entry, shared by its models.
ShouldSkip(c, m, retryFailed) ==
    /\ mem[c].hash = version
    /\ mem[c].models[m] # NoResult
    /\ retryFailed => mem[c].models[m].status = "passed"

\* Mutant: the type of the error is recorded in place of the status.
RecordErrorType(c, m, s) ==
    /\ mem' = [mem EXCEPT ![c] =
                 [hash |-> version,
                  models |-> [@.models EXCEPT ![m] =
                    [status |-> IF hitLimit' THEN "rate_limited" ELSE s, under |-> version]]]]
    /\ dirty' = TRUE

\* RecordResult: the entry takes the current hashes, other models keep theirs.
RecordResult(c, m, s) ==
    /\ mem' = [mem EXCEPT ![c] =
                 [hash |-> version,
                  models |-> [@.models EXCEPT ![m] = [status |-> s, under |-> version]]]]
    /\ dirty' = TRUE

\* Mutant: the state is written when the run ends, not after each test.
SaveAtEnd ==
    IF pc = "close" THEN disk' = mem /\ dirty' = FALSE /\ trouble' = FALSE
    ELSE UNCHANGED <<disk, dirty, trouble>>

\* Save.  Opening, locking, writing, syncing or closing the temporary file can
\* fail and leave all as it was.  When the rename fails the target is removed
\* first and the rename tried again; when there is no target to remove, the
\* save is taken for done.
Save ==
    \/ ~dirty /\ UNCHANGED <<disk, dirty, trouble>>
    \/ dirty /\ disk' = mem /\ dirty' = FALSE /\ trouble' = FALSE
    \/ dirty /\ trouble' = TRUE /\ UNCHANGED <<disk, dirty>>
    \/ dirty /\ disk # Empty /\ disk' = Empty /\ trouble' = TRUE /\ UNCHANGED dirty
    \/ dirty /\ disk = Empty /\ dirty' = FALSE /\ trouble' = TRUE /\ UNCHANGED disk

\* Mutant: entries of cases that the filters left out are pruned too.
PruneFiltered ==
    /\ mem' = [c \in Cases |-> IF c \in suite \cap opts.selected THEN mem[c] ELSE NoEntry]
    /\ dirty' = (dirty \/ mem' # mem)

PruneStaleHashes ==
    /\ mem' = [c \in Cases |-> IF c \in suite THEN mem[c] ELSE NoEntry]
    /\ dirty' = (dirty \/ mem' # mem)
-----------------------------------------------------------------------------
(* Run. *)

\* The suite is loaded and checked; an error ends the invocation.
LoadFails ==
    /\ pc = "off" /\ invocations < MaxInvocations
    /\ invocations' = invocations + 1
    /\ UNCHANGED <<world, pc, opts, state, section, report, missing, exit>>

\* An entry is valid for a model when an incremental run would skip it.
Missing(m) == {c \in aiCases : ~ShouldSkip(c, m, FALSE)}

\* Options are checked and the state is loaded; without a state file it stays
\* in memory.
Invoke ==
    /\ pc = "off" /\ invocations < MaxInvocations
    /\ invocations' = invocations + 1
    /\ \E o \in Options :
          /\ o.selected \subseteq suite
          /\ opts' = o
          /\ mem' = IF o.mode = "none" THEN Empty ELSE disk
    /\ dirty' = FALSE /\ trouble' = FALSE
    /\ pc' = "loaded"
    /\ UNCHANGED <<world, section, report, missing, exit>>

\* runSummaryOnly reads the state and changes nothing.
Summary ==
    /\ pc = "loaded" /\ opts.mode = "summary"
    /\ exit' = "done" /\ pc' = "close"
    /\ UNCHANGED <<world, invocations, opts, state, section, report, missing>>

\* The CEL cases are run and not recorded.  Without a model all AI cases are
\* reported as skipped.
RunCEL ==
    /\ pc = "loaded" /\ opts.mode # "summary"
    /\ total' = Cardinality(celCases) + (IF opts.models = {} THEN Cardinality(aiCases) ELSE 0)
    /\ todo' = IF aiCases = {} THEN {} ELSE opts.models
    /\ missing' = [m \in Models |-> Cardinality(Missing(m))]
    /\ pc' = "model"
    /\ UNCHANGED <<world, invocations, opts, state, model, cached, queue, hitLimit, cut, limited,
                   exit>>

\* Mutant: the first maxTests cases are taken before cached ones are skipped.
TruncateFirst(cases, skip) ==
    IF opts.maxTests = 0 THEN {cases}
    ELSE {sel \ skip : sel \in {s \in SUBSET (cases \cup skip) :
            Cardinality(s) <= opts.maxTests
            /\ (Cardinality(s) < opts.maxTests => s = cases \cup skip)}}

\* The first maxTests of the cases to run.
Truncate(cases, skip) ==
    IF opts.maxTests = 0 \/ Cardinality(cases) <= opts.maxTests THEN {cases}
    ELSE {s \in SUBSET cases : Cardinality(s) = opts.maxTests}

\* The next model: its cached cases are reported, the others are queued.
StartModel(m) ==
    /\ pc = "model" /\ m \in todo
    /\ todo' = todo \ {m} /\ model' = m
    /\ LET skip == {c \in aiCases : useState /\ opts.mode # "full"
                                    /\ ShouldSkip(c, m, opts.retryFailed)}
           run == aiCases \ skip
       IN /\ cached' = skip
          /\ queue' \in Truncate(run, skip)
          /\ cut' = (cut \/ queue' # run)
          /\ total' = total + Cardinality(skip)
    /\ pc' = "test"
    /\ UNCHANGED <<world, invocations, opts, state, hitLimit, limited, missing, exit>>

\* NewAITestRunner fails: every case counts as errored, none is recorded.
NoRunner(m) ==
    /\ pc = "model" /\ m \in todo
    /\ todo' = todo \ {m}
    /\ total' = total + Cardinality(aiCases)
    /\ limited' = limited \cup {m}
    /\ UNCHANGED <<world, invocations, pc, opts, state, model, cached, queue, hitLimit, cut,
                   missing, exit>>

\* executeTest, with any outcome, and the first part of wrappedProgress: the
\* result is recorded.  A result that is due to a rate limit is errored.
RunTest(c) ==
    /\ pc = "test" /\ c \in queue
    /\ \E s \in Statuses, l \in BOOLEAN :
          /\ l => s = "notPassed"
          /\ hitLimit' = l
          /\ IF useState THEN RecordResult(c, model, s)
             ELSE UNCHANGED <<mem, dirty>>
    /\ queue' = queue \ {c}
    /\ total' = total + 1
    /\ pc' = "save"
    /\ UNCHANGED <<world, invocations, opts, trouble, todo, model, cached, cut, limited,
                   missing, exit>>

\* Second part: save and print.  After a limited test the remaining cases of
\* the model are reported as skipped, and not recorded.
SaveAndPrint ==
    /\ pc = "save"
    /\ Save
    /\ IF hitLimit
       THEN /\ total' = total + Cardinality(queue)
            /\ queue' = {}
            /\ limited' = limited \cup {model}
       ELSE UNCHANGED <<total, queue, limited>>
    /\ hitLimit' = FALSE
    /\ pc' = "test"
    /\ UNCHANGED <<version, suite, invocations, opts, mem, todo, model, cached, cut,
                   missing, exit>>

EndModel ==
    /\ pc = "test" /\ queue = {}
    /\ pc' = "model" /\ model' = "none" /\ cached' = {}
    /\ UNCHANGED <<world, invocations, opts, state, todo, queue, hitLimit, report, missing, exit>>

\* Mutant: whatever exceeds maxTests is taken to remain.
RemainingIgnoresCache ==
    IF opts.maxTests > 0 /\ Cardinality(opts.selected) > opts.maxTests
    THEN Cardinality(opts.selected) - opts.maxTests ELSE 0

\* The number of cases less the number of results, of all models.
Remaining ==
    IF opts.maxTests > 0 /\ Cardinality(opts.selected) > total
    THEN Cardinality(opts.selected) - total ELSE 0

\* calculateResults and the exit code; then stale entries are pruned.  When no
\* case is left after filtering, the streaming path has returned before this
\* with the same result.
Finish ==
    /\ pc = "model" /\ todo = {}
    /\ exit' = IF Remaining > 0 THEN "more" ELSE "done"
    /\ IF useState THEN PruneStaleHashes ELSE UNCHANGED <<mem, dirty>>
    /\ pc' = "close"
    /\ UNCHANGED <<world, invocations, opts, trouble, section, report, missing>>

\* outputResults fails: no pruning, Close still runs.
OutputFails ==
    /\ pc = "model" /\ todo = {}
    /\ exit' = "error"
    /\ pc' = "close"
    /\ UNCHANGED <<world, invocations, opts, state, section, report, missing>>

\* The deferred Close, and the end of the process.
Close ==
    /\ pc = "close"
    /\ Save
    /\ Gone
    /\ UNCHANGED <<version, suite, invocations>>

\* The process is killed.
Crash ==
    /\ pc # "off"
    /\ Gone
    /\ dirty' = FALSE /\ trouble' = FALSE
    /\ UNCHANGED <<world, invocations>>

EditPolicies ==
    /\ pc = "off"
    /\ version' \in Versions \ {version}
    /\ UNCHANGED <<suite, disk, invocations, pc, opts, state, section, report, missing, exit>>

EditCases ==
    /\ pc = "off"
    /\ suite' \in (SUBSET Cases) \ {suite, {}}
    /\ UNCHANGED <<version, disk, invocations, pc, opts, state, section, report, missing, exit>>
-----------------------------------------------------------------------------
Next ==
    \/ LoadFails \/ Invoke \/ Summary \/ RunCEL \/ SaveAndPrint \/ EndModel \/ Finish \/ OutputFails
    \/ Close \/ Crash \/ EditPolicies \/ EditCases
    \/ \E m \in Models : StartModel(m) \/ NoRunner(m)
    \/ \E c \in Cases : RunTest(c)

Spec == Init /\ [][Next]_vars

Symmetry == Permutations(Models)
-----------------------------------------------------------------------------
(* Properties. *)

Results == [status : Statuses \cup {"none"}, under : Versions \cup {0}]
StateFiles == [Cases -> [hash : Versions \cup {0}, models : [Models -> Results]]]

\* Every variable keeps its type.
TypeOK ==
    /\ version \in Versions /\ suite \in SUBSET Cases
    /\ disk \in StateFiles /\ mem \in StateFiles
    /\ dirty \in BOOLEAN /\ trouble \in BOOLEAN /\ hitLimit \in BOOLEAN /\ cut \in BOOLEAN
    /\ invocations \in 0 .. MaxInvocations
    /\ pc \in {"off", "loaded", "model", "test", "save", "close"}
    /\ opts \in Options
    /\ todo \in SUBSET Models /\ limited \in SUBSET Models
    /\ model \in Models \cup {"none"}
    /\ cached \in SUBSET Cases /\ queue \in SUBSET Cases
    /\ total \in Nat
    /\ missing \in [Models -> 0 .. Cardinality(Cases)]
    /\ exit \in {"none", "done", "more", "error"}

\* "Save state after each test": while the next test runs every earlier result
\* is in the file, so a killed run loses only the test it was running (unless
\* a file operation failed, of which the user is warned in all but one case:
\* a failed rename with no file in place).
CrashLosesOnlyRunningTest ==
    pc \in {"model", "test"} /\ useState /\ ~trouble => disk = mem

\* The result of a case that is still in the suite is never dropped from the
\* file, whatever the filters of the invocation, its models and its way to end,
\* except when the file itself could not be replaced.
NothingForgotten ==
    [][\A c \in suite, m \in Models :
         disk[c].models[m] # NoResult /\ disk'[c].models[m] = NoResult => trouble']_vars

\* Repeated incremental runs get through the suite: one that completes runs at
\* least maxTests of the cases that had no valid result, or all of them, for
\* every model it was not kept from using.  (With --retry-failed the same
\* failing case may be taken every time.)
IncrementalMakesProgress ==
    pc = "close" /\ opts.mode = "incremental" /\ ~opts.retryFailed =>
        \A m \in opts.models \ limited :
            LET now == Cardinality(Missing(m))
            IN now = 0 \/ (opts.maxTests > 0 /\ now + opts.maxTests <= missing[m])

\* When the engines cover the selected cases, exit code 5 is given only if
\* --max-tests left a case out, and for one model exactly then.  (For several
\* models it may not be given, because the results of all of them are taken
\* from the number of cases.)
MoreRemainIsHonest ==
    pc = "close" /\ exit \in {"done", "more"} /\ opts.mode # "summary"
      /\ celCases \cup aiCases = opts.selected
    => /\ exit = "more" => cut
       /\ Cardinality(opts.models) <= 1 /\ cut => exit = "more"

\* One result for every case and model: a case of both engines belongs to the
\* CEL engine unless that is not asked for.
ResultsDue ==
    LET both == Cardinality(opts.selected \cap BothCases)
        ai == Cardinality(opts.selected \ BothCases)
        times == IF opts.models = {} THEN 1 ELSE Cardinality(opts.models)
    IN CASE opts.engine = "all" -> both + ai * times
         [] opts.engine = "ai"  -> (both + ai) * times
         [] opts.engine = "cel" -> both

\* Whatever is cached, limited by the provider or not to be run at all, a run
\* that --max-tests did not cut reports exactly the results due, and never are
\* there more.
AllResultsReported ==
    /\ total <= ResultsDue
    /\ pc = "close" /\ ~cut => total = ResultsDue

\* A result is taken from the cache only if it was obtained with the current
\* policies: "All policy hashes match" (ShouldSkip).  It is not so: the hashes
\* are kept per case, and recording one model's result after a change makes
\* the other models' results, obtained before it, valid again.
CachedResultIsCurrent ==
    \A c \in cached : mem[c].models[model].under = version
=============================================================================
