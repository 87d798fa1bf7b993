-------------------------- MODULE TestRunnerProofs --------------------------
(***************************************************************************)
(* Theorems about TestRunner, for every suite, set of models, set of       *)
(* policy versions, --max-tests and number of invocations.                 *)
(*                                                                         *)
(* What an invocation reports when it ends was counted in steps between    *)
(* which the file is saved, the model changes and the provider may refuse. *)
(* The inductive invariant says at each of these steps how the reported    *)
(* results, those still queued and those left out add up to the cases of   *)
(* the models taken up so far (Reported), how many of a model's missing    *)
(* results will be left (Progressing), and how the file relates to the     *)
(* memory (FileFollows).                                                   *)
(***************************************************************************)
EXTENDS TestRunner, FiniteSetTheorems, TLAPS

\* The invocation has selected its cases and models.
Ran == pc \in {"model", "test", "save", "close"} /\ opts.mode # "summary"

\* Results reported and to be reported of the cases taken up so far.
Sum == total + Cardinality(queue)

\* What an invocation works on, and what it has not begun with.
Scope ==
    /\ todo \subseteq opts.models /\ opts.selected \subseteq suite
    /\ pc \in {"off", "loaded"} \/ opts.mode = "summary" =>
          todo = {} /\ total = 0 /\ ~cut
    /\ pc \in {"model", "test", "save"} => opts.mode # "summary"
    /\ pc \in {"test", "save"} => model \in Models
    /\ pc \notin {"test", "save"} => queue = {}
    /\ pc = "close" => todo = {}
    /\ pc = "off" => opts = NoOptions

\* Between tests the file and the memory agree, and a recorded result is
\* waiting to be saved.  The memory has every result the file has.
FileFollows ==
    /\ pc \in {"loaded", "model", "test"} /\ useState /\ ~trouble => disk = mem
    /\ pc = "save" /\ useState => dirty
    /\ pc # "off" /\ ~useState => ~dirty
    /\ pc # "off" /\ useState =>
          \A c \in suite, m \in Models :
             disk[c].models[m] # NoResult => mem[c].models[m] # NoResult

\* The results there would be by now if nothing was cut: every model taken up
\* adds the AI cases.
Due ==
    Cardinality(celCases)
    + Cardinality(aiCases)
      * (IF opts.models = {} THEN 1 ELSE Cardinality(opts.models) - Cardinality(todo))

\* What is reported or queued falls short of that exactly when --max-tests cut.
Reported ==
    /\ Ran => Sum <= Due /\ (cut <=> Sum < Due)
    /\ cut => opts.maxTests > 0

\* The cases without a valid result for the model when it is done with.
Left(m) == IF m = model THEN Missing(m) \ queue ELSE Missing(m)

\* An incremental run invalidates no result, and leaves for a model nothing
\* or as many cases less as it may run.
Progressing ==
    Ran /\ opts.mode = "incremental" /\ ~opts.retryFailed =>
        /\ \A m \in Models : Cardinality(Missing(m)) <= missing[m]
        /\ \A m \in opts.models \ (todo \cup limited) :
              \/ Left(m) = {}
              \/ /\ opts.maxTests > 0
                 /\ Cardinality(Left(m)) + opts.maxTests <= missing[m]

\* The inductive invariant.
IInv ==
    /\ TypeOK
    /\ Scope /\ FileFollows /\ Reported /\ Progressing
    /\ MoreRemainIsHonest
-----------------------------------------------------------------------------
(* Sets of cases, options and state files. *)

\* Cases and models can be counted.
LEMMA Counts ==
    /\ IsFiniteSet(Cases) /\ IsFiniteSet(Models)
    /\ \A S \in SUBSET Cases :
          /\ IsFiniteSet(S) /\ Cardinality(S) \in Nat
          /\ Cardinality(S) <= Cardinality(Cases)
    /\ \A S \in SUBSET Models : IsFiniteSet(S) /\ Cardinality(S) \in Nat
  <1>1. IsFiniteSet(Cases) /\ IsFiniteSet(Models)
    BY SuiteAssumption, FS_Union DEF Cases
  <1>2. \A S \in SUBSET Cases :
           IsFiniteSet(S) /\ Cardinality(S) \in Nat /\ Cardinality(S) <= Cardinality(Cases)
    BY <1>1, FS_Subset, FS_CardinalityType
  <1>3. \A S \in SUBSET Models : IsFiniteSet(S) /\ Cardinality(S) \in Nat
    BY <1>1, FS_Subset, FS_CardinalityType
  <1> QED
    BY <1>1, <1>2, <1>3

\* A larger set of cases counts more; the same number is the same set.
LEMMA Larger ==
    ASSUME NEW S \in SUBSET Cases, NEW T \in SUBSET S
    PROVE  /\ Cardinality(T) <= Cardinality(S)
           /\ Cardinality(T) = Cardinality(S) => T = S
  BY Counts, FS_Subset

\* What is split off a set of cases counts less.
LEMMA Apart ==
    ASSUME NEW S \in SUBSET Cases, NEW T \in SUBSET S
    PROVE  Cardinality(S \ T) = Cardinality(S) - Cardinality(T)
  <1>1. /\ IsFiniteSet(S) /\ IsFiniteSet(T) /\ IsFiniteSet(S \ T)
        /\ Cardinality(S) \in Nat /\ Cardinality(T) \in Nat /\ Cardinality(S \ T) \in Nat
    <2>1. T \in SUBSET Cases /\ S \ T \in SUBSET Cases
      OBVIOUS
    <2> QED
      BY <2>1, Counts
  <1>2. T \cup (S \ T) = S /\ T \cap (S \ T) = {}
    OBVIOUS
  <1>3. Cardinality(T \cup (S \ T))
          = Cardinality(T) + Cardinality(S \ T) - Cardinality(T \cap (S \ T))
    BY <1>1, FS_Union
  <1>4. Cardinality(S) = Cardinality(T) + Cardinality(S \ T) - Cardinality({})
    BY <1>2, <1>3
  <1> QED
    BY <1>1, <1>4, FS_EmptySet

\* What is known of any options.
LEMMA OptionsFields ==
    ASSUME NEW o \in Options
    PROVE  /\ o.mode \in {"none", "incremental", "full", "summary"}
           /\ o.retryFailed \in BOOLEAN
           /\ o.maxTests \in Nat
           /\ o.models \in SUBSET Models /\ o.selected \in SUBSET Cases
  <1>1. o \in [mode : {"none", "incremental", "full", "summary"},
            retryFailed : BOOLEAN, maxTests : 0 .. MaxTests, engine : {"all", "ai", "cel"},
            models : getModelsToTest, selected : filterTestCases]
    BY DEF Options
  <1>2. \A n \in 0 .. MaxTests : n \in Nat
    BY SuiteAssumption
  <1> QED
    BY <1>1, <1>2 DEF getModelsToTest, filterTestCases

\* No options are options.
LEMMA NoOptionsType == NoOptions \in Options
  <1>1. NoOptions \in [mode : {"none", "incremental", "full", "summary"},
            retryFailed : BOOLEAN, maxTests : 0 .. MaxTests, engine : {"all", "ai", "cel"},
            models : getModelsToTest, selected : filterTestCases]
    <2>1. 0 \in 0 .. MaxTests
      BY SuiteAssumption
    <2> QED
      BY <2>1 DEF NoOptions, getModelsToTest, filterTestCases
  <1> QED
    BY <1>1 DEF Options, NoOptions

\* The CEL engine and the models divide the cases that are run.
LEMMA EnginesDivide ==
    ASSUME opts \in Options
    PROVE  /\ celCases \in SUBSET opts.selected /\ aiCases \in SUBSET opts.selected
           /\ celCases \in SUBSET Cases /\ aiCases \in SUBSET Cases
           /\ celCases \cap aiCases = {}
           /\ Cardinality(celCases) \in Nat /\ Cardinality(aiCases) \in Nat
           /\ Cardinality(opts.selected) \in Nat
           /\ Cardinality(celCases) + Cardinality(aiCases) <= Cardinality(opts.selected)
           /\ celCases \cup aiCases = opts.selected =>
                Cardinality(celCases) + Cardinality(aiCases) = Cardinality(opts.selected)
  <1>1. opts.selected \in SUBSET Cases
    BY OptionsFields
  <1>2. /\ celCases \in SUBSET opts.selected /\ aiCases \in SUBSET opts.selected
        /\ celCases \cap aiCases = {}
    BY Zenon DEF celCases, aiCases
  <1>3. /\ IsFiniteSet(celCases) /\ IsFiniteSet(aiCases)
        /\ Cardinality(celCases) \in Nat /\ Cardinality(aiCases) \in Nat
        /\ Cardinality(opts.selected) \in Nat
    <2>1. celCases \in SUBSET Cases /\ aiCases \in SUBSET Cases
      BY <1>1, <1>2
    <2> QED
      BY <1>1, <2>1, Counts
  <1>4. Cardinality(celCases \cup aiCases) = Cardinality(celCases) + Cardinality(aiCases)
    <2>1. Cardinality(celCases \cup aiCases)
            = Cardinality(celCases) + Cardinality(aiCases) - Cardinality(celCases \cap aiCases)
      BY <1>3, FS_Union
    <2> QED
      BY <1>2, <1>3, <2>1, FS_EmptySet
  <1>5. Cardinality(celCases \cup aiCases) <= Cardinality(opts.selected)
    BY <1>1, <1>2, Larger
  <1> QED
    BY <1>1, <1>2, <1>3, <1>4, <1>5

\* Without another choice of options the engines keep their cases.
LEMMA SameCases ==
    ASSUME opts' = opts
    PROVE  celCases' = celCases /\ aiCases' = aiCases /\ useState' = useState
  BY DEF celCases, aiCases, useState

\* ... and with the memory and the policies, a model its missing results.
LEMMA SameMissing ==
    ASSUME opts' = opts, version' = version, mem' = mem
    PROVE  \A m : Missing(m)' = Missing(m)
  BY SameCases DEF Missing, ShouldSkip

\* What is missing are AI cases.
LEMMA MissingCases ==
    ASSUME opts \in Options
    PROVE  \A m : /\ Missing(m) \in SUBSET aiCases /\ Missing(m) \in SUBSET Cases
                  /\ IsFiniteSet(Missing(m)) /\ Cardinality(Missing(m)) \in Nat
                  /\ Cardinality(Missing(m)) \in 0 .. Cardinality(Cases)
  <1>1. \A m : Missing(m) \in SUBSET aiCases
    BY DEF Missing
  <1>2. aiCases \in SUBSET Cases
    BY EnginesDivide
  <1>3. \A m : Missing(m) \in SUBSET Cases
    BY <1>1, <1>2
  <1>4. Cardinality(Cases) \in Nat
    BY Counts, FS_CardinalityType
  <1> QED
    BY <1>1, <1>3, <1>4, Counts

\* A file without a result is a file.
LEMMA EmptyType == Empty \in StateFiles
  <1>1. NoResult \in Results
    BY DEF NoResult, Results
  <1> QED
    BY <1>1 DEF Empty, NoEntry, StateFiles

\* Pruning keeps the type, and the entries of the suite.
LEMMA Pruned ==
    ASSUME mem \in StateFiles, dirty \in BOOLEAN, PruneStaleHashes
    PROVE  mem' \in StateFiles /\ dirty' \in BOOLEAN /\ \A c \in suite \cap Cases : mem'[c] = mem[c]
  <1>1. NoEntry \in [hash : Versions \cup {0}, models : [Models -> Results]]
    <2>1. NoResult \in Results
      BY DEF NoResult, Results
    <2> QED
      BY <2>1 DEF NoEntry
  <1>2. mem' \in StateFiles
    BY <1>1 DEF PruneStaleHashes, StateFiles
  <1> QED
    BY <1>2 DEF PruneStaleHashes

\* Recording a result changes it, and the hashes of its case.
LEMMA Recorded ==
    ASSUME mem \in StateFiles, version \in Versions,
           NEW c \in Cases, NEW m \in Models, NEW s \in Statuses, RecordResult(c, m, s)
    PROVE  /\ mem' \in StateFiles /\ dirty' = TRUE
           /\ \A d \in Cases \ {c} : mem'[d] = mem[d]
           /\ mem'[c].hash = version
           /\ mem'[c].models[m] # NoResult
           /\ \A j \in Models \ {m} : mem'[c].models[j] = mem[c].models[j]
  <1> DEFINE res == [status |-> s, under |-> version]
             ent == [hash |-> version, models |-> [mem[c].models EXCEPT ![m] = res]]
  <1>1. res \in Results /\ res # NoResult
    BY DEF Results, NoResult, Statuses
  <1>2. mem[c] \in [hash : Versions \cup {0}, models : [Models -> Results]]
    BY DEF StateFiles
  <1>3. [mem[c].models EXCEPT ![m] = res] \in [Models -> Results]
    BY <1>1, <1>2
  <1>4. ent \in [hash : Versions \cup {0}, models : [Models -> Results]]
    BY <1>3
  <1>5. mem' = [mem EXCEPT ![c] = ent]
    BY DEF RecordResult
  <1>6. mem' \in StateFiles
    BY <1>4, <1>5 DEF StateFiles
  <1>7. mem'[c] = ent /\ \A d \in Cases \ {c} : mem'[d] = mem[d]
    BY <1>5 DEF StateFiles
  <1>8. /\ ent.hash = version /\ ent.models[m] = res
        /\ \A j \in Models \ {m} : ent.models[j] = mem[c].models[j]
    BY <1>2
  <1> QED
    BY <1>1, <1>6, <1>7, <1>8 DEF RecordResult

\* A recorded result is not missing any more, and no other result becomes
\* invalid by it: the hashes of its case are now current.
LEMMA NothingInvalidated ==
    ASSUME mem \in StateFiles, version \in Versions, opts \in Options,
           NEW c \in Cases, NEW m \in Models, NEW s \in Statuses, RecordResult(c, m, s),
           opts' = opts, version' = version
    PROVE  /\ \A j \in Models : Missing(j)' \in SUBSET Missing(j)
           /\ c \notin Missing(m)'
  <1>1. aiCases' = aiCases /\ aiCases \in SUBSET Cases
    BY SameCases, EnginesDivide
  <1>2. ASSUME NEW j \in Models, NEW d \in Cases, ShouldSkip(d, j, FALSE)
        PROVE  ShouldSkip(d, j, FALSE)'
    <2>1. CASE d # c
      BY <1>2, <2>1, Recorded DEF ShouldSkip
    <2>2. CASE d = c /\ j # m
      BY <1>2, <2>2, Recorded DEF ShouldSkip
    <2>3. CASE d = c /\ j = m
      BY <1>2, <2>3, Recorded DEF ShouldSkip
    <2> QED
      BY <2>1, <2>2, <2>3
  <1>3. ShouldSkip(c, m, FALSE)'
    BY Recorded DEF ShouldSkip
  <1> QED
    BY <1>1, <1>2, <1>3 DEF Missing
-----------------------------------------------------------------------------
(* Counting. *)

\* The sums of the invariants are numbers.
LEMMA Numbers ==
    ASSUME TypeOK, Scope
    PROVE  /\ total \in Nat /\ Cardinality(queue) \in Nat /\ Sum \in Nat
           /\ Cardinality(opts.models) \in Nat /\ Cardinality(todo) \in Nat
           /\ IsFiniteSet(opts.models) /\ IsFiniteSet(todo) /\ IsFiniteSet(queue)
           /\ Cardinality(todo) <= Cardinality(opts.models)
           /\ opts.maxTests \in Nat
           /\ \A m \in Models : missing[m] \in Nat
           /\ queue = {} => Sum = total
  <1>1. opts \in Options /\ queue \in SUBSET Cases /\ todo \in SUBSET Models /\ total \in Nat
    BY DEF TypeOK
  <1>2. /\ opts.models \in SUBSET Models /\ opts.maxTests \in Nat
    BY <1>1, OptionsFields
  <1>3. /\ IsFiniteSet(queue) /\ Cardinality(queue) \in Nat
        /\ IsFiniteSet(todo) /\ Cardinality(todo) \in Nat
        /\ IsFiniteSet(opts.models) /\ Cardinality(opts.models) \in Nat
    BY <1>1, <1>2, Counts
  <1>4. Cardinality(todo) <= Cardinality(opts.models)
    BY <1>3, FS_Subset DEF Scope
  <1>5. \A m \in Models : missing[m] \in Nat
    <2>1. Cardinality(Cases) \in Nat
      BY Counts, FS_CardinalityType
    <2> QED
      BY <2>1 DEF TypeOK
  <1>6. queue = {} => Sum = total
    BY <1>1, FS_EmptySet DEF Sum
  <1> QED
    BY <1>1, <1>2, <1>3, <1>4, <1>5, <1>6 DEF Sum

\* A model fewer to run is one more among those taken up.
LEMMA OneModelLess ==
    ASSUME TypeOK, Scope, NEW m \in todo
    PROVE  /\ Cardinality(todo \ {m}) = Cardinality(todo) - 1
           /\ Cardinality(todo) > 0
           /\ opts.models # {}
  <1>1. IsFiniteSet(todo) /\ IsFiniteSet(opts.models) /\ m \in opts.models
        /\ Cardinality(todo) \in Nat /\ Cardinality(opts.models) \in Nat
    BY Numbers DEF Scope
  <1>2. Cardinality(todo \ {m}) = Cardinality(todo) - 1
    BY <1>1, FS_RemoveElement
  <1>3. Cardinality(todo) # 0
    BY <1>1, FS_EmptySet
  <1> QED
    BY <1>1, <1>2, <1>3

\* Another model, another number of AI cases.
LEMMA Times ==
    ASSUME NEW a \in Nat, NEW k \in Nat, NEW t \in Nat, t > 0, t <= k
    PROVE  /\ a * (k - (t - 1)) = a * (k - t) + a
           /\ a * (k - t) \in Nat
  OBVIOUS

\* What is due grows by the AI cases when a model is taken up.
LEMMA DueGrows ==
    ASSUME TypeOK, Scope, NEW m \in todo, opts' = opts, todo' = todo \ {m}
    PROVE  Due \in Nat /\ Due' = Due + Cardinality(aiCases) /\ Cardinality(aiCases) \in Nat
  <1> DEFINE d == Cardinality(celCases)
             a == Cardinality(aiCases)
             k == Cardinality(opts.models)
             t == Cardinality(todo)
  <1>1. opts \in Options
    BY DEF TypeOK
  <1>2. d \in Nat /\ a \in Nat /\ k \in Nat /\ t \in Nat /\ t <= k
    BY <1>1, EnginesDivide, Numbers
  <1>3. Cardinality(todo') = t - 1 /\ t > 0 /\ opts.models # {}
    BY OneModelLess
  <1>4. celCases' = celCases /\ aiCases' = aiCases
    BY SameCases
  <1>5. Due = d + a * (k - t) /\ Due' = d + a * (k - (t - 1))
    BY <1>3, <1>4 DEF Due
  <1> HIDE DEF d, a, k, t
  <1>6. a * (k - (t - 1)) = a * (k - t) + a /\ a * (k - t) \in Nat
    BY <1>2, <1>3, Times
  <1> DEFINE x == a * (k - t)
             y == a * (k - (t - 1))
  <1>7. x \in Nat /\ y = x + a /\ Due = d + x /\ Due' = d + y
    BY <1>5, <1>6
  <1> HIDE DEF x, y
  <1>8. Due \in Nat /\ Due' = Due + a
    BY <1>2, <1>7
  <1> QED
    BY <1>2, <1>8 DEF a
-----------------------------------------------------------------------------
(* The steps.  A step that keeps what an invocation has selected, counted   *)
(* and recorded keeps what is said of it.                                   *)

\* What is said of the counts, while they and the options stay.
LEMMA SameCounts ==
    ASSUME Reported, opts' = opts, Sum' = Sum, todo' = todo, cut' = cut, Ran' => Ran
    PROVE  Reported'
  <1>1. celCases' = celCases /\ aiCases' = aiCases
    BY SameCases
  <1>2. Due' = Due
    BY <1>1 DEF Due
  <1> QED
    BY <1>2 DEF Reported

\* What is said of the missing results, while memory and options stay, the
\* queue of the model stays or is let go when it is empty, and no model is
\* taken for done.
LEMMA SameProgress ==
    ASSUME Progressing, opts' = opts, version' = version,
           \A m : Missing(m)' = Missing(m),
           missing' = missing, todo' = todo, limited \subseteq limited',
           Ran' => Ran,
           \/ queue' = queue /\ (model' = model \/ queue = {})
           \/ model' = model /\ model \in limited'
    PROVE  Progressing'
  <1>1. \A m \in opts.models \ (todo' \cup limited') : Left(m)' = Left(m)
    BY DEF Left
  <1> QED
    BY <1>1 DEF Progressing

\* Nothing is said of an invocation that has not run anything.
LEMMA NotRan ==
    ASSUME ~Ran', cut' = FALSE, pc' # "close" \/ opts.mode' = "summary"
    PROVE  Reported' /\ Progressing' /\ MoreRemainIsHonest'
  BY DEF Reported, Progressing, MoreRemainIsHonest
-----------------------------------------------------------------------------
\* Between invocations the suite, the policies or nothing changes.
LEMMA IdleStep ==
    ASSUME IInv, LoadFails \/ EditPolicies \/ EditCases
    PROVE  IInv'
  <1>1. TypeOK'
    <2>1. CASE LoadFails
      BY <2>1, SuiteAssumption DEF IInv, TypeOK, LoadFails, world, state, section, report
    <2>2. CASE EditPolicies
      BY <2>2 DEF IInv, TypeOK, EditPolicies, state, section, report
    <2>3. CASE EditCases
      BY <2>3 DEF IInv, TypeOK, EditCases, state, section, report
    <2> QED
      BY <2>1, <2>2, <2>3
  <1>2. /\ pc' = "off" /\ opts' = NoOptions /\ todo' = {} /\ total' = 0 /\ cut' = FALSE
        /\ queue' = {}
    BY DEF IInv, TypeOK, Scope, LoadFails, EditPolicies, EditCases, section, report, NoOptions
  <1>3. Scope'
    BY <1>2 DEF Scope, NoOptions
  <1>4. FileFollows'
    BY <1>2 DEF FileFollows
  <1>5. Reported' /\ Progressing' /\ MoreRemainIsHonest'
    <2>1. ~Ran'
      BY <1>2 DEF Ran
    <2> QED
      BY <1>2, <2>1, NotRan
  <1> QED
    BY <1>1, <1>3, <1>4, <1>5 DEF IInv

\* The type of the state file after an attempt to save.
LEMMA SaveType ==
    ASSUME TypeOK, Save
    PROVE  disk' \in StateFiles /\ dirty' \in BOOLEAN /\ trouble' \in BOOLEAN
  BY EmptyType DEF TypeOK, Save

\* The process ends, by itself or not.
LEMMA GoneStep ==
    ASSUME IInv, Close \/ Crash
    PROVE  IInv'
  <1>1. TypeOK'
    <2>1. Gone /\ version' = version /\ suite' = suite /\ invocations' = invocations
      BY DEF Close, Crash, world
    <2>2. disk' \in StateFiles /\ dirty' \in BOOLEAN /\ trouble' \in BOOLEAN
      <3>1. CASE Close
        BY <3>1, SaveType DEF IInv, Close
      <3>2. CASE Crash
        BY <3>2 DEF IInv, TypeOK, Crash, world
      <3> QED
        BY <3>1, <3>2
    <2>3. missing' \in [Models -> 0 .. Cardinality(Cases)]
      <3>1. Cardinality(Cases) \in Nat
        BY Counts, FS_CardinalityType
      <3> QED
        BY <2>1, <3>1 DEF Gone
    <2>4. opts' \in Options /\ mem' \in StateFiles
      BY <2>1, NoOptionsType, EmptyType DEF Gone
    <2> QED
      BY <2>1, <2>2, <2>3, <2>4 DEF IInv, TypeOK, Gone
  <1>2. /\ pc' = "off" /\ opts' = NoOptions /\ todo' = {} /\ total' = 0 /\ cut' = FALSE
        /\ queue' = {}
    BY DEF Close, Crash, Gone
  <1>3. Scope'
    BY <1>2 DEF Scope, NoOptions
  <1>4. FileFollows'
    BY <1>2 DEF FileFollows
  <1>5. Reported' /\ Progressing' /\ MoreRemainIsHonest'
    <2>1. ~Ran'
      BY <1>2 DEF Ran
    <2> QED
      BY <1>2, <2>1, NotRan
  <1> QED
    BY <1>1, <1>3, <1>4, <1>5 DEF IInv

\* An invocation loads the state file.
LEMMA InvokeStep ==
    ASSUME IInv, Invoke
    PROVE  IInv'
  <1> USE DEF IInv
  <1>1. PICK o \in Options :
           /\ o.selected \subseteq suite /\ opts' = o
           /\ mem' = IF o.mode = "none" THEN Empty ELSE disk
    BY DEF Invoke
  <1>2. /\ invocations' \in 0 .. MaxInvocations
        /\ dirty' = FALSE /\ trouble' = FALSE /\ pc' = "loaded"
        /\ version' = version /\ suite' = suite /\ disk' = disk
        /\ todo' = todo /\ model' = model /\ cached' = cached /\ queue' = queue
        /\ hitLimit' = hitLimit /\ total' = total /\ cut' = cut /\ limited' = limited
        /\ missing' = missing /\ exit' = exit
    BY SuiteAssumption DEF TypeOK, Invoke, world, section, report
  <1>3. TypeOK'
    BY <1>1, <1>2, EmptyType DEF TypeOK
  <1>4. pc = "off" /\ todo = {} /\ total = 0 /\ cut = FALSE /\ queue = {}
    BY DEF Invoke, Scope, TypeOK
  <1>5. Scope'
    BY <1>1, <1>2, <1>4 DEF Scope
  <1>6. FileFollows'
    BY <1>1, <1>2 DEF FileFollows, useState
  <1>7. Reported' /\ Progressing' /\ MoreRemainIsHonest'
    <2>1. ~Ran'
      BY <1>2 DEF Ran
    <2> QED
      BY <1>2, <1>4, <2>1, NotRan
  <1> QED
    BY <1>3, <1>5, <1>6, <1>7

\* A summary is printed.
LEMMA SummaryStep ==
    ASSUME IInv, Summary
    PROVE  IInv'
  <1> USE DEF IInv
  <1>1. TypeOK'
    BY DEF TypeOK, Summary, world, state, section, report
  <1>2. /\ pc = "loaded" /\ pc' = "close" /\ opts.mode = "summary"
        /\ opts' = opts /\ suite' = suite /\ todo' = todo /\ total' = total /\ cut' = cut
        /\ queue' = queue /\ mem' = mem /\ disk' = disk /\ dirty' = dirty
    BY DEF Summary, world, state, section, report
  <1>3. Scope'
    BY <1>2 DEF Scope
  <1>4. FileFollows'
    BY <1>2, SameCases DEF FileFollows
  <1>5. Reported' /\ Progressing' /\ MoreRemainIsHonest'
    <2>1. ~Ran'
      BY <1>2 DEF Ran
    <2>2. cut' = FALSE
      BY <1>2 DEF Scope, TypeOK
    <2> QED
      BY <1>2, <2>1, <2>2, NotRan
  <1> QED
    BY <1>1, <1>3, <1>4, <1>5

\* The CEL cases are run, and the models are known.
LEMMA RunCELStep ==
    ASSUME IInv, RunCEL
    PROVE  IInv'
  <1> USE DEF IInv
  <1>1. /\ pc = "loaded" /\ pc' = "model" /\ opts.mode # "summary"
        /\ total' = Cardinality(celCases)
                    + (IF opts.models = {} THEN Cardinality(aiCases) ELSE 0)
        /\ todo' = IF aiCases = {} THEN {} ELSE opts.models
        /\ missing' = [m \in Models |-> Cardinality(Missing(m))]
        /\ version' = version /\ suite' = suite /\ disk' = disk /\ invocations' = invocations
        /\ opts' = opts /\ mem' = mem /\ dirty' = dirty /\ trouble' = trouble
        /\ model' = model /\ cached' = cached /\ queue' = queue /\ hitLimit' = hitLimit
        /\ cut' = cut /\ limited' = limited /\ exit' = exit
    BY DEF RunCEL, world, state
  <1>2. opts \in Options /\ opts.models \in SUBSET Models
    BY OptionsFields DEF TypeOK
  <1>3. Cardinality(celCases) \in Nat /\ Cardinality(aiCases) \in Nat
    BY <1>2, EnginesDivide
  <1>4. TypeOK'
    <2>1. total' \in Nat /\ todo' \in SUBSET Models
      BY <1>1, <1>2, <1>3
    <2>2. missing' \in [Models -> 0 .. Cardinality(Cases)]
      BY <1>1, <1>2, MissingCases
    <2> QED
      BY <1>1, <2>1, <2>2 DEF TypeOK
  <1>5. pc' = "model" /\ cut' = FALSE /\ queue' = {}
    BY <1>1 DEF Scope, TypeOK
  <1>6. Scope'
    BY <1>1, <1>5 DEF Scope
  <1>7. FileFollows'
    BY <1>1, SameCases DEF FileFollows
  <1>8. celCases' = celCases /\ aiCases' = aiCases /\ \A m : Missing(m)' = Missing(m)
    BY <1>1, SameCases, SameMissing
  <1>9. Sum' = total'
    BY <1>1, <1>3, <1>5, FS_EmptySet DEF Sum
  <1>10. Cardinality(opts.models) \in Nat /\ Cardinality({}) = 0
         /\ (aiCases = {} => Cardinality(aiCases) = 0)
    BY <1>2, Counts, FS_EmptySet
  <1>11. Sum' = Due' /\ Sum' \in Nat
    <2>1. CASE opts.models = {}
      BY <1>1, <1>3, <1>8, <1>9, <2>1 DEF Due
    <2>2. CASE opts.models # {} /\ aiCases = {}
      <3>1. Sum' = Cardinality(celCases) /\ Cardinality(aiCases) = 0
        BY <1>1, <1>3, <1>9, <1>10, <2>2
      <3> QED
        BY <1>1, <1>3, <1>8, <1>10, <2>2, <3>1 DEF Due
    <2>3. CASE opts.models # {} /\ aiCases # {}
      <3>1. Sum' = Cardinality(celCases) /\ todo' = opts.models
        BY <1>1, <1>3, <1>9, <2>3
      <3> QED
        BY <1>1, <1>3, <1>8, <1>10, <2>3, <3>1 DEF Due
    <2> QED
      BY <2>1, <2>2, <2>3
  <1>12. Reported'
    BY <1>5, <1>11 DEF Reported
  <1>13. Progressing'
    <2>1. \A m \in Models : Cardinality(Missing(m)) <= missing'[m]
      BY <1>1, <1>2, MissingCases
    <2>2. \A m \in opts.models \ (todo' \cup limited') : Left(m)' = {}
      BY <1>1, <1>5, <1>8 DEF Left, Missing
    <2> QED
      BY <1>1, <1>8, <2>1, <2>2 DEF Progressing
  <1>14. MoreRemainIsHonest'
    BY <1>1 DEF MoreRemainIsHonest
  <1> QED
    BY <1>4, <1>6, <1>7, <1>12, <1>13, <1>14

\* What is cut off leaves the maximum.
LEMMA Truncated ==
    ASSUME TypeOK, NEW S \in SUBSET Cases, NEW skip, NEW q \in Truncate(S, skip)
    PROVE  /\ q \in SUBSET S
           /\ \/ q = S
              \/ opts.maxTests > 0 /\ Cardinality(q) = opts.maxTests
  <1>1. opts.maxTests \in Nat
    BY OptionsFields DEF TypeOK
  <1> QED
    BY <1>1 DEF Truncate

\* The next model is taken up.
LEMMA StartModelStep ==
    ASSUME IInv, NEW m \in Models, StartModel(m)
    PROVE  IInv'
  <1> USE DEF IInv
  <1> DEFINE skip == {c \in aiCases : useState /\ opts.mode # "full"
                                      /\ ShouldSkip(c, m, opts.retryFailed)}
             run == aiCases \ skip
             a == Cardinality(aiCases)
  <1>1. /\ pc = "model" /\ m \in todo /\ pc' = "test"
        /\ todo' = todo \ {m} /\ model' = m
        /\ cached' = skip /\ queue' \in Truncate(run, skip)
        /\ cut' = (cut \/ queue' # run)
        /\ total' = total + Cardinality(skip)
        /\ version' = version /\ suite' = suite /\ disk' = disk /\ invocations' = invocations
        /\ opts' = opts /\ mem' = mem /\ dirty' = dirty /\ trouble' = trouble
        /\ hitLimit' = hitLimit /\ limited' = limited /\ missing' = missing /\ exit' = exit
    BY DEF StartModel, world, state
  <1>2. opts \in Options
    BY DEF TypeOK
  <1>3. aiCases \in SUBSET Cases /\ a \in Nat
    BY <1>2, EnginesDivide
  <1>4. skip \in SUBSET aiCases
    OBVIOUS
  <1>5. run \in SUBSET Cases /\ skip \in SUBSET Cases
    BY <1>3
  <1> HIDE DEF skip, run
  <1>6. queue' \in SUBSET run
    BY <1>1, <1>5, Truncated
  <1>7. queue' \in SUBSET Cases
    BY <1>5, <1>6
  <1>8. /\ Cardinality(skip) \in Nat /\ Cardinality(run) \in Nat /\ Cardinality(queue') \in Nat
        /\ Cardinality(skip) + Cardinality(run) = a
    <2>1. Cardinality(skip) \in Nat /\ Cardinality(run) \in Nat /\ Cardinality(queue') \in Nat
      BY <1>5, <1>7, Counts
    <2>2. Cardinality(run) = a - Cardinality(skip)
      BY <1>3, <1>4, Apart DEF run
    <2> QED
      BY <1>3, <2>1, <2>2
  <1>9. /\ Cardinality(queue') <= Cardinality(run)
        /\ Cardinality(queue') = Cardinality(run) => queue' = run
    BY <1>5, <1>6, Larger
  <1>10. /\ queue = {} /\ Sum = total /\ total \in Nat /\ opts.maxTests \in Nat
    BY <1>1, Numbers DEF Scope
  <1>11. /\ celCases' = celCases /\ aiCases' = aiCases /\ useState' = useState
         /\ \A j : Missing(j)' = Missing(j)
    BY <1>1, SameCases, SameMissing
  <1>12. Sum' = Sum + Cardinality(skip) + Cardinality(queue')
    BY <1>1, <1>8, <1>10 DEF Sum
  <1>13. Ran /\ Ran'
    BY <1>1 DEF Ran, Scope
  <1>14. TypeOK'
    <2>1. todo' \in SUBSET Models /\ cut' \in BOOLEAN /\ total' \in Nat
      BY <1>1, <1>8, <1>10 DEF TypeOK
    <2> QED
      BY <1>1, <1>5, <1>7, <2>1 DEF TypeOK
  <1>15. Scope'
    BY <1>1 DEF Scope
  <1>16. FileFollows'
    BY <1>1, <1>11 DEF FileFollows
  <1>17. Reported'
    <2>1. Due \in Nat /\ Due' = Due + a
      BY <1>1, DueGrows
    <2>2. Sum <= Due /\ (cut <=> Sum < Due) /\ cut \in BOOLEAN /\ Sum \in Nat
      BY <1>10, <1>13 DEF Reported, TypeOK
    <2> HIDE DEF a
    <2>3. Sum' <= Due'
      BY <1>3, <1>8, <1>9, <1>12, <2>1, <2>2
    <2>4. cut' <=> Sum < Due \/ Cardinality(queue') < Cardinality(run)
      <3>1. queue' # run <=> Cardinality(queue') < Cardinality(run)
        BY <1>8, <1>9
      <3>2. cut' <=> cut \/ queue' # run
        BY <1>1, Zenon
      <3> QED
        BY <2>2, <3>1, <3>2, Zenon
    <2>5. cut' <=> Sum' < Due'
      <3>1. Sum' < Due' <=> Sum < Due \/ Cardinality(queue') < Cardinality(run)
        BY <1>3, <1>8, <1>9, <1>12, <2>1, <2>2
      <3> QED
        BY <2>4, <3>1
    <2>6. cut' => opts.maxTests > 0
      <3>1. CASE cut
        BY <3>1 DEF Reported
      <3>2. CASE queue' # run
        BY <1>1, <1>5, <3>2, Truncated
      <3>3. CASE ~cut /\ queue' = run
        BY <1>1, <3>3
      <3> QED
        BY <3>1, <3>2, <3>3
    <2> QED
      BY <1>1, <2>3, <2>5, <2>6 DEF Reported
  <1>18. Progressing'
    <2> SUFFICES ASSUME opts.mode = "incremental", ~opts.retryFailed
                 PROVE  /\ \A j \in Models : Cardinality(Missing(j)') <= missing'[j]
                        /\ \A j \in opts.models \ (todo' \cup limited') :
                              \/ Left(j)' = {}
                              \/ /\ opts.maxTests > 0
                                 /\ Cardinality(Left(j)') + opts.maxTests <= missing'[j]
      BY <1>1 DEF Progressing
    <2>1. \A j \in Models : Cardinality(Missing(j)) <= missing[j]
      BY <1>13 DEF Progressing
    <2>2. run = Missing(m)
      <3>1. opts.retryFailed = FALSE
        BY <1>2, OptionsFields
      <3> QED
        BY <3>1 DEF run, skip, Missing, useState
    <2>3. Left(m)' = run \ queue'
      BY <1>1, <1>11, <2>2 DEF Left
    <2>4. \/ Left(m)' = {}
          \/ /\ opts.maxTests > 0
             /\ Cardinality(Left(m)') + opts.maxTests <= missing'[m]
      <3>1. CASE queue' = run
        BY <2>3, <3>1
      <3>2. CASE queue' # run
        <4>1. opts.maxTests > 0 /\ Cardinality(queue') = opts.maxTests
          BY <1>1, <1>5, <3>2, Truncated
        <4>2. Cardinality(Left(m)') = Cardinality(run) - opts.maxTests
          BY <1>5, <1>6, <2>3, <4>1, Apart
        <4>3. Cardinality(run) <= missing[m]
          BY <2>1, <2>2
        <4>4. missing[m] \in Nat
          BY Numbers
        <4> QED
          BY <1>1, <1>8, <1>10, <4>1, <4>2, <4>3, <4>4
      <3> QED
        BY <3>1, <3>2
    <2>5. ASSUME NEW j \in opts.models \ (todo' \cup limited'), j # m
          PROVE  \/ Left(j)' = {}
                 \/ /\ opts.maxTests > 0
                    /\ Cardinality(Left(j)') + opts.maxTests <= missing'[j]
      <3>1. j \in opts.models \ (todo \cup limited)
        BY <1>1, <2>5
      <3>2. Left(j)' = Left(j)
        BY <1>1, <1>10, <1>11, <2>5 DEF Left
      <3>3. \/ Left(j) = {}
            \/ opts.maxTests > 0 /\ Cardinality(Left(j)) + opts.maxTests <= missing[j]
        BY <1>13, <3>1 DEF Progressing
      <3> QED
        BY <1>1, <3>2, <3>3
    <2> QED
      BY <1>1, <1>11, <2>1, <2>4, <2>5
  <1>19. MoreRemainIsHonest'
    BY <1>1 DEF MoreRemainIsHonest
  <1> QED
    BY <1>14, <1>15, <1>16, <1>17, <1>18, <1>19

\* A model cannot be used.
LEMMA NoRunnerStep ==
    ASSUME IInv, NEW m \in Models, NoRunner(m)
    PROVE  IInv'
  <1> USE DEF IInv
  <1> DEFINE a == Cardinality(aiCases)
  <1>1. /\ pc = "model" /\ m \in todo /\ pc' = pc
        /\ todo' = todo \ {m} /\ total' = total + a
        /\ limited' = limited \cup {m}
        /\ version' = version /\ suite' = suite /\ disk' = disk /\ invocations' = invocations
        /\ opts' = opts /\ mem' = mem /\ dirty' = dirty /\ trouble' = trouble
        /\ model' = model /\ cached' = cached /\ queue' = queue /\ hitLimit' = hitLimit
        /\ cut' = cut /\ missing' = missing /\ exit' = exit
    BY DEF NoRunner, world, state
  <1>2. opts \in Options
    BY DEF TypeOK
  <1>3. a \in Nat
    BY <1>2, EnginesDivide
  <1>4. /\ queue = {} /\ Cardinality(queue) \in Nat /\ total \in Nat /\ Sum \in Nat
    BY <1>1, Numbers DEF Scope
  <1>5. celCases' = celCases /\ aiCases' = aiCases /\ useState' = useState
        /\ \A j : Missing(j)' = Missing(j)
    BY <1>1, SameCases, SameMissing
  <1>6. Sum' = Sum + a
    BY <1>1, <1>3, <1>4 DEF Sum
  <1>7. Ran
    BY <1>1 DEF Ran, Scope
  <1>8. TypeOK'
    BY <1>1, <1>3, <1>4 DEF TypeOK
  <1>9. Scope'
    BY <1>1 DEF Scope
  <1>10. FileFollows'
    BY <1>1, <1>5 DEF FileFollows
  <1>11. Reported'
    <2>1. Due \in Nat /\ Due' = Due + a
      BY <1>1, DueGrows
    <2>2. Sum <= Due /\ (cut <=> Sum < Due)
      BY <1>7 DEF Reported
    <2> HIDE DEF a
    <2>3. Sum' <= Due' /\ (Sum' < Due' <=> Sum < Due)
      BY <1>3, <1>4, <1>6, <2>1, <2>2
    <2> QED
      BY <1>1, <2>2, <2>3 DEF Reported
  <1>12. Progressing'
    <2>1. \A j \in opts.models \ (todo' \cup limited') :
             /\ j \in opts.models \ (todo \cup limited)
             /\ Left(j)' = Left(j)
      BY <1>1, <1>5 DEF Left
    <2> QED
      BY <1>1, <1>5, <1>7, <2>1 DEF Progressing
  <1>13. MoreRemainIsHonest'
    BY <1>1 DEF MoreRemainIsHonest
  <1> QED
    BY <1>8, <1>9, <1>10, <1>11, <1>12, <1>13

\* A test ends, and its result is recorded.
LEMMA RunTestStep ==
    ASSUME IInv, NEW c \in Cases, RunTest(c)
    PROVE  IInv'
  <1> USE DEF IInv
  <1>1. PICK s \in Statuses, l \in BOOLEAN :
           /\ hitLimit' = l
           /\ IF useState THEN RecordResult(c, model, s) ELSE UNCHANGED <<mem, dirty>>
    BY DEF RunTest
  <1>2. /\ pc = "test" /\ c \in queue /\ pc' = "save"
        /\ queue' = queue \ {c} /\ total' = total + 1
        /\ version' = version /\ suite' = suite /\ disk' = disk /\ invocations' = invocations
        /\ opts' = opts /\ trouble' = trouble /\ todo' = todo /\ model' = model
        /\ cached' = cached /\ cut' = cut /\ limited' = limited
        /\ missing' = missing /\ exit' = exit
    BY DEF RunTest, world
  <1>3. /\ model \in Models /\ opts \in Options /\ mem \in StateFiles /\ version \in Versions
        /\ Ran /\ dirty \in BOOLEAN /\ queue \in SUBSET Cases /\ suite \in SUBSET Cases
    BY <1>2 DEF TypeOK, Scope, Ran
  <1>4. /\ mem' \in StateFiles
        /\ useState => /\ dirty' = TRUE
                       /\ \A e \in Cases \ {c} : mem'[e] = mem[e]
                       /\ mem'[c].models[model] # NoResult
                       /\ \A j \in Models \ {model} : mem'[c].models[j] = mem[c].models[j]
        /\ ~useState => mem' = mem /\ dirty' = dirty
    <2>1. CASE useState
      <3>1. RecordResult(c, model, s)
        BY <1>1, <2>1
      <3> QED
        BY <1>3, <2>1, <3>1, Recorded
    <2>2. CASE ~useState
      BY <1>1, <1>3, <2>2
    <2> QED
      BY <2>1, <2>2
  <1>5. celCases' = celCases /\ aiCases' = aiCases /\ useState' = useState
    BY <1>2, SameCases
  <1>6. Sum' = Sum
    <2>1. Cardinality(queue') = Cardinality(queue) - 1
      BY <1>2, Numbers, FS_RemoveElement
    <2> QED
      BY <1>2, <2>1, Numbers DEF Sum
  <1>7. TypeOK'
    <2>1. total' \in Nat /\ queue' \in SUBSET Cases
      BY <1>2, <1>3 DEF TypeOK
    <2>2. hitLimit' \in BOOLEAN
      BY <1>1, Zenon
    <2>3. dirty' \in BOOLEAN
      BY <1>3, <1>4, Zenon
    <2> QED
      BY <1>2, <1>4, <2>1, <2>2, <2>3 DEF TypeOK
  <1>8. Scope'
    BY <1>2 DEF Scope
  <1>9. FileFollows'
    <2>1. ASSUME useState, NEW e \in suite, NEW j \in Models, disk[e].models[j] # NoResult
          PROVE  mem'[e].models[j] # NoResult
      <3>1. mem[e].models[j] # NoResult /\ e \in Cases
        BY <1>2, <1>3, <2>1 DEF FileFollows
      <3>2. CASE e # c
        BY <1>4, <2>1, <3>1, <3>2
      <3>3. CASE e = c
        BY <1>4, <2>1, <3>1, <3>3
      <3> QED
        BY <3>2, <3>3
    <2>2. ~useState => ~dirty'
      BY <1>2, <1>4 DEF FileFollows
    <2> QED
      BY <1>2, <1>4, <1>5, <2>1, <2>2 DEF FileFollows
  <1>10. Reported'
    BY <1>2, <1>3, <1>6, SameCounts
  <1>11. Progressing'
    <2> SUFFICES ASSUME opts.mode = "incremental", ~opts.retryFailed
                 PROVE  /\ \A j \in Models : Cardinality(Missing(j)') <= missing'[j]
                        /\ \A j \in opts.models \ (todo' \cup limited') :
                              \/ Left(j)' = {}
                              \/ /\ opts.maxTests > 0
                                 /\ Cardinality(Left(j)') + opts.maxTests <= missing'[j]
      BY <1>2 DEF Progressing
    <2>1. RecordResult(c, model, s)
      BY <1>1 DEF useState
    <2>2. /\ \A j \in Models : Missing(j)' \in SUBSET Missing(j)
          /\ c \notin Missing(model)'
      BY <1>2, <1>3, <2>1, NothingInvalidated
    <2>3. /\ \A j : Missing(j) \in SUBSET Cases /\ Cardinality(Missing(j)) \in Nat
          /\ \A j \in Models : missing[j] \in Nat
          /\ opts.maxTests \in Nat
          /\ opts.models \in SUBSET Models
      BY <1>3, MissingCases, Numbers, OptionsFields
    <2>4. ASSUME NEW j \in Models
          PROVE  Cardinality(Missing(j)') <= missing'[j]
      <3>1. /\ Missing(j)' \in SUBSET Missing(j) /\ Missing(j) \in SUBSET Cases
            /\ Missing(j)' \in SUBSET Cases
        BY <2>2, <2>3
      <3>2. Cardinality(Missing(j)') \in Nat /\ Cardinality(Missing(j)') <= Cardinality(Missing(j))
        BY <3>1, Larger, Counts
      <3>3. Cardinality(Missing(j)) <= missing[j]
        BY <1>3 DEF Progressing
      <3> QED
        BY <1>2, <2>3, <3>2, <3>3
    <2>5. ASSUME NEW j \in opts.models \ (todo' \cup limited')
          PROVE  \/ Left(j)' = {}
                 \/ /\ opts.maxTests > 0
                    /\ Cardinality(Left(j)') + opts.maxTests <= missing'[j]
      <3>1. Left(j)' \in SUBSET Left(j)
        <4>1. j \in Models
          BY <2>3
        <4>2. CASE j = model
          BY <1>2, <2>2, <4>1, <4>2 DEF Left
        <4>3. CASE j # model
          BY <1>2, <2>2, <4>1, <4>3 DEF Left
        <4> QED
          BY <4>2, <4>3
      <3>2. Left(j) \in SUBSET Cases
        BY <2>3 DEF Left
      <3>3. /\ Left(j)' \in SUBSET Cases
            /\ Cardinality(Left(j)) \in Nat /\ Cardinality(Left(j)') \in Nat
            /\ Cardinality(Left(j)') <= Cardinality(Left(j))
        <4>1. Left(j)' \in SUBSET Cases
          BY <3>1, <3>2
        <4> QED
          BY <3>1, <3>2, <4>1, Larger, Counts
      <3>4. \/ Left(j) = {}
            \/ opts.maxTests > 0 /\ Cardinality(Left(j)) + opts.maxTests <= missing[j]
        BY <1>2, <1>3 DEF Progressing
      <3>5. CASE Left(j) = {}
        BY <3>1, <3>5
      <3>6. CASE opts.maxTests > 0 /\ Cardinality(Left(j)) + opts.maxTests <= missing[j]
        <4>1. missing[j] \in Nat
          BY <2>3
        <4> QED
          BY <1>2, <2>3, <3>3, <3>6, <4>1
      <3> QED
        BY <3>4, <3>5, <3>6
    <2> QED
      BY <2>4, <2>5
  <1>12. MoreRemainIsHonest'
    BY <1>2 DEF MoreRemainIsHonest
  <1> QED
    BY <1>7, <1>8, <1>9, <1>10, <1>11, <1>12

\* The result is saved, or not; a rate limit ends the model's run.
LEMMA SaveAndPrintStep ==
    ASSUME IInv, SaveAndPrint
    PROVE  IInv'
  <1> USE DEF IInv
  <1>1. /\ pc = "save" /\ pc' = "test" /\ Save /\ hitLimit' = FALSE
        /\ version' = version /\ suite' = suite /\ invocations' = invocations /\ opts' = opts
        /\ mem' = mem /\ todo' = todo /\ model' = model /\ cached' = cached /\ cut' = cut
        /\ missing' = missing /\ exit' = exit
    BY DEF SaveAndPrint
  <1>2. \/ /\ hitLimit /\ total' = total + Cardinality(queue) /\ queue' = {}
           /\ limited' = limited \cup {model}
        \/ ~hitLimit /\ total' = total /\ queue' = queue /\ limited' = limited
    BY DEF SaveAndPrint
  <1>3. model \in Models /\ Ran /\ total \in Nat /\ Cardinality(queue) \in Nat
    BY <1>1, Numbers DEF Scope, Ran
  <1>4. Sum' = Sum
    BY <1>2, <1>3, FS_EmptySet DEF Sum
  <1>5. celCases' = celCases /\ aiCases' = aiCases /\ useState' = useState
        /\ \A j : Missing(j)' = Missing(j)
    BY <1>1, SameCases, SameMissing
  <1>6. TypeOK'
    <2>1. disk' \in StateFiles /\ dirty' \in BOOLEAN /\ trouble' \in BOOLEAN
      BY <1>1, SaveType
    <2>2. total' \in Nat /\ queue' \in SUBSET Cases /\ limited' \in SUBSET Models
      BY <1>2, <1>3 DEF TypeOK
    <2> QED
      BY <1>1, <2>1, <2>2 DEF TypeOK
  <1>7. Scope'
    BY <1>1 DEF Scope
  <1>8. FileFollows'
    <2>1. useState /\ ~trouble' => disk' = mem'
      BY <1>1 DEF FileFollows, Save
    <2>2. ~useState => ~dirty'
      BY <1>1 DEF FileFollows, Save
    <2>3. \A c \in suite, m \in Models : Empty[c].models[m] = NoResult
      BY DEF TypeOK, Empty, NoEntry
    <2>4. useState => \A c \in suite, m \in Models :
             disk'[c].models[m] # NoResult => mem[c].models[m] # NoResult
      BY <1>1, <2>3 DEF FileFollows, Save
    <2> QED
      BY <1>1, <1>5, <2>1, <2>2, <2>4 DEF FileFollows
  <1>9. Reported'
    BY <1>1, <1>3, <1>4, SameCounts
  <1>10. Progressing'
    <2>1. limited \subseteq limited' /\ \/ queue' = queue
                                        \/ model \in limited'
      BY <1>2
    <2> QED
      BY <1>1, <1>3, <1>5, <2>1, SameProgress
  <1>11. MoreRemainIsHonest'
    BY <1>1 DEF MoreRemainIsHonest
  <1> QED
    BY <1>6, <1>7, <1>8, <1>9, <1>10, <1>11

\* All cases of the model have been run.
LEMMA EndModelStep ==
    ASSUME IInv, EndModel
    PROVE  IInv'
  <1> USE DEF IInv
  <1>1. /\ pc = "test" /\ queue = {} /\ pc' = "model" /\ model' = "none" /\ cached' = {}
        /\ version' = version /\ suite' = suite /\ disk' = disk /\ invocations' = invocations
        /\ opts' = opts /\ mem' = mem /\ dirty' = dirty /\ trouble' = trouble
        /\ todo' = todo /\ queue' = queue /\ hitLimit' = hitLimit
        /\ total' = total /\ cut' = cut /\ limited' = limited
        /\ missing' = missing /\ exit' = exit
    BY DEF EndModel, world, state, report
  <1>2. Ran
    BY <1>1 DEF Ran, Scope
  <1>3. TypeOK'
    BY <1>1 DEF TypeOK
  <1>4. Scope'
    BY <1>1 DEF Scope
  <1>5. FileFollows'
    BY <1>1, SameCases DEF FileFollows
  <1>6. Reported'
    BY <1>1, <1>2, SameCounts DEF Sum
  <1>7. Progressing'
    BY <1>1, <1>2, SameMissing, SameProgress
  <1>8. MoreRemainIsHonest'
    BY <1>1 DEF MoreRemainIsHonest
  <1> QED
    BY <1>3, <1>4, <1>5, <1>6, <1>7, <1>8

\* The exit code is chosen, and stale entries are pruned.
LEMMA FinishStep ==
    ASSUME IInv, Finish
    PROVE  IInv'
  <1> USE DEF IInv
  <1>1. /\ pc = "model" /\ todo = {} /\ pc' = "close"
        /\ exit' = IF Remaining > 0 THEN "more" ELSE "done"
        /\ IF useState THEN PruneStaleHashes ELSE UNCHANGED <<mem, dirty>>
        /\ version' = version /\ suite' = suite /\ disk' = disk /\ invocations' = invocations
        /\ opts' = opts /\ trouble' = trouble
        /\ todo' = todo /\ model' = model /\ cached' = cached /\ queue' = queue
        /\ hitLimit' = hitLimit /\ total' = total /\ cut' = cut /\ limited' = limited
        /\ missing' = missing
    BY DEF Finish, world, section, report
  <1>2. /\ Ran /\ queue = {} /\ opts \in Options /\ mem \in StateFiles /\ dirty \in BOOLEAN
        /\ suite \in SUBSET Cases
    BY <1>1 DEF Ran, Scope, TypeOK
  <1>3. /\ mem' \in StateFiles /\ dirty' \in BOOLEAN
        /\ \A c \in suite : mem'[c] = mem[c]
        /\ ~useState => dirty' = dirty
    BY <1>1, <1>2, Pruned
  <1>4. celCases' = celCases /\ aiCases' = aiCases /\ useState' = useState
    BY <1>1, SameCases
  <1>5. \A m : Missing(m)' = Missing(m)
    <2>1. aiCases \in SUBSET suite
      BY <1>2, EnginesDivide DEF Scope
    <2> QED
      BY <1>1, <1>3, <1>4, <2>1 DEF Missing, ShouldSkip
  <1>6. TypeOK'
    BY <1>1, <1>3 DEF TypeOK
  <1>7. Scope'
    BY <1>1 DEF Scope
  <1>8. FileFollows'
    BY <1>1, <1>3, <1>4 DEF FileFollows
  <1>9. Reported'
    BY <1>1, <1>2, SameCounts DEF Sum
  <1>10. Progressing'
    BY <1>1, <1>2, <1>5, SameProgress
  <1>11. MoreRemainIsHonest'
    <2> SUFFICES ASSUME celCases \cup aiCases = opts.selected
                 PROVE  /\ exit' = "more" => cut
                        /\ Cardinality(opts.models) <= 1 /\ cut => exit' = "more"
      BY <1>1, <1>4 DEF MoreRemainIsHonest
    <2> DEFINE d == Cardinality(celCases)
               a == Cardinality(aiCases)
               k == Cardinality(opts.models)
               n == Cardinality(opts.selected)
    <2>1. /\ Sum = total /\ total \in Nat /\ opts.maxTests \in Nat
          /\ k \in Nat /\ IsFiniteSet(opts.models)
      BY <1>2, Numbers
    <2>2. d \in Nat /\ a \in Nat /\ n \in Nat /\ n = d + a
      BY <1>2, EnginesDivide
    <2>3. /\ total <= Due /\ (cut <=> total < Due)
          /\ cut => opts.maxTests > 0
      BY <1>2, <2>1 DEF Reported
    <2>4. Due \in Nat /\ n <= Due /\ (k <= 1 => Due = n)
      <3>1. CASE opts.models = {}
        BY <2>2, <3>1 DEF Due
      <3>2. CASE opts.models # {}
        <4>1. Due = d + a * (k - 0) /\ k >= 1
          BY <1>1, <2>1, <3>2, FS_EmptySet DEF Due
        <4> HIDE DEF d, a, k
        <4>2. a * (k - 0) \in Nat /\ a * (k - 0) >= a /\ (k <= 1 => a * (k - 0) = a)
          BY <2>1, <2>2, <4>1
        <4> DEFINE x == a * (k - 0)
        <4>3. x \in Nat /\ x >= a /\ (k <= 1 => x = a) /\ Due = d + x
          BY <4>1, <4>2
        <4> HIDE DEF x
        <4> QED
          BY <2>2, <4>3
      <3> QED
        BY <3>1, <3>2
    <2>5. Remaining > 0 <=> opts.maxTests > 0 /\ total < n
      BY <2>1, <2>2 DEF Remaining
    <2> HIDE DEF d, a, k, n
    <2>6. /\ total < n => cut
          /\ k <= 1 /\ cut => opts.maxTests > 0 /\ total < n
      BY <2>1, <2>2, <2>3, <2>4
    <2> QED
      BY <1>1, <2>5, <2>6 DEF k
  <1> QED
    BY <1>6, <1>7, <1>8, <1>9, <1>10, <1>11

\* The results cannot be written.
LEMMA OutputFailsStep ==
    ASSUME IInv, OutputFails
    PROVE  IInv'
  <1> USE DEF IInv
  <1>1. /\ pc = "model" /\ todo = {} /\ pc' = "close" /\ exit' = "error"
        /\ version' = version /\ suite' = suite /\ disk' = disk /\ invocations' = invocations
        /\ opts' = opts /\ mem' = mem /\ dirty' = dirty /\ trouble' = trouble
        /\ todo' = todo /\ model' = model /\ cached' = cached /\ queue' = queue
        /\ hitLimit' = hitLimit /\ total' = total /\ cut' = cut /\ limited' = limited
        /\ missing' = missing
    BY DEF OutputFails, world, state, section, report
  <1>2. Ran
    BY <1>1 DEF Ran, Scope
  <1>3. TypeOK'
    BY <1>1 DEF TypeOK
  <1>4. Scope'
    BY <1>1 DEF Scope
  <1>5. FileFollows'
    BY <1>1, SameCases DEF FileFollows
  <1>6. Reported'
    BY <1>1, <1>2, SameCounts DEF Sum
  <1>7. Progressing'
    BY <1>1, <1>2, SameMissing, SameProgress
  <1>8. MoreRemainIsHonest'
    BY <1>1 DEF MoreRemainIsHonest
  <1> QED
    BY <1>3, <1>4, <1>5, <1>6, <1>7, <1>8

\* Nothing happens.
LEMMA StutterStep ==
    ASSUME IInv, UNCHANGED vars
    PROVE  IInv'
  <1> USE DEF IInv
  <1>1. /\ version' = version /\ suite' = suite /\ disk' = disk /\ invocations' = invocations
        /\ pc' = pc /\ opts' = opts /\ mem' = mem /\ dirty' = dirty /\ trouble' = trouble
        /\ todo' = todo /\ model' = model /\ cached' = cached /\ queue' = queue
        /\ hitLimit' = hitLimit /\ total' = total /\ cut' = cut /\ limited' = limited
        /\ missing' = missing /\ exit' = exit
    BY DEF vars, world, state, section, report
  <1>2. Ran' = Ran
    BY <1>1 DEF Ran
  <1>3. TypeOK'
    BY <1>1 DEF TypeOK
  <1>4. Scope'
    BY <1>1 DEF Scope
  <1>5. FileFollows'
    BY <1>1, SameCases DEF FileFollows
  <1>6. Reported'
    BY <1>1, <1>2, SameCounts DEF Sum
  <1>7. Progressing'
    BY <1>1, <1>2, SameMissing, SameProgress
  <1>8. MoreRemainIsHonest'
    BY <1>1, SameCases DEF MoreRemainIsHonest
  <1> QED
    BY <1>3, <1>4, <1>5, <1>6, <1>7, <1>8

\* The invariant holds initially.
LEMMA InitIInv == Init => IInv
  <1> SUFFICES ASSUME Init
               PROVE  IInv
    OBVIOUS
  <1>1. /\ pc = "off" /\ opts = NoOptions /\ todo = {} /\ total = 0 /\ cut = FALSE
        /\ queue = {}
    BY DEF Init
  <1>2. TypeOK
    <2>1. missing \in [Models -> 0 .. Cardinality(Cases)]
      <3>1. Cardinality(Cases) \in Nat
        BY Counts, FS_CardinalityType
      <3> QED
        BY <3>1 DEF Init
    <2>2. invocations \in 0 .. MaxInvocations
      BY SuiteAssumption DEF Init
    <2> QED
      BY <2>1, <2>2, NoOptionsType, EmptyType DEF Init, TypeOK
  <1>3. Scope
    BY <1>1 DEF Scope, NoOptions
  <1>4. FileFollows
    BY <1>1 DEF FileFollows
  <1>5. Reported /\ Progressing /\ MoreRemainIsHonest
    BY <1>1 DEF Reported, Progressing, MoreRemainIsHonest, Ran
  <1> QED
    BY <1>2, <1>3, <1>4, <1>5 DEF IInv

\* Every step preserves the invariant.
LEMMA NextIInv == IInv /\ [Next]_vars => IInv'
  BY StutterStep, IdleStep, GoneStep, InvokeStep, SummaryStep, RunCELStep, StartModelStep,
     NoRunnerStep, RunTestStep, SaveAndPrintStep, EndModelStep, FinishStep, OutputFailsStep
     DEF Next

\* The invariant holds in every reachable state.
THEOREM Invariance == Spec => []IInv
  BY InitIInv, NextIInv, PTL DEF Spec
-----------------------------------------------------------------------------
\* Type correctness, of the state file in particular.
THEOREM TypeCorrect == Spec => []TypeOK
  <1>1. IInv => TypeOK
    BY DEF IInv
  <1> QED
    BY <1>1, Invariance, PTL

\* A run that is killed between two tests loses no result, unless a file
\* operation failed before.
THEOREM CrashCorrect == Spec => []CrashLosesOnlyRunningTest
  <1>1. IInv => CrashLosesOnlyRunningTest
    BY DEF IInv, FileFollows, CrashLosesOnlyRunningTest
  <1> QED
    BY <1>1, Invariance, PTL

\* When the exit code says that tests remain, --max-tests left a case out, for
\* any number of models; for one model it says so whenever that is the case.
THEOREM HonestExit == Spec => []MoreRemainIsHonest
  <1>1. IInv => MoreRemainIsHonest
    BY DEF IInv
  <1> QED
    BY <1>1, Invariance, PTL

\* The results due in the end, by the cases the engines are given.
LEMMA DueInTheEnd ==
    ASSUME TypeOK, Scope
    PROVE  /\ ResultsDue \in Nat
           /\ Ran => Due \in Nat /\ Due <= ResultsDue
           /\ Ran /\ todo = {} => Due = ResultsDue
  <1> DEFINE d == Cardinality(celCases)
             a == Cardinality(aiCases)
             k == Cardinality(opts.models)
             t == Cardinality(todo)
             times == IF opts.models = {} THEN 1 ELSE k
             taken == IF opts.models = {} THEN 1 ELSE k - t
             both == Cardinality(opts.selected \cap BothCases)
             ai == Cardinality(opts.selected \ BothCases)
  <1>1. opts \in Options /\ opts.selected \in SUBSET Cases
    BY OptionsFields DEF TypeOK
  <1>2. /\ d \in Nat /\ a \in Nat /\ k \in Nat /\ t \in Nat /\ t <= k
        /\ todo = {} => t = 0
    BY <1>1, EnginesDivide, Numbers, FS_EmptySet
  <1>3. both \in Nat /\ ai \in Nat /\ Cardinality(opts.selected) = both + ai
    <2>1. /\ opts.selected \cap BothCases \in SUBSET opts.selected
          /\ opts.selected \ (opts.selected \cap BothCases) = opts.selected \ BothCases
          /\ opts.selected \cap BothCases \in SUBSET Cases
          /\ opts.selected \ BothCases \in SUBSET Cases
      BY <1>1
    <2>2. Cardinality(opts.selected \ (opts.selected \cap BothCases))
            = Cardinality(opts.selected) - both
      BY <1>1, <2>1, Apart
    <2>3. both \in Nat /\ ai \in Nat /\ Cardinality(opts.selected) \in Nat
      BY <1>1, <2>1, Counts
    <2> QED
      BY <2>1, <2>2, <2>3
  <1>4. ResultsDue = d + a * times
    <2>1. opts.engine \in {"all", "ai", "cel"}
      BY <1>1 DEF Options
    <2>2. CASE opts.engine = "all"
      <3>1. /\ celCases = opts.selected \cap BothCases
            /\ aiCases = opts.selected \ BothCases
        BY <2>2 DEF celCases, aiCases
      <3> QED
        BY <2>2, <3>1 DEF ResultsDue
    <2>3. CASE opts.engine = "ai"
      <3>1. celCases = {} /\ aiCases = opts.selected
        BY <2>3 DEF celCases, aiCases
      <3>2. d = 0 /\ a = both + ai
        BY <1>3, <3>1, FS_EmptySet
      <3>3. ResultsDue = (both + ai) * times
        BY <2>3 DEF ResultsDue
      <3>4. times \in Nat
        BY <1>2
      <3> HIDE DEF d, a, times, both, ai
      <3>5. (both + ai) * times \in Nat
        BY <1>3, <3>4
      <3> QED
        BY <3>2, <3>3, <3>5
    <2>4. CASE opts.engine = "cel"
      <3>1. celCases = opts.selected \cap BothCases /\ aiCases = {}
        BY <2>4 DEF celCases, aiCases
      <3>2. d = both /\ a = 0
        BY <3>1, FS_EmptySet
      <3>3. ResultsDue = both
        BY <2>4 DEF ResultsDue
      <3>4. times \in Nat
        BY <1>2
      <3> HIDE DEF d, a, times, both
      <3> QED
        BY <1>3, <3>2, <3>3, <3>4
    <2> QED
      BY <2>1, <2>2, <2>3, <2>4
  <1>5. Due = d + a * taken
    BY DEF Due
  <1>6. times \in Nat /\ taken \in Nat /\ taken <= times /\ (todo = {} => taken = times)
    BY <1>2
  <1> HIDE DEF d, a, times, taken
  <1>7. a * times \in Nat /\ a * taken \in Nat /\ a * taken <= a * times
    BY <1>2, <1>6
  <1> DEFINE x == a * times
             y == a * taken
  <1>8. /\ x \in Nat /\ y \in Nat /\ y <= x /\ (todo = {} => y = x)
        /\ ResultsDue = d + x /\ Due = d + y
    BY <1>4, <1>5, <1>6, <1>7
  <1> HIDE DEF x, y
  <1> QED
    BY <1>2, <1>8

\* A run that --max-tests did not cut reports exactly one result for every case
\* and model, in any combination of the engines, caches, limits and models that
\* cannot be used; and no run ever reports more.
THEOREM Counted == Spec => []AllResultsReported
  <1>1. ASSUME IInv
        PROVE  AllResultsReported
    <2>1. TypeOK /\ Scope /\ Reported /\ opts \in Options
      BY <1>1 DEF IInv, TypeOK
    <2>2. /\ total \in Nat /\ Cardinality(queue) \in Nat /\ Sum = total + Cardinality(queue)
          /\ queue = {} => Sum = total
      BY <2>1, Numbers DEF Sum
    <2>3. ResultsDue \in Nat
      BY <2>1, DueInTheEnd
    <2>4. CASE ~Ran
      <3>1. total = 0
        BY <2>1, <2>4 DEF Ran, Scope, TypeOK
      <3>2. ASSUME pc = "close"
            PROVE  ResultsDue = 0
        <4>1. opts.mode = "summary"
          BY <2>4, <3>2 DEF Ran
        <4>2. opts.engine = "all" /\ opts.models = {} /\ opts.selected = {}
          <5>1. opts = [NoOptions EXCEPT !.mode = "summary"]
            BY <2>1, <4>1 DEF Options
          <5> QED
            BY <5>1 DEF NoOptions
        <4>3. opts.selected \cap BothCases = {} /\ opts.selected \ BothCases = {}
          BY <4>2
        <4>4. Cardinality({}) = 0
          BY FS_EmptySet
        <4> QED
          BY <4>2, <4>3, <4>4 DEF ResultsDue
      <3> QED
        BY <2>3, <3>1, <3>2 DEF AllResultsReported
    <2>5. CASE Ran
      <3>1. /\ Sum <= Due /\ (cut <=> Sum < Due)
            /\ Due \in Nat /\ Due <= ResultsDue
        BY <2>1, <2>5, DueInTheEnd DEF Reported
      <3>2. total <= ResultsDue
        BY <2>2, <2>3, <3>1
      <3>3. ASSUME pc = "close", ~cut
            PROVE  total = ResultsDue
        <4>1. queue = {} /\ todo = {}
          BY <2>1, <3>3 DEF Scope
        <4>2. Due = ResultsDue /\ Sum = total
          BY <2>1, <2>2, <2>5, <4>1, DueInTheEnd
        <4> QED
          BY <2>2, <2>3, <3>1, <3>3, <4>2
      <3> QED
        BY <3>2, <3>3 DEF AllResultsReported
    <2> QED
      BY <2>4, <2>5
  <1> QED
    BY <1>1, Invariance, PTL

\* Repeated incremental runs get through the suite.
THEOREM Progress == Spec => []IncrementalMakesProgress
  <1>1. ASSUME IInv
        PROVE  IncrementalMakesProgress
    <2> SUFFICES ASSUME pc = "close", opts.mode = "incremental", ~opts.retryFailed,
                        NEW m \in opts.models \ limited
                 PROVE  \/ Cardinality(Missing(m)) = 0
                        \/ /\ opts.maxTests > 0
                           /\ Cardinality(Missing(m)) + opts.maxTests <= missing[m]
      BY DEF IncrementalMakesProgress
    <2>1. Ran /\ todo = {} /\ queue = {}
      BY <1>1 DEF IInv, Scope, Ran
    <2>2. Left(m) = Missing(m)
      BY <2>1 DEF Left
    <2> QED
      BY <1>1, <2>1, <2>2, FS_EmptySet DEF IInv, Progressing
  <1> QED
    BY <1>1, Invariance, PTL

\* No step of any invocation drops a result of a case that is still in the
\* suite from the file, except when the file could not be replaced.
THEOREM MemoryKept == Spec => NothingForgotten
  <1> DEFINE Kept == \A c \in suite, m \in Models :
                 disk[c].models[m] # NoResult /\ disk'[c].models[m] = NoResult => trouble'
  <1>1. ASSUME IInv, [Next]_vars
        PROVE  [Kept]_vars
    <2>1. CASE SaveAndPrint \/ Close
      <3>1. Save /\ pc # "off"
        BY <2>1 DEF SaveAndPrint, Close
      <3>2. dirty => \A c \in suite, m \in Models :
               disk[c].models[m] # NoResult => mem[c].models[m] # NoResult
        BY <1>1, <3>1 DEF IInv, FileFollows
      <3> QED
        BY <3>1, <3>2 DEF Save
    <2>2. CASE disk' = disk
      BY <2>2
    <2>3. SaveAndPrint \/ Close \/ disk' = disk
      BY <1>1 DEF Next, LoadFails, Invoke, Summary, RunCEL, EndModel, Finish, OutputFails, Crash,
         EditPolicies, EditCases, StartModel, NoRunner, RunTest, vars, world
    <2> QED
      BY <2>1, <2>2, <2>3
  <1> QED
    BY <1>1, Invariance, PTL DEF Spec, NothingForgotten
=============================================================================
