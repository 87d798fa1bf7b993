--------------------------- MODULE ToolCallProofs ---------------------------
(***************************************************************************)
(* Theorems about ToolCall for any set of requests.  The requests share    *)
(* the audit filter and the progress of Stop only, so the inductive        *)
(* invariant is one formula, CallInv, of every request; a step of one      *)
(* request leaves the others as they are (Frame, OneCall).                 *)
(***************************************************************************)
EXTENDS ToolCall, TLAPS

\* What an engine's result has to satisfy for the merges to be right: a deny
\* shows in the count, and an audit_only deny lets the call pass.
EngineResult(r) ==
    /\ r \in ResultsType
    /\ r.allowed <=> r.denyCount = 0
    /\ r.bypass => r.allowed

Unfiltered == <<Untouched, Untouched>>
Unlogged(c) == queued[c] = NoEntry /\ log[c] = NoEntry /\ watcher[c] = "none" /\ late[c] = NoEntry

\* Which verdicts a request can have, by its surface and how far it has come.
VerdictInv(c) ==
    /\ EngineResult(cel[c]) /\ EngineResult(ai[c]) /\ EngineResult(second[c])
    /\ surface[c] # "shell" => second[c] = Nothing
    /\ surface[c] = "response" => cel[c] = Nothing /\ ai[c] = Nothing
    /\ surface[c] \notin {"mcp", "response"} => responses[c] = Unfiltered
    /\ surface[c] = "mcp" /\ tool[c] # "answered" => responses[c] = Unfiltered
    /\ pc[c] \in {"cel", "unchecked"} =>
          /\ cel[c] = Nothing /\ ai[c] = Nothing /\ second[c] = Nothing
          /\ responses[c] = Unfiltered
          /\ \A p \in Phases : aiState[c][p] = "none"

\* What has happened to a request at each place of its handler.
PlaceInv(c) ==
    /\ pc[c] \in {"cel", "ai", "second", "decide"} =>
          tool[c] = "no" /\ answer[c] = "none" /\ Unlogged(c)
    /\ pc[c] = "ai" => surface[c] # "response"
    /\ pc[c] = "second" => surface[c] = "shell"
    /\ pc[c] = "tool" => tool[c] = "called" /\ answer[c] = "none" /\ Unlogged(c)
    /\ pc[c] = "finish" => tool[c] = "answered" /\ answer[c] = "none" /\ Unlogged(c)
    /\ pc[c] = "unchecked" => surface[c] = "cli" /\ answer[c] = "allowed" /\ Unlogged(c)
    /\ pc[c] = "audit" =>
          surface[c] = "cli" /\ answer[c] \in {"allowed", "denied"} /\ Unlogged(c)
    /\ pc[c] = "answer" =>
          /\ surface[c] \in {"intercept", "shell", "response"} /\ answer[c] = "none"
          /\ queued[c] = NoEntry /\ log[c] # NoEntry
    /\ pc[c] = "done" => answer[c] # "none"
    /\ tool[c] # "no" => surface[c] = "mcp" /\ ~Vetoed(c)
    /\ wrapper[c] = "ran" => answer[c] = "allowed"

\* What the caller was told follows from the verdicts.
AnswerInv(c) ==
    /\ answer[c] = "allowed" => ~Vetoed(c) /\ surface[c] \in {"cli", "intercept", "shell"}
    /\ answer[c] \in {"result", "redacted"} =>
          /\ ~Vetoed(c) /\ ~ResponseVetoed(c) /\ surface[c] \in {"mcp", "response"}
          /\ surface[c] = "mcp" => tool[c] = "answered"
          /\ answer[c] = "result" => \A i \in 1 .. 2 : ~responses[c][i].redacted
    /\ answer[c] = "denied" => Vetoed(c) \/ ResponseVetoed(c)
    /\ answer[c] = "deniedMutation" => ~Vetoed(c) /\ ResponseVetoed(c)
    /\ answer[c] = "error" => ~Vetoed(c) /\ Unlogged(c)
    /\ pc[c] = "done" /\ surface[c] = "response" /\ log[c] # NoEntry =>
          answer[c] = buildResponseResult(c)

\* Some engine reported the flag.
AnyFailedOpen(c) ==
    \/ cel[c].failedOpen \/ ai[c].failedOpen \/ second[c].failedOpen
    \/ responses[c][1].failedOpen \/ responses[c][2].failedOpen
AnyBypass(c) ==
    \/ cel[c].bypass \/ ai[c].bypass \/ second[c].bypass
    \/ responses[c][1].bypass \/ responses[c][2].bypass

\* What an entry says of its request follows from the verdicts.
EntryTells(c, e) ==
    /\ (e.action = "deny") <=> (Vetoed(c) \/ ResponseVetoed(c))
    /\ e.action = "redact" => surface[c] = "response" /\ Resp(c).redacted
    /\ e.reason = "request_policy" => Vetoed(c) /\ tool[c] = "no"
    /\ e.reason = "response_policy" => ResponseVetoed(c) /\ ~Vetoed(c)
    /\ e.reason = "fail_open" => ~Vetoed(c) /\ ~ResponseVetoed(c) /\ AnyFailedOpen(c)
    /\ e.reason = "audit_mode" => ~Vetoed(c) /\ ~ResponseVetoed(c) /\ AnyBypass(c)

EntryInv(c) ==
    /\ queued[c] # NoEntry =>
          surface[c] = "mcp" /\ pc[c] = "done" /\ log[c] = NoEntry /\ EntryTells(c, queued[c])
    /\ Logged(c) =>
          EntryTells(c, log[c]) /\ (filter = "deny_only" => log[c].action = "deny")
    /\ log[c] = Dropped => ~Vetoed(c) /\ ~ResponseVetoed(c)
    /\ log[c] # NoEntry => pc[c] \in {"answer", "done"}
    /\ pc[c] = "done" /\ Refused(c) => log[c] # NoEntry \/ queued[c] # NoEntry

\* Which AI phases are in which entry.
RecordInv(c) ==
    /\ surface[c] = "mcp" =>
          /\ watcher[c] = "none"
          /\ Logged(c) => /\ \A p \in Phases : aiState[c][p] # "running"
                          /\ log[c].ai = {p \in Phases : aiState[c][p] # "none"}
    /\ surface[c] # "mcp" =>
          /\ Logged(c) => log[c].ai = Details(c)
          /\ watcher[c] = "none" /\ log[c] # NoEntry => ~HasAsyncWork(c)
    /\ watcher[c] # "none" =>
          /\ log[c] # NoEntry
          /\ Logged(c) => log[c].action = RESTAction(c)
          /\ log[c] = Dropped => filter = "deny_only" /\ RESTAction(c) # "deny"
    /\ watcher[c] # "written" => late[c] = NoEntry
    /\ watcher[c] = "written" =>
          /\ Completions(c)
          /\ late[c] \in EntryType =>
                /\ late[c].action = RESTAction(c) /\ late[c].ai = mergeAsyncCompletions(c)
                /\ filter = "deny_only" => late[c].action = "deny"
          /\ late[c] = Dropped => ~Logged(c)
          /\ late[c] # NoEntry

CallInv(c) == VerdictInv(c) /\ PlaceInv(c) /\ AnswerInv(c) /\ EntryInv(c) /\ RecordInv(c)

IInv == TypeOK /\ \A c \in Calls : CallInv(c)
-----------------------------------------------------------------------------
(* The values of the engines and their merges. *)

\* What the engines return is well formed, and they count at most one deny.
LEMMA EngineValues ==
    \A r \in CELResults \cup AIResults : EngineResult(r) /\ r.denyCount \in 0 .. 1
  <1> DEFINE Good(r) == EngineResult(r) /\ r.denyCount \in 0 .. 1
  <1>1. /\ Good(Nothing)
        /\ Good(Result(TRUE, 0, TRUE, FALSE, "none", TRUE))
        /\ Good(Result(TRUE, 0, FALSE, TRUE, "deny", TRUE))
        /\ Good(Result(TRUE, 0, FALSE, FALSE, "allow", TRUE))
    BY DEF EngineResult, Nothing, Result, ResultsType, Actions
  <1>2. ASSUME NEW m \in BOOLEAN
        PROVE  /\ Good(Result(TRUE, 0, FALSE, FALSE, "allow", m))
               /\ Good(Result(FALSE, 1, FALSE, FALSE, "deny", m))
               /\ Good(Result(TRUE, 0, m, TRUE, "deny", TRUE))
               /\ Good(Result(FALSE, 1, m, FALSE, "deny", TRUE))
    BY DEF EngineResult, Result, ResultsType, Actions
  <1> HIDE DEF Good
  <1>3. \A r \in CELResults : Good(r)
    BY <1>1, <1>2, Zenon DEF CELResults
  <1>4. \A r \in AIResults : Good(r)
    BY <1>1, <1>2, Zenon DEF AIResults
  <1> QED
    BY <1>3, <1>4 DEF Good

\* An engine that matched nothing lets the request pass and reports nothing.
LEMMA NothingIsResult == EngineResult(Nothing) /\ Nothing.allowed /\ ~Nothing.bypass /\ ~Nothing.failedOpen
  BY DEF EngineResult, Nothing, Result, ResultsType, Actions

\* A response no engine looked at passes unchanged.
LEMMA UntouchedIsResponse ==
    Untouched \in ResponseType /\ Untouched.allowed /\ ~Untouched.redacted
  BY DEF Untouched, Response, ResponseType

\* The merges of request results deny exactly when one of the merged
\* results denies, and invent neither a failure nor a bypass.
LEMMA Merges ==
    ASSUME NEW q, NEW r, EngineResult(q), EngineResult(r)
    PROVE  /\ Handle(q, r).denyCount > 0 <=> ~q.allowed \/ ~r.allowed
           /\ Handle(q, r).failedOpen <=> q.failedOpen \/ r.failedOpen
           /\ Handle(q, r).bypass => q.bypass \/ r.bypass
           /\ Handle(q, r).recommended \in Actions
           /\ Evaluate(q, r).allowed <=> q.allowed /\ r.allowed
           /\ Evaluate(q, r).failedOpen <=> q.failedOpen \/ r.failedOpen
           /\ Evaluate(q, r).bypass => q.bypass \/ r.bypass
  <1>1. q \in ResultsType /\ r \in ResultsType
    BY DEF EngineResult
  <1>2. /\ Handle(q, r).denyCount = q.denyCount + r.denyCount
        /\ q.denyCount \in Nat /\ r.denyCount \in Nat
    BY <1>1 DEF Handle, ResultsType
  <1>3. Handle(q, r).denyCount > 0 <=> ~q.allowed \/ ~r.allowed
    BY <1>2 DEF EngineResult
  <1>4. /\ Handle(q, r).failedOpen <=> q.failedOpen \/ r.failedOpen
        /\ Handle(q, r).bypass => q.bypass \/ r.bypass
        /\ Handle(q, r).recommended \in Actions
    BY DEF Handle, Actions
  <1>5. /\ Evaluate(q, r).allowed <=> q.allowed /\ r.allowed
        /\ Evaluate(q, r).failedOpen <=> q.failedOpen \/ r.failedOpen
        /\ Evaluate(q, r).bypass => q.bypass \/ r.bypass
    BY DEF Evaluate, EngineResult
  <1> QED
    BY <1>3, <1>4, <1>5

\* The two evaluations of a shell tool: either denies.
LEMMA ShellMerge ==
    ASSUME NEW q, NEW r
    PROVE  /\ mergeShellResults(q, r).allowed <=> q.allowed /\ r.allowed
           /\ mergeShellResults(q, r).failedOpen <=> q.failedOpen \/ r.failedOpen
           /\ mergeShellResults(q, r).bypass => q.bypass \/ r.bypass
  BY DEF mergeShellResults

\* The second evaluation of a shell tool is a result like any other.
LEMMA EvaluateIsResult ==
    ASSUME NEW q \in CELResults, NEW r \in AIResults
    PROVE  EngineResult(Evaluate(q, r))
  <1>1. /\ EngineResult(q) /\ EngineResult(r)
        /\ q.denyCount \in 0 .. 1 /\ r.denyCount \in 0 .. 1
    BY EngineValues
  <1>2. Evaluate(q, r).denyCount = q.denyCount + r.denyCount
    BY DEF Evaluate
  <1>3. Evaluate(q, r) \in ResultsType
    BY <1>1 DEF Evaluate, ResultsType, Actions
  <1>4. Evaluate(q, r).bypass => Evaluate(q, r).allowed
    BY DEF Evaluate
  <1> QED
    BY <1>1, <1>2, <1>3, <1>4, Merges DEF EngineResult

\* The response chain: either engine denies, and either redacts.
LEMMA ResponseMerge ==
    ASSUME NEW q \in ResponseType, NEW r \in ResponseType
    PROVE  /\ HandleResponse(q, r).allowed <=> q.allowed /\ r.allowed
           /\ HandleResponse(q, r).redacted <=> q.redacted \/ r.redacted
           /\ HandleResponse(q, r).failedOpen <=> q.failedOpen \/ r.failedOpen
           /\ HandleResponse(q, r).bypass <=> q.bypass \/ r.bypass
  BY DEF HandleResponse, ResponseType
-----------------------------------------------------------------------------
(* What a request's verdicts mean for its answer and its entries. *)

USE DEF input, verdicts, rest

\* The type invariant without its quantifiers.
LEMMA Types ==
    TypeOK <=>
        /\ surface \in [Calls -> Surfaces]
        /\ filter \in {"all", "deny_only"}
        /\ pc \in [Calls -> {"cel", "ai", "second", "decide", "tool", "finish", "audit",
                             "answer", "unchecked", "done"}]
        /\ cel \in [Calls -> ResultsType]
        /\ ai \in [Calls -> ResultsType]
        /\ second \in [Calls -> ResultsType]
        /\ responses \in [Calls -> ResponseType \X ResponseType]
        /\ aiState \in [Calls -> [Phases -> AIStates]]
        /\ tool \in [Calls -> {"no", "called", "answered"}]
        /\ answer \in [Calls -> {"none", "denied", "deniedMutation", "error", "result",
                                 "redacted", "allowed"}]
        /\ queued \in [Calls -> EntryType \cup {NoEntry}]
        /\ log \in [Calls -> EntryType \cup {NoEntry, Dropped}]
        /\ late \in [Calls -> EntryType \cup {NoEntry, Dropped}]
        /\ watcher \in [Calls -> {"none", "waiting", "written", "timeout"}]
        /\ wrapper \in [Calls -> {"none", "waiting", "ran", "notRun", "unvalidated"}]
        /\ stop \in StopPhases
  BY Zenon DEF TypeOK

\* The request phase, for each of the three ways of merging its results.
LEMMA RequestVerdict ==
    ASSUME NEW c \in Calls, VerdictInv(c)
    PROVE  /\ surface[c] # "shell" => (Denied(c) <=> Vetoed(c))
           /\ Handle(cel[c], ai[c]).failedOpen => AnyFailedOpen(c)
           /\ Handle(cel[c], ai[c]).bypass => AnyBypass(c)
           /\ Handle(cel[c], ai[c]).recommended \in Actions
           /\ RESTResults(c).allowed <=> ~Vetoed(c)
           /\ RESTResults(c).failedOpen => AnyFailedOpen(c)
           /\ RESTResults(c).bypass => AnyBypass(c)
  <1> DEFINE first == Evaluate(cel[c], ai[c])
  <1>1. /\ EngineResult(cel[c]) /\ EngineResult(ai[c]) /\ EngineResult(second[c])
        /\ surface[c] # "shell" => second[c] = Nothing
    BY DEF VerdictInv
  <1>2. /\ Denied(c) <=> ~cel[c].allowed \/ ~ai[c].allowed
        /\ Handle(cel[c], ai[c]).failedOpen <=> cel[c].failedOpen \/ ai[c].failedOpen
        /\ Handle(cel[c], ai[c]).bypass => cel[c].bypass \/ ai[c].bypass
        /\ Handle(cel[c], ai[c]).recommended \in Actions
        /\ first.allowed <=> cel[c].allowed /\ ai[c].allowed
        /\ first.failedOpen <=> cel[c].failedOpen \/ ai[c].failedOpen
        /\ first.bypass => cel[c].bypass \/ ai[c].bypass
    BY <1>1, Merges, Zenon DEF Denied
  <1>3. CASE surface[c] = "shell"
    <2>1. RESTResults(c) = mergeShellResults(first, second[c])
      BY <1>3 DEF RESTResults
    <2> HIDE DEF first
    <2>2. /\ RESTResults(c).allowed <=> first.allowed /\ second[c].allowed
          /\ RESTResults(c).failedOpen <=> first.failedOpen \/ second[c].failedOpen
          /\ RESTResults(c).bypass => first.bypass \/ second[c].bypass
      <3> DEFINE m == mergeShellResults(first, second[c])
      <3>1. /\ m.allowed <=> first.allowed /\ second[c].allowed
            /\ m.failedOpen <=> first.failedOpen \/ second[c].failedOpen
            /\ m.bypass => first.bypass \/ second[c].bypass
        BY ShellMerge, Zenon
      <3> HIDE DEF m
      <3> QED
        BY <2>1, <3>1 DEF m
    <2> QED
      BY <1>2, <1>3, <2>2, Zenon DEF Vetoed, AnyFailedOpen, AnyBypass
  <1>4. CASE surface[c] # "shell"
    <2>1. /\ RESTResults(c).allowed <=> first.allowed
          /\ RESTResults(c).failedOpen <=> first.failedOpen
          /\ RESTResults(c).bypass <=> first.bypass
      <3>1. RESTResults(c) = first
        BY <1>4 DEF RESTResults
      <3> HIDE DEF first
      <3> QED
        BY <3>1
    <2>2. second[c].allowed
      BY <1>1, <1>4, NothingIsResult
    <2> HIDE DEF first
    <2> QED
      BY <1>2, <1>4, <2>1, <2>2, Zenon DEF Vetoed, AnyFailedOpen, AnyBypass
  <1> QED
    BY <1>3, <1>4

\* The response phase.
LEMMA ResponseVerdict ==
    ASSUME TypeOK, NEW c \in Calls
    PROVE  /\ Resp(c).allowed <=> ~ResponseVetoed(c)
           /\ Resp(c).redacted <=> ~\A i \in 1 .. 2 : ~responses[c][i].redacted
           /\ Resp(c).failedOpen => AnyFailedOpen(c)
           /\ Resp(c).bypass => AnyBypass(c)
  <1>1. responses[c][1] \in ResponseType /\ responses[c][2] \in ResponseType
    BY Types
  <1>3. ResponseVetoed(c) <=> ~responses[c][1].allowed \/ ~responses[c][2].allowed
    BY DEF ResponseVetoed
  <1>4. (\A i \in 1 .. 2 : ~responses[c][i].redacted) <=>
            ~responses[c][1].redacted /\ ~responses[c][2].redacted
    OBVIOUS
  <1>5. /\ Resp(c).allowed <=> responses[c][1].allowed /\ responses[c][2].allowed
        /\ Resp(c).redacted <=> responses[c][1].redacted \/ responses[c][2].redacted
        /\ Resp(c).failedOpen <=> responses[c][1].failedOpen \/ responses[c][2].failedOpen
        /\ Resp(c).bypass <=> responses[c][1].bypass \/ responses[c][2].bypass
    BY <1>1, ResponseMerge, Zenon DEF Resp
  <1> QED
    BY <1>3, <1>4, <1>5, Zenon DEF AnyFailedOpen, AnyBypass

\* What the audit writer makes of an entry.
LEMMA Written ==
    ASSUME NEW e \in EntryType
    PROVE  /\ Write(e) \in EntryType \cup {Dropped}
           /\ Write(e) # NoEntry
           /\ Write(e) # Dropped => Write(e) = e /\ (filter = "deny_only" => e.action = "deny")
           /\ Write(e) = Dropped => filter = "deny_only" /\ e.action # "deny"
           /\ e # Dropped /\ e # NoEntry
  BY MarkersAssumption DEF Write

\* Entries are well formed.
LEMMA EntryIsTyped ==
    ASSUME NEW c \in Calls, NEW a \in {"allow", "deny", "redact"}, NEW rec \in Actions,
           NEW reason \in {"none", "request_policy", "response_policy", "audit_mode",
                           "fail_open", "async_completion"}
    PROVE  /\ Entry(c, a, rec, reason) \in EntryType
           /\ Entry(c, a, rec, reason).action = a
           /\ Entry(c, a, rec, reason).reason = reason
           /\ Entry(c, a, rec, reason).ai = Details(c)
  BY DEF Entry, EntryType, Details

\* The entry of an MCP call that passed tells its outcome.
LEMMA AllowedEntryTells ==
    ASSUME NEW c \in Calls, VerdictInv(c), ~Vetoed(c), ~ResponseVetoed(c)
    PROVE  /\ AllowedEntry(c) \in EntryType
           /\ EntryTells(c, AllowedEntry(c))
           /\ AllowedEntry(c).ai = Details(c)
  <1> DEFINE r == Handle(cel[c], ai[c])
  <1>1. /\ r.failedOpen => AnyFailedOpen(c)
        /\ r.bypass => AnyBypass(c)
        /\ r.recommended \in Actions
    BY RequestVerdict, Zenon
  <1> HIDE DEF r
  <1>2. PICK rec \in Actions, reason \in {"none", "audit_mode", "fail_open"} :
            /\ AllowedEntry(c) = Entry(c, "allow", rec, reason)
            /\ reason = "fail_open" => AnyFailedOpen(c)
            /\ reason = "audit_mode" => AnyBypass(c)
    <2>1. CASE r.failedOpen
      BY <1>1, <2>1 DEF AllowedEntry, r, Actions
    <2>2. CASE ~r.failedOpen /\ r.bypass
      BY <1>1, <2>2 DEF AllowedEntry, r, Actions
    <2>3. CASE ~r.failedOpen /\ ~r.bypass
      BY <1>1, <2>3 DEF AllowedEntry, r, Actions
    <2> QED
      BY <2>1, <2>2, <2>3
  <1>3. /\ Entry(c, "allow", rec, reason) \in EntryType
        /\ Entry(c, "allow", rec, reason).action = "allow"
        /\ Entry(c, "allow", rec, reason).reason = reason
        /\ Entry(c, "allow", rec, reason).ai = Details(c)
    BY EntryIsTyped
  <1> QED
    BY <1>2, <1>3 DEF EntryTells

\* The action of a REST entry is deny exactly when an engine denied.
LEMMA RESTActionTells ==
    ASSUME TypeOK, NEW c \in Calls, VerdictInv(c), surface[c] # "mcp"
    PROVE  /\ RESTAction(c) \in {"allow", "deny", "redact"}
           /\ RESTAction(c) = "deny" <=> Vetoed(c) \/ ResponseVetoed(c)
           /\ RESTAction(c) = "redact" =>
                 surface[c] = "response" /\ Resp(c).redacted /\ ~ResponseVetoed(c)
  <1>1. surface[c] = "response" => ~Vetoed(c)
    BY NothingIsResult DEF VerdictInv, Vetoed
  <1>2. surface[c] # "response" => ~ResponseVetoed(c)
    <2> SUFFICES ASSUME surface[c] # "response" PROVE ~ResponseVetoed(c)
      OBVIOUS
    <2>1. \A i \in 1 .. 2 : responses[c][i] = Untouched
      BY DEF VerdictInv, Unfiltered
    <2> QED
      BY <2>1, UntouchedIsResponse DEF ResponseVetoed
  <1>3. RESTResults(c).allowed <=> ~Vetoed(c)
    BY RequestVerdict
  <1>4. Resp(c).allowed <=> ~ResponseVetoed(c)
    BY ResponseVerdict
  <1> QED
    BY <1>1, <1>2, <1>3, <1>4 DEF RESTAction

\* The entry of a REST request tells its outcome.
LEMMA RESTEntryTells ==
    ASSUME TypeOK, NEW c \in Calls, VerdictInv(c), tool[c] = "no",
           NEW r, NEW denyReason,
           \/ /\ surface[c] \in {"cli", "intercept", "shell"}
              /\ r = RESTResults(c) /\ denyReason \in {"none", "request_policy"}
           \/ surface[c] = "response" /\ r = Resp(c) /\ denyReason = "response_policy",
           NEW e, e = Entry(c, RESTAction(c), "none", DeriveAuditActionReason(r, denyReason))
    PROVE  /\ e \in EntryType /\ EntryTells(c, e)
           /\ e.action = RESTAction(c) /\ e.ai = Details(c)
  <1> DEFINE reason == DeriveAuditActionReason(r, denyReason)
  <1>1. /\ RESTAction(c) \in {"allow", "deny", "redact"}
        /\ RESTAction(c) = "deny" <=> Vetoed(c) \/ ResponseVetoed(c)
        /\ RESTAction(c) = "redact" =>
              surface[c] = "response" /\ Resp(c).redacted /\ ~ResponseVetoed(c)
    BY RESTActionTells
  <1>2. /\ r.allowed <=> ~Vetoed(c) /\ ~ResponseVetoed(c)
        /\ r.failedOpen => AnyFailedOpen(c)
        /\ r.bypass => AnyBypass(c)
        /\ denyReason = "request_policy" /\ ~r.allowed => Vetoed(c)
        /\ denyReason = "response_policy" => ~Vetoed(c)
    <2>1. /\ RESTResults(c).allowed <=> ~Vetoed(c)
          /\ RESTResults(c).failedOpen => AnyFailedOpen(c)
          /\ RESTResults(c).bypass => AnyBypass(c)
      BY RequestVerdict
    <2>2. /\ Resp(c).allowed <=> ~ResponseVetoed(c)
          /\ Resp(c).failedOpen => AnyFailedOpen(c)
          /\ Resp(c).bypass => AnyBypass(c)
      BY ResponseVerdict
    <2>3. surface[c] = "response" => ~Vetoed(c)
      BY NothingIsResult DEF VerdictInv, Vetoed
    <2>4. surface[c] # "response" => ~ResponseVetoed(c)
      <3> SUFFICES ASSUME surface[c] # "response" PROVE ~ResponseVetoed(c)
        OBVIOUS
      <3>1. \A i \in 1 .. 2 : responses[c][i] = Untouched
        BY DEF VerdictInv, Unfiltered
      <3> QED
        BY <3>1, UntouchedIsResponse DEF ResponseVetoed
    <2> QED
      BY <2>1, <2>2, <2>3, <2>4
  <1>3. /\ reason \in {"none", "request_policy", "response_policy", "audit_mode", "fail_open"}
        /\ reason = "request_policy" => Vetoed(c)
        /\ reason = "response_policy" => ResponseVetoed(c) /\ ~Vetoed(c)
        /\ reason = "fail_open" => ~Vetoed(c) /\ ~ResponseVetoed(c) /\ AnyFailedOpen(c)
        /\ reason = "audit_mode" => ~Vetoed(c) /\ ~ResponseVetoed(c) /\ AnyBypass(c)
    BY <1>2 DEF DeriveAuditActionReason
  <1> HIDE DEF reason
  <1>4. /\ Entry(c, RESTAction(c), "none", reason) \in EntryType
        /\ Entry(c, RESTAction(c), "none", reason).action = RESTAction(c)
        /\ Entry(c, RESTAction(c), "none", reason).reason = reason
        /\ Entry(c, RESTAction(c), "none", reason).ai = Details(c)
    BY <1>1, <1>3, EntryIsTyped DEF Actions
  <1>5. e = Entry(c, RESTAction(c), "none", reason)
    BY DEF reason
  <1> QED
    BY <1>1, <1>3, <1>4, <1>5 DEF EntryTells
-----------------------------------------------------------------------------
(* A step of one request leaves the invariant of the others alone. *)

\* The verdicts on request d stand.
SameVerdicts(d) ==
    /\ surface'[d] = surface[d] /\ cel'[d] = cel[d] /\ ai'[d] = ai[d]
    /\ second'[d] = second[d] /\ responses'[d] = responses[d]

\* Nothing of request d changes.
Same(d) ==
    /\ SameVerdicts(d) /\ filter' = filter
    /\ pc'[d] = pc[d] /\ aiState'[d] = aiState[d]
    /\ tool'[d] = tool[d] /\ answer'[d] = answer[d] /\ wrapper'[d] = wrapper[d]
    /\ queued'[d] = queued[d] /\ log'[d] = log[d]
    /\ watcher'[d] = watcher[d] /\ late'[d] = late[d]

\* Only request c changes.
Only(c) == \A d \in Calls \ {c} : Same(d)

\* What follows from the verdicts stands with them.
LEMMA VerdictsStand ==
    ASSUME NEW d \in Calls, SameVerdicts(d)
    PROVE  /\ Vetoed(d)' <=> Vetoed(d)
           /\ ResponseVetoed(d)' <=> ResponseVetoed(d)
           /\ AnyFailedOpen(d)' <=> AnyFailedOpen(d)
           /\ AnyBypass(d)' <=> AnyBypass(d)
           /\ Resp(d)' = Resp(d)
           /\ buildResponseResult(d)' = buildResponseResult(d)
           /\ RESTAction(d)' = RESTAction(d)
  <1>1. /\ Vetoed(d)' <=> Vetoed(d)
        /\ ResponseVetoed(d)' <=> ResponseVetoed(d)
        /\ AnyFailedOpen(d)' <=> AnyFailedOpen(d)
        /\ AnyBypass(d)' <=> AnyBypass(d)
    BY DEF SameVerdicts, Vetoed, ResponseVetoed, AnyFailedOpen, AnyBypass
  <1>2. Resp(d)' = Resp(d) /\ RESTResults(d)' = RESTResults(d)
    BY DEF SameVerdicts, Resp, RESTResults
  <1> QED
    BY <1>1, <1>2 DEF SameVerdicts, buildResponseResult, RESTAction

\* A request of which nothing changes keeps its invariant.
LEMMA Frame ==
    ASSUME NEW d \in Calls, CallInv(d), Same(d)
    PROVE  CallInv(d)'
  <1>0. /\ Vetoed(d)' <=> Vetoed(d)
        /\ ResponseVetoed(d)' <=> ResponseVetoed(d)
        /\ AnyFailedOpen(d)' <=> AnyFailedOpen(d)
        /\ AnyBypass(d)' <=> AnyBypass(d)
        /\ Resp(d)' = Resp(d)
        /\ buildResponseResult(d)' = buildResponseResult(d)
        /\ RESTAction(d)' = RESTAction(d)
    BY VerdictsStand DEF Same
  <1> USE DEF CallInv, Same, SameVerdicts
  <1>1. VerdictInv(d)'
    BY DEF VerdictInv
  <1>2. PlaceInv(d)'
    BY <1>0 DEF PlaceInv, Unlogged
  <1>3. AnswerInv(d)'
    BY <1>0 DEF AnswerInv, Unlogged
  <1>4. EntryInv(d)'
    BY <1>0 DEF EntryInv, EntryTells, Logged, Refused
  <1>5. RecordInv(d)'
    BY <1>0 DEF RecordInv, Logged, HasAsyncWork, Completions, Details, mergeAsyncCompletions
  <1> QED
    BY <1>1, <1>2, <1>3, <1>4, <1>5

\* It is enough to look at the request that moves.
LEMMA OneCall ==
    ASSUME IInv, NEW c \in Calls, TypeOK', CallInv(c)', Only(c)
    PROVE  IInv'
  <1>1. ASSUME NEW d \in Calls, d # c PROVE CallInv(d)'
    BY <1>1, Frame DEF IInv, Only
  <1> QED
    BY <1>1 DEF IInv
-----------------------------------------------------------------------------
(* The invariant of a request around its audit entries. *)

\* As long as nothing is queued or written, and the caller was not refused,
\* the invariants of the entries hold.
LEMMA UnloggedStands ==
    ASSUME NEW c \in Calls, Unlogged(c)', ~(pc[c] = "done" /\ Refused(c))'
    PROVE  EntryInv(c)' /\ RecordInv(c)'
  BY MarkersAssumption DEF Unlogged, EntryInv, RecordInv, Logged

\* writeAuditLog at the end of an MCP call.
LEMMA QueueOrWrite ==
    ASSUME IInv, NEW c \in Calls, NEW e \in EntryType, EntryTells(c, e), e.ai = Details(c),
           surface[c] = "mcp", Unlogged(c), SameVerdicts(c), pc'[c] = "done",
           writeAuditLog(c, e), UNCHANGED <<filter, aiState, tool, watcher, late>>
    PROVE  /\ queued' \in [Calls -> EntryType \cup {NoEntry}]
           /\ log' \in [Calls -> EntryType \cup {NoEntry, Dropped}]
           /\ \A d \in Calls \ {c} : queued'[d] = queued[d] /\ log'[d] = log[d]
           /\ EntryInv(c)' /\ RecordInv(c)'
  <1>0. /\ queued \in [Calls -> EntryType \cup {NoEntry}]
        /\ log \in [Calls -> EntryType \cup {NoEntry, Dropped}]
        /\ aiState \in [Calls -> [Phases -> AIStates]]
    BY Types DEF IInv
  <1>1. /\ Write(e) \in EntryType \cup {Dropped} /\ Write(e) # NoEntry
        /\ Write(e) # Dropped => Write(e) = e /\ (filter = "deny_only" => e.action = "deny")
        /\ Write(e) = Dropped => e.action # "deny"
        /\ e # NoEntry /\ e # Dropped
    BY Written
  <1>2. /\ Vetoed(c)' <=> Vetoed(c)
        /\ ResponseVetoed(c)' <=> ResponseVetoed(c)
        /\ AnyFailedOpen(c)' <=> AnyFailedOpen(c)
        /\ AnyBypass(c)' <=> AnyBypass(c)
        /\ Resp(c)' = Resp(c)
    BY VerdictsStand
  <1>3. surface'[c] = "mcp" /\ watcher'[c] = "none" /\ late'[c] = NoEntry
    BY DEF SameVerdicts, Unlogged
  <1>4. CASE HasAsyncWork(c)
    <2>1. queued' = [queued EXCEPT ![c] = e] /\ log' = log
      BY <1>4 DEF writeAuditLog
    <2>2. queued'[c] = e /\ log'[c] = NoEntry
      BY <1>0, <2>1 DEF Unlogged
    <2>3. EntryInv(c)'
      BY <1>1, <1>2, <1>3, <2>2, MarkersAssumption DEF EntryInv, EntryTells, Logged, SameVerdicts
    <2>4. RecordInv(c)'
      BY <1>3, <2>2 DEF RecordInv, Logged
    <2> QED
      BY <1>0, <2>1, <2>3, <2>4
  <1>5. CASE ~HasAsyncWork(c)
    <2>1. log' = [log EXCEPT ![c] = Write(e)] /\ queued' = queued
      BY <1>5 DEF writeAuditLog
    <2>2. log'[c] = Write(e) /\ queued'[c] = NoEntry
      BY <1>0, <2>1 DEF Unlogged
    <2>3. EntryInv(c)'
      BY <1>1, <1>2, <1>3, <2>2, MarkersAssumption DEF EntryInv, EntryTells, Logged, SameVerdicts
    <2>4. RecordInv(c)'
      <3>1. \A p \in Phases : aiState[c][p] \in {"none", "sync"}
        BY <1>0, <1>5 DEF HasAsyncWork, AIStates
      <3>2. Details(c) = {p \in Phases : aiState[c][p] # "none"}
        BY <3>1 DEF Details
      <3> QED
        BY <1>1, <1>3, <2>2, <3>1, <3>2 DEF RecordInv, Logged
    <2> QED
      BY <1>0, <1>1, <2>1, <2>3, <2>4
  <1> QED
    BY <1>4, <1>5

\* The entry of a REST request, and whether a goroutine waits for the rest.
LEMMA RESTWrite ==
    ASSUME IInv, NEW c \in Calls, NEW e \in EntryType, EntryTells(c, e), e.ai = Details(c),
           HasAsyncWork(c) => e.action = RESTAction(c),
           surface[c] # "mcp", Unlogged(c), SameVerdicts(c), pc'[c] \in {"answer", "done"},
           log' = [log EXCEPT ![c] = Write(e)],
           watcher' = [watcher EXCEPT ![c] = IF HasAsyncWork(c) THEN "waiting" ELSE "none"],
           UNCHANGED <<filter, aiState, tool, queued, late>>
    PROVE  /\ log' \in [Calls -> EntryType \cup {NoEntry, Dropped}]
           /\ watcher' \in [Calls -> {"none", "waiting", "written", "timeout"}]
           /\ \A d \in Calls \ {c} : log'[d] = log[d] /\ watcher'[d] = watcher[d]
           /\ log'[c] # NoEntry
           /\ EntryInv(c)' /\ RecordInv(c)'
  <1>0. /\ log \in [Calls -> EntryType \cup {NoEntry, Dropped}]
        /\ watcher \in [Calls -> {"none", "waiting", "written", "timeout"}]
    BY Types DEF IInv
  <1>1. /\ Write(e) \in EntryType \cup {Dropped} /\ Write(e) # NoEntry
        /\ Write(e) # Dropped => Write(e) = e /\ (filter = "deny_only" => e.action = "deny")
        /\ Write(e) = Dropped => filter = "deny_only" /\ e.action # "deny"
    BY Written
  <1>2. /\ Vetoed(c)' <=> Vetoed(c)
        /\ ResponseVetoed(c)' <=> ResponseVetoed(c)
        /\ AnyFailedOpen(c)' <=> AnyFailedOpen(c)
        /\ AnyBypass(c)' <=> AnyBypass(c)
        /\ Resp(c)' = Resp(c)
        /\ RESTAction(c)' = RESTAction(c)
    BY VerdictsStand
  <1>3. /\ log'[c] = Write(e) /\ queued'[c] = NoEntry /\ late'[c] = NoEntry
        /\ watcher'[c] = (IF HasAsyncWork(c) THEN "waiting" ELSE "none")
    BY <1>0 DEF Unlogged
  <1>4. surface'[c] = surface[c] /\ filter' = filter
    BY DEF SameVerdicts
  <1>5. EntryInv(c)'
    BY <1>1, <1>2, <1>3, <1>4, MarkersAssumption DEF EntryInv, EntryTells, Logged
  <1>6. HasAsyncWork(c)' = HasAsyncWork(c) /\ Details(c)' = Details(c)
    BY DEF HasAsyncWork, Details
  <1>7. RecordInv(c)'
    BY <1>1, <1>2, <1>3, <1>4, <1>6 DEF RecordInv, Logged
  <1> QED
    BY <1>0, <1>1, <1>3, <1>5, <1>7
-----------------------------------------------------------------------------
(* The handlers, up to the audit entry. *)

\* A request that is rejected: nothing has happened to it yet.
LEMMA RejectStep ==
    ASSUME IInv, NEW c \in Calls, NEW S, Reject(c, S)
    PROVE  IInv'
  <1> USE DEF Reject, At, Goto, Answer
  <1>0. TypeOK /\ CallInv(c)
    BY DEF IInv
  <1>1. TypeOK'
    BY <1>0, Types DEF TypeOK
  <1>2. Only(c)
    BY DEF Only, Same, SameVerdicts
  <1>3. VerdictInv(c)'
    BY <1>0, Types DEF CallInv, VerdictInv, PlaceInv
  <1>4. PlaceInv(c)'
    BY <1>0, Types DEF CallInv, PlaceInv, AnswerInv, Unlogged, Vetoed
  <1>5. AnswerInv(c)'
    BY <1>0, Types, NothingIsResult, UntouchedIsResponse DEF CallInv, AnswerInv, PlaceInv, VerdictInv, Unlogged, Vetoed, ResponseVetoed, Unfiltered
  <1>6. EntryInv(c)' /\ RecordInv(c)'
    <2>1. Unlogged(c)' /\ ~(pc[c] = "done" /\ Refused(c))'
      BY <1>0, Types DEF CallInv, PlaceInv, Unlogged, Refused
    <2> QED
      BY <2>1, UnloggedStands
  <1> QED
    BY <1>1, <1>2, <1>3, <1>4, <1>5, <1>6, OneCall DEF CallInv

\* The CEL engine returns.
LEMMA EvaluateCELStep ==
    ASSUME IInv, NEW c \in Calls, EvaluateCEL(c)
    PROVE  IInv'
  <1> USE DEF EvaluateCEL, At, Goto, Answer
  <1>0. TypeOK /\ CallInv(c)
    BY DEF IInv
  <1>1. TypeOK'
    BY <1>0, Types, EngineValues DEF TypeOK, EngineResult
  <1>2. Only(c)
    BY DEF Only, Same, SameVerdicts
  <1>3. VerdictInv(c)'
    BY <1>0, Types, EngineValues DEF CallInv, VerdictInv, PlaceInv
  <1>4. PlaceInv(c)'
    BY <1>0, Types DEF CallInv, PlaceInv, AnswerInv, Unlogged, Vetoed
  <1>5. AnswerInv(c)'
    BY <1>0, Types DEF CallInv, AnswerInv, PlaceInv, VerdictInv, Unlogged, Vetoed, ResponseVetoed
  <1>6. EntryInv(c)' /\ RecordInv(c)'
    <2>1. Unlogged(c)' /\ ~(pc[c] = "done" /\ Refused(c))'
      BY <1>0, Types DEF CallInv, PlaceInv, Unlogged, Refused
    <2> QED
      BY <2>1, UnloggedStands
  <1> QED
    BY <1>1, <1>2, <1>3, <1>4, <1>5, <1>6, OneCall DEF CallInv

\* The AI engine returns.
LEMMA EvaluateAIStep ==
    ASSUME IInv, NEW c \in Calls, EvaluateAI(c)
    PROVE  IInv'
  <1> USE DEF EvaluateAI, At, Goto, Answer, SetAI
  <1>0. TypeOK /\ CallInv(c)
    BY DEF IInv
  <1>a. PICK r \in AIResults, s \in {"none", "sync", "running"} :
            ai' = [ai EXCEPT ![c] = r] /\ aiState' = [aiState EXCEPT ![c]["request"] = s]
    OBVIOUS
  <1>b. EngineResult(r)
    BY EngineValues
  <1>c. /\ ai' \in [Calls -> ResultsType] /\ ai'[c] = r
        /\ aiState' \in [Calls -> [Phases -> AIStates]]
    BY <1>0, <1>a, <1>b, Types DEF EngineResult, AIStates, Phases
  <1>1. TypeOK'
    BY <1>0, <1>c, Types DEF TypeOK
  <1>2. Only(c)
    BY DEF Only, Same, SameVerdicts
  <1>3. VerdictInv(c)'
    <2>1. /\ pc[c] = "ai" /\ pc'[c] \in {"second", "decide"}
          /\ surface' = surface /\ cel' = cel /\ second' = second
          /\ responses' = responses /\ tool' = tool
      BY <1>0, Types
    <2>2. EngineResult(ai[c])'
      BY <1>b, <1>c
    <2>3. surface[c] # "response"
      BY <1>0 DEF CallInv, PlaceInv, VerdictInv
    <2> QED
      BY <1>0, <1>c, <2>1, <2>2, <2>3 DEF CallInv, VerdictInv
  <1>4. PlaceInv(c)'
    BY <1>0, Types DEF CallInv, PlaceInv, AnswerInv, Unlogged, Vetoed
  <1>5. AnswerInv(c)'
    BY <1>0, Types DEF CallInv, AnswerInv, PlaceInv, VerdictInv, Unlogged, Vetoed, ResponseVetoed
  <1>6. EntryInv(c)' /\ RecordInv(c)'
    <2>1. Unlogged(c)' /\ ~(pc[c] = "done" /\ Refused(c))'
      BY <1>0, Types DEF CallInv, PlaceInv, Unlogged, Refused
    <2> QED
      BY <2>1, UnloggedStands
  <1> QED
    BY <1>1, <1>2, <1>3, <1>4, <1>5, <1>6, OneCall DEF CallInv

\* The second evaluation of a shell tool returns.
LEMMA EvaluateSecondStep ==
    ASSUME IInv, NEW c \in Calls, EvaluateSecond(c)
    PROVE  IInv'
  <1> USE DEF EvaluateSecond, At, Goto, Answer, SetAI
  <1>0. TypeOK /\ CallInv(c)
    BY DEF IInv
  <1>a. PICK q \in CELResults, r \in AIResults, s \in {"none", "sync", "running"} :
            /\ second' = [second EXCEPT ![c] = Evaluate(q, r)]
            /\ aiState' = [aiState EXCEPT ![c]["second"] = s]
    OBVIOUS
  <1>b. EngineResult(Evaluate(q, r))
    BY EvaluateIsResult
  <1>c. /\ second' \in [Calls -> ResultsType] /\ second'[c] = Evaluate(q, r)
        /\ aiState' \in [Calls -> [Phases -> AIStates]]
    BY <1>0, <1>a, <1>b, Types DEF EngineResult, AIStates, Phases
  <1>1. TypeOK'
    BY <1>0, <1>c, Types DEF TypeOK
  <1>2. Only(c)
    BY DEF Only, Same, SameVerdicts
  <1>3. VerdictInv(c)'
    <2>1. /\ pc[c] = "second" /\ pc'[c] = "decide"
          /\ surface' = surface /\ cel' = cel /\ ai' = ai
          /\ responses' = responses /\ tool' = tool
      BY <1>0, Types
    <2>2. EngineResult(second[c])'
      BY <1>b, <1>c
    <2>3. surface[c] = "shell"
      BY <1>0 DEF CallInv, PlaceInv, VerdictInv
    <2> QED
      BY <1>0, <1>c, <2>1, <2>2, <2>3 DEF CallInv, VerdictInv
  <1>4. PlaceInv(c)'
    BY <1>0, Types DEF CallInv, PlaceInv, AnswerInv, Unlogged, Vetoed
  <1>5. AnswerInv(c)'
    BY <1>0, Types DEF CallInv, AnswerInv, PlaceInv, VerdictInv, Unlogged, Vetoed, ResponseVetoed
  <1>6. EntryInv(c)' /\ RecordInv(c)'
    <2>1. Unlogged(c)' /\ ~(pc[c] = "done" /\ Refused(c))'
      BY <1>0, Types DEF CallInv, PlaceInv, Unlogged, Refused
    <2> QED
      BY <2>1, UnloggedStands
  <1> QED
    BY <1>1, <1>2, <1>3, <1>4, <1>5, <1>6, OneCall DEF CallInv

\* No client: the call was not denied.
LEMMA NoClientStep ==
    ASSUME IInv, NEW c \in Calls, NoClient(c)
    PROVE  IInv'
  <1> USE DEF NoClient, At, Goto, Answer
  <1>0. TypeOK /\ CallInv(c)
    BY DEF IInv
  <1>1. TypeOK'
    BY <1>0, Types DEF TypeOK
  <1>2. Only(c)
    BY DEF Only, Same, SameVerdicts
  <1>3. VerdictInv(c)'
    BY <1>0, Types DEF CallInv, VerdictInv, PlaceInv
  <1>4. PlaceInv(c)'
    BY <1>0, Types, RequestVerdict DEF CallInv, PlaceInv, AnswerInv, Unlogged, Vetoed
  <1>5. AnswerInv(c)'
    BY <1>0, Types, RequestVerdict DEF CallInv, AnswerInv, PlaceInv, VerdictInv, Unlogged, Vetoed, ResponseVetoed
  <1>6. EntryInv(c)' /\ RecordInv(c)'
    <2>1. Unlogged(c)' /\ ~(pc[c] = "done" /\ Refused(c))'
      BY <1>0, Types DEF CallInv, PlaceInv, Unlogged, Refused
    <2> QED
      BY <2>1, UnloggedStands
  <1> QED
    BY <1>1, <1>2, <1>3, <1>4, <1>5, <1>6, OneCall DEF CallInv

\* The tool is called: the call was not denied.
LEMMA CallToolStep ==
    ASSUME IInv, NEW c \in Calls, CallTool(c)
    PROVE  IInv'
  <1> USE DEF CallTool, At, Goto, Answer
  <1>0. TypeOK /\ CallInv(c)
    BY DEF IInv
  <1>1. TypeOK'
    BY <1>0, Types DEF TypeOK
  <1>2. Only(c)
    BY DEF Only, Same, SameVerdicts
  <1>3. VerdictInv(c)'
    BY <1>0, Types DEF CallInv, VerdictInv, PlaceInv
  <1>4. PlaceInv(c)'
    BY <1>0, Types, RequestVerdict DEF CallInv, PlaceInv, AnswerInv, Unlogged, Vetoed
  <1>5. AnswerInv(c)'
    BY <1>0, Types, RequestVerdict DEF CallInv, AnswerInv, PlaceInv, VerdictInv, Unlogged, Vetoed, ResponseVetoed
  <1>6. EntryInv(c)' /\ RecordInv(c)'
    <2>1. Unlogged(c)' /\ ~(pc[c] = "done" /\ Refused(c))'
      BY <1>0, Types DEF CallInv, PlaceInv, Unlogged, Refused
    <2> QED
      BY <2>1, UnloggedStands
  <1> QED
    BY <1>1, <1>2, <1>3, <1>4, <1>5, <1>6, OneCall DEF CallInv

\* The tool fails.
LEMMA ToolFailsStep ==
    ASSUME IInv, NEW c \in Calls, ToolFails(c)
    PROVE  IInv'
  <1> USE DEF ToolFails, At, Goto, Answer
  <1>0. TypeOK /\ CallInv(c)
    BY DEF IInv
  <1>1. TypeOK'
    BY <1>0, Types DEF TypeOK
  <1>2. Only(c)
    BY DEF Only, Same, SameVerdicts
  <1>3. VerdictInv(c)'
    BY <1>0, Types DEF CallInv, VerdictInv, PlaceInv
  <1>4. PlaceInv(c)'
    BY <1>0, Types DEF CallInv, PlaceInv, AnswerInv, Unlogged, Vetoed
  <1>5. AnswerInv(c)'
    BY <1>0, Types DEF CallInv, AnswerInv, PlaceInv, VerdictInv, Unlogged, Vetoed, ResponseVetoed
  <1>6. EntryInv(c)' /\ RecordInv(c)'
    <2>1. Unlogged(c)' /\ ~(pc[c] = "done" /\ Refused(c))'
      BY <1>0, Types DEF CallInv, PlaceInv, Unlogged, Refused
    <2> QED
      BY <2>1, UnloggedStands
  <1> QED
    BY <1>1, <1>2, <1>3, <1>4, <1>5, <1>6, OneCall DEF CallInv

\* The response engines return.
LEMMA ResponsePhaseTyped ==
    ASSUME TypeOK, NEW c \in Calls, ResponsePhase(c)
    PROVE  /\ responses' \in [Calls -> ResponseType \X ResponseType]
           /\ aiState' \in [Calls -> [Phases -> AIStates]]
           /\ \A d \in Calls \ {c} : responses'[d] = responses[d] /\ aiState'[d] = aiState[d]
  <1>1. PICK q \in CELResponses, r \in AIResponses, s \in {"none", "sync", "running"} :
            /\ responses' = [responses EXCEPT ![c] = <<q, r>>]
            /\ aiState' = [aiState EXCEPT ![c]["response"] = s]
    BY DEF ResponsePhase, SetAI
  <1>2. q \in ResponseType /\ r \in ResponseType
    BY DEF CELResponses, AIResponses
  <1> QED
    BY <1>1, <1>2, Types DEF AIStates, Phases

\* The tool answers, and the response engines return.
LEMMA ToolAnswersStep ==
    ASSUME IInv, NEW c \in Calls, ToolAnswers(c)
    PROVE  IInv'
  <1> USE DEF ToolAnswers, At, Goto, Answer, ResponsePhase, SetAI
  <1>0. TypeOK /\ CallInv(c)
    BY DEF IInv
  <1>a. /\ responses' \in [Calls -> ResponseType \X ResponseType]
        /\ aiState' \in [Calls -> [Phases -> AIStates]]
        /\ \A d \in Calls \ {c} : responses'[d] = responses[d] /\ aiState'[d] = aiState[d]
    <2>1. CASE ResponsePhase(c)
      BY <1>0, <2>1, ResponsePhaseTyped
    <2>2. CASE UNCHANGED <<responses, aiState>>
      BY <1>0, <2>2, Types
    <2> QED
      BY <2>1, <2>2
  <1>1. TypeOK'
    BY <1>0, <1>a, Types DEF TypeOK
  <1>2. Only(c)
    BY <1>0, <1>a, Types DEF Only, Same, SameVerdicts
  <1>3. VerdictInv(c)'
    BY <1>0, Types DEF CallInv, VerdictInv, PlaceInv
  <1>4. PlaceInv(c)'
    BY <1>0, Types DEF CallInv, PlaceInv, AnswerInv, Unlogged, Vetoed
  <1>5. AnswerInv(c)'
    BY <1>0, Types DEF CallInv, AnswerInv, PlaceInv, VerdictInv, Unlogged, Vetoed, ResponseVetoed
  <1>6. EntryInv(c)' /\ RecordInv(c)'
    <2>1. Unlogged(c)' /\ ~(pc[c] = "done" /\ Refused(c))'
      BY <1>0, Types DEF CallInv, PlaceInv, Unlogged, Refused
    <2> QED
      BY <2>1, UnloggedStands
  <1> QED
    BY <1>1, <1>2, <1>3, <1>4, <1>5, <1>6, OneCall DEF CallInv

\* A command that is not checked is allowed.
LEMMA AnswerUncheckedStep ==
    ASSUME IInv, NEW c \in Calls, AnswerUnchecked(c)
    PROVE  IInv'
  <1> USE DEF AnswerUnchecked, At, Goto, Answer
  <1>0. TypeOK /\ CallInv(c)
    BY DEF IInv
  <1>1. TypeOK'
    BY <1>0, Types DEF TypeOK
  <1>2. Only(c)
    BY DEF Only, Same, SameVerdicts
  <1>3. VerdictInv(c)'
    BY <1>0, Types DEF CallInv, VerdictInv, PlaceInv
  <1>4. PlaceInv(c)'
    BY <1>0, Types DEF CallInv, PlaceInv, AnswerInv, Unlogged, Vetoed
  <1>5. AnswerInv(c)'
    BY <1>0, Types, NothingIsResult, UntouchedIsResponse DEF CallInv, AnswerInv, PlaceInv, VerdictInv, Unlogged, Vetoed, ResponseVetoed, Unfiltered
  <1>6. EntryInv(c)' /\ RecordInv(c)'
    <2>1. Unlogged(c)' /\ ~(pc[c] = "done" /\ Refused(c))'
      BY <1>0, Types DEF CallInv, PlaceInv, Unlogged, Refused
    <2> QED
      BY <2>1, UnloggedStands
  <1> QED
    BY <1>1, <1>2, <1>3, <1>4, <1>5, <1>6, OneCall DEF CallInv

\* The CLI endpoint answers.
LEMMA AnswerCLIStep ==
    ASSUME IInv, NEW c \in Calls, AnswerCLI(c)
    PROVE  IInv'
  <1> USE DEF AnswerCLI, At, Goto, Answer, RESTAnswer
  <1>0. TypeOK /\ CallInv(c)
    BY DEF IInv
  <1>1. TypeOK'
    BY <1>0, Types DEF TypeOK
  <1>2. Only(c)
    BY DEF Only, Same, SameVerdicts
  <1>3. VerdictInv(c)'
    BY <1>0, Types DEF CallInv, VerdictInv, PlaceInv
  <1>4. PlaceInv(c)'
    BY <1>0, Types, RequestVerdict DEF CallInv, PlaceInv, AnswerInv, Unlogged, Vetoed
  <1>5. AnswerInv(c)'
    BY <1>0, Types, RequestVerdict DEF CallInv, AnswerInv, PlaceInv, VerdictInv, Unlogged, Vetoed, ResponseVetoed
  <1>6. EntryInv(c)' /\ RecordInv(c)'
    <2>1. Unlogged(c)' /\ ~(pc[c] = "done" /\ Refused(c))'
      BY <1>0, Types DEF CallInv, PlaceInv, Unlogged, Refused
    <2> QED
      BY <2>1, UnloggedStands
  <1> QED
    BY <1>1, <1>2, <1>3, <1>4, <1>5, <1>6, OneCall DEF CallInv

\* A response passes unchecked.
LEMMA PassResponseStep ==
    ASSUME IInv, NEW c \in Calls, PassResponse(c)
    PROVE  IInv'
  <1> USE DEF PassResponse, At, Goto, Answer
  <1>0. TypeOK /\ CallInv(c)
    BY DEF IInv
  <1>1. TypeOK'
    BY <1>0, Types DEF TypeOK
  <1>2. Only(c)
    BY DEF Only, Same, SameVerdicts
  <1>3. VerdictInv(c)'
    BY <1>0, Types DEF CallInv, VerdictInv, PlaceInv
  <1>4. PlaceInv(c)'
    BY <1>0, Types DEF CallInv, PlaceInv, AnswerInv, Unlogged, Vetoed
  <1>5. AnswerInv(c)'
    BY <1>0, Types, NothingIsResult, UntouchedIsResponse DEF CallInv, AnswerInv, PlaceInv, VerdictInv, Unlogged, Vetoed, ResponseVetoed, Unfiltered
  <1>6. EntryInv(c)' /\ RecordInv(c)'
    <2>1. Unlogged(c)' /\ ~(pc[c] = "done" /\ Refused(c))'
      BY <1>0, Types DEF CallInv, PlaceInv, Unlogged, Refused
    <2> QED
      BY <2>1, UnloggedStands
  <1> QED
    BY <1>1, <1>2, <1>3, <1>4, <1>5, <1>6, OneCall DEF CallInv

\* The response engines of the intercept endpoint return.
LEMMA EvaluateResponseStep ==
    ASSUME IInv, NEW c \in Calls, EvaluateResponse(c)
    PROVE  IInv'
  <1> USE DEF EvaluateResponse, At, Goto, Answer, ResponsePhase, SetAI
  <1>0. TypeOK /\ CallInv(c)
    BY DEF IInv
  <1>a. /\ responses' \in [Calls -> ResponseType \X ResponseType]
        /\ aiState' \in [Calls -> [Phases -> AIStates]]
        /\ \A d \in Calls \ {c} : responses'[d] = responses[d] /\ aiState'[d] = aiState[d]
    BY <1>0, ResponsePhaseTyped
  <1>1. TypeOK'
    BY <1>0, <1>a, Types DEF TypeOK
  <1>2. Only(c)
    BY DEF Only, Same, SameVerdicts
  <1>3. VerdictInv(c)'
    BY <1>0, Types DEF CallInv, VerdictInv, PlaceInv
  <1>4. PlaceInv(c)'
    BY <1>0, Types DEF CallInv, PlaceInv, AnswerInv, Unlogged, Vetoed
  <1>5. AnswerInv(c)'
    BY <1>0, Types DEF CallInv, AnswerInv, PlaceInv, VerdictInv, Unlogged, Vetoed, ResponseVetoed
  <1>6. EntryInv(c)' /\ RecordInv(c)'
    <2>1. Unlogged(c)' /\ ~(pc[c] = "done" /\ Refused(c))'
      BY <1>0, Types DEF CallInv, PlaceInv, Unlogged, Refused
    <2> QED
      BY <2>1, UnloggedStands
  <1> QED
    BY <1>1, <1>2, <1>3, <1>4, <1>5, <1>6, OneCall DEF CallInv
-----------------------------------------------------------------------------
(* The handlers that write an audit entry, and the answers after it. *)

\* The call is denied: neither tool nor caller hears of it but as a denial.
LEMMA DenyToolCallStep ==
    ASSUME IInv, NEW c \in Calls, DenyToolCall(c)
    PROVE  IInv'
  <1> DEFINE e == Entry(c, "deny", "deny", "request_policy")
  <1> USE DEF DenyToolCall, At, Goto, Answer
  <1>0. TypeOK /\ CallInv(c) /\ VerdictInv(c)
    BY DEF IInv, CallInv
  <1>a. /\ surface[c] = "mcp" /\ Unlogged(c) /\ tool[c] = "no" /\ Vetoed(c)
        /\ pc'[c] = "done" /\ SameVerdicts(c)
    BY <1>0, RequestVerdict, Types DEF CallInv, PlaceInv, SameVerdicts
  <1>b. e \in EntryType /\ EntryTells(c, e) /\ e.ai = Details(c)
    BY <1>0, <1>a, EntryIsTyped DEF EntryTells, Actions
  <1>c. writeAuditLog(c, e)
    OBVIOUS
  <1> HIDE DEF e
  <1>d. /\ queued' \in [Calls -> EntryType \cup {NoEntry}]
        /\ log' \in [Calls -> EntryType \cup {NoEntry, Dropped}]
        /\ \A d \in Calls \ {c} : queued'[d] = queued[d] /\ log'[d] = log[d]
        /\ EntryInv(c)' /\ RecordInv(c)'
    BY <1>a, <1>b, <1>c, QueueOrWrite
  <1>1. TypeOK'
    BY <1>0, <1>d, Types DEF TypeOK
  <1>2. Only(c)
    BY <1>0, <1>d, Types DEF Only, Same, SameVerdicts
  <1>3. VerdictInv(c)'
    BY <1>0, Types DEF CallInv, VerdictInv
  <1>4. PlaceInv(c)'
    BY <1>0, Types DEF CallInv, PlaceInv, Vetoed
  <1>5. AnswerInv(c)'
    BY <1>0, <1>a, RequestVerdict, Types DEF CallInv, AnswerInv, PlaceInv, VerdictInv, Vetoed, ResponseVetoed
  <1> QED
    BY <1>1, <1>2, <1>3, <1>4, <1>5, <1>d, OneCall DEF CallInv

\* The tool's answer is denied.
LEMMA DenyResponseStep ==
    ASSUME IInv, NEW c \in Calls, DenyResponse(c)
    PROVE  IInv'
  <1> DEFINE e == Entry(c, "deny", "deny", "response_policy")
  <1> USE DEF DenyResponse, At, Goto, Answer
  <1>0. TypeOK /\ CallInv(c) /\ VerdictInv(c)
    BY DEF IInv, CallInv
  <1>a. /\ surface[c] = "mcp" /\ Unlogged(c) /\ ~Vetoed(c) /\ ResponseVetoed(c)
        /\ pc'[c] = "done" /\ SameVerdicts(c)
    BY <1>0, ResponseVerdict, Types DEF CallInv, PlaceInv, SameVerdicts
  <1>b. e \in EntryType /\ EntryTells(c, e) /\ e.ai = Details(c)
    BY <1>0, <1>a, EntryIsTyped DEF EntryTells, Actions
  <1>c. writeAuditLog(c, e)
    OBVIOUS
  <1> HIDE DEF e
  <1>d. /\ queued' \in [Calls -> EntryType \cup {NoEntry}]
        /\ log' \in [Calls -> EntryType \cup {NoEntry, Dropped}]
        /\ \A d \in Calls \ {c} : queued'[d] = queued[d] /\ log'[d] = log[d]
        /\ EntryInv(c)' /\ RecordInv(c)'
    BY <1>a, <1>b, <1>c, QueueOrWrite
  <1>1. TypeOK'
    BY <1>0, <1>d, Types DEF TypeOK
  <1>2. Only(c)
    BY <1>0, <1>d, Types DEF Only, Same, SameVerdicts
  <1>3. VerdictInv(c)'
    BY <1>0, Types DEF CallInv, VerdictInv
  <1>4. PlaceInv(c)'
    BY <1>0, Types DEF CallInv, PlaceInv, Vetoed
  <1>5. AnswerInv(c)'
    BY <1>0, <1>a, ResponseVerdict, Types DEF CallInv, AnswerInv, PlaceInv, VerdictInv, Vetoed, ResponseVetoed
  <1> QED
    BY <1>1, <1>2, <1>3, <1>4, <1>5, <1>d, OneCall DEF CallInv

\* The tool's answer passes.
LEMMA ReturnResultStep ==
    ASSUME IInv, NEW c \in Calls, ReturnResult(c)
    PROVE  IInv'
  <1> DEFINE e == AllowedEntry(c)
  <1> USE DEF ReturnResult, At, Goto, Answer
  <1>0. TypeOK /\ CallInv(c) /\ VerdictInv(c)
    BY DEF IInv, CallInv
  <1>a. /\ surface[c] = "mcp" /\ Unlogged(c) /\ ~Vetoed(c) /\ ~ResponseVetoed(c)
        /\ pc'[c] = "done" /\ SameVerdicts(c)
    BY <1>0, ResponseVerdict, Types DEF CallInv, PlaceInv, SameVerdicts
  <1>b. e \in EntryType /\ EntryTells(c, e) /\ e.ai = Details(c)
    BY <1>0, <1>a, AllowedEntryTells
  <1>c. writeAuditLog(c, e)
    OBVIOUS
  <1> HIDE DEF e
  <1>d. /\ queued' \in [Calls -> EntryType \cup {NoEntry}]
        /\ log' \in [Calls -> EntryType \cup {NoEntry, Dropped}]
        /\ \A d \in Calls \ {c} : queued'[d] = queued[d] /\ log'[d] = log[d]
        /\ EntryInv(c)' /\ RecordInv(c)'
    BY <1>a, <1>b, <1>c, QueueOrWrite
  <1>1. TypeOK'
    BY <1>0, <1>d, Types DEF TypeOK
  <1>2. Only(c)
    BY <1>0, <1>d, Types DEF Only, Same, SameVerdicts
  <1>3. VerdictInv(c)'
    BY <1>0, Types DEF CallInv, VerdictInv
  <1>4. PlaceInv(c)'
    BY <1>0, Types DEF CallInv, PlaceInv, Vetoed
  <1>5. AnswerInv(c)'
    BY <1>0, <1>a, ResponseVerdict, Types DEF CallInv, AnswerInv, PlaceInv, VerdictInv, Vetoed, ResponseVetoed
  <1> QED
    BY <1>1, <1>2, <1>3, <1>4, <1>5, <1>d, OneCall DEF CallInv

\* The CLI endpoint has answered and writes its entry.
LEMMA AuditCLIStep ==
    ASSUME IInv, NEW c \in Calls, AuditCLI(c)
    PROVE  IInv'
  <1> DEFINE e == Entry(c, RESTAction(c), "none", DeriveAuditActionReason(RESTResults(c), "none"))
  <1> USE DEF AuditCLI, At, Goto, Answer
  <1>0. TypeOK /\ CallInv(c) /\ VerdictInv(c)
    BY DEF IInv, CallInv
  <1>a. /\ surface[c] \in {"cli"} /\ Unlogged(c) /\ tool[c] = "no"
        /\ pc'[c] = "done" /\ SameVerdicts(c)
    BY <1>0, Types DEF CallInv, PlaceInv, SameVerdicts
  <1>b. e \in EntryType /\ EntryTells(c, e) /\ e.ai = Details(c) /\ e.action = RESTAction(c)
    BY <1>0, <1>a, RESTEntryTells
  <1>c. /\ log' = [log EXCEPT ![c] = Write(e)]
        /\ watcher' = [watcher EXCEPT ![c] = IF HasAsyncWork(c) THEN "waiting" ELSE "none"]
        /\ UNCHANGED <<wrapper, answer, filter, surface, cel, ai, second, responses,
                       aiState, tool, queued, late, stop>>
        /\ pc' = [pc EXCEPT ![c] = "done"]
    BY DEF RESTAudit
  <1> HIDE DEF e, AuditCLI
  <1>d. /\ log' \in [Calls -> EntryType \cup {NoEntry, Dropped}]
        /\ watcher' \in [Calls -> {"none", "waiting", "written", "timeout"}]
        /\ \A d \in Calls \ {c} : log'[d] = log[d] /\ watcher'[d] = watcher[d]
        /\ log'[c] # NoEntry
        /\ EntryInv(c)' /\ RecordInv(c)'
    BY <1>a, <1>b, <1>c, RESTWrite
  <1>1. TypeOK'
    BY <1>0, <1>c, <1>d, Types DEF TypeOK
  <1>2. Only(c)
    BY <1>0, <1>c, <1>d, Types DEF Only, Same, SameVerdicts
  <1>3. VerdictInv(c)'
    BY <1>0, <1>a, <1>c, Types DEF CallInv, VerdictInv
  <1>4. PlaceInv(c)'
    BY <1>0, <1>a, <1>c, <1>d, Types DEF AuditCLI, CallInv, PlaceInv, Vetoed, Unlogged
  <1>5. AnswerInv(c)'
    BY <1>0, <1>a, <1>c, Types DEF AuditCLI, CallInv, AnswerInv, PlaceInv, Unlogged, Vetoed, ResponseVetoed
  <1> QED
    BY <1>1, <1>2, <1>3, <1>4, <1>5, <1>d, OneCall DEF CallInv

\* The intercept endpoint writes the entry of a request first.
LEMMA AuditInterceptStep ==
    ASSUME IInv, NEW c \in Calls, AuditIntercept(c)
    PROVE  IInv'
  <1> DEFINE e == Entry(c, RESTAction(c), "none", DeriveAuditActionReason(RESTResults(c), "request_policy"))
  <1> USE DEF AuditIntercept, At, Goto, Answer
  <1>0. TypeOK /\ CallInv(c) /\ VerdictInv(c)
    BY DEF IInv, CallInv
  <1>a. /\ surface[c] \in {"intercept", "shell"} /\ Unlogged(c) /\ tool[c] = "no"
        /\ pc'[c] = "answer" /\ SameVerdicts(c)
    BY <1>0, Types DEF CallInv, PlaceInv, SameVerdicts
  <1>b. e \in EntryType /\ EntryTells(c, e) /\ e.ai = Details(c) /\ e.action = RESTAction(c)
    BY <1>0, <1>a, RESTEntryTells
  <1>c. /\ log' = [log EXCEPT ![c] = Write(e)]
        /\ watcher' = [watcher EXCEPT ![c] = IF HasAsyncWork(c) THEN "waiting" ELSE "none"]
        /\ UNCHANGED <<wrapper, answer, filter, surface, cel, ai, second, responses,
                       aiState, tool, queued, late, stop>>
        /\ pc' = [pc EXCEPT ![c] = "answer"]
    BY DEF RESTAudit
  <1> HIDE DEF e, AuditIntercept
  <1>d. /\ log' \in [Calls -> EntryType \cup {NoEntry, Dropped}]
        /\ watcher' \in [Calls -> {"none", "waiting", "written", "timeout"}]
        /\ \A d \in Calls \ {c} : log'[d] = log[d] /\ watcher'[d] = watcher[d]
        /\ log'[c] # NoEntry
        /\ EntryInv(c)' /\ RecordInv(c)'
    BY <1>a, <1>b, <1>c, RESTWrite
  <1>1. TypeOK'
    BY <1>0, <1>c, <1>d, Types DEF TypeOK
  <1>2. Only(c)
    BY <1>0, <1>c, <1>d, Types DEF Only, Same, SameVerdicts
  <1>3. VerdictInv(c)'
    BY <1>0, <1>a, <1>c, Types DEF CallInv, VerdictInv
  <1>4. PlaceInv(c)'
    BY <1>0, <1>a, <1>c, <1>d, Types DEF AuditIntercept, CallInv, PlaceInv, Vetoed, Unlogged
  <1>5. AnswerInv(c)'
    BY <1>0, <1>a, <1>c, Types DEF AuditIntercept, CallInv, AnswerInv, PlaceInv, Unlogged, Vetoed, ResponseVetoed
  <1> QED
    BY <1>1, <1>2, <1>3, <1>4, <1>5, <1>d, OneCall DEF CallInv

\* The intercept endpoint writes the entry of a response first.
LEMMA AuditResponseStep ==
    ASSUME IInv, NEW c \in Calls, AuditResponse(c)
    PROVE  IInv'
  <1> DEFINE e == Entry(c, RESTAction(c), "none", DeriveAuditActionReason(Resp(c), "response_policy"))
  <1> USE DEF AuditResponse, At, Goto, Answer
  <1>0. TypeOK /\ CallInv(c) /\ VerdictInv(c)
    BY DEF IInv, CallInv
  <1>a. /\ surface[c] \in {"response"} /\ Unlogged(c) /\ tool[c] = "no"
        /\ pc'[c] = "answer" /\ SameVerdicts(c)
    BY <1>0, Types DEF CallInv, PlaceInv, SameVerdicts
  <1>b. e \in EntryType /\ EntryTells(c, e) /\ e.ai = Details(c) /\ e.action = RESTAction(c)
    BY <1>0, <1>a, RESTEntryTells
  <1>c. /\ log' = [log EXCEPT ![c] = Write(e)]
        /\ watcher' = [watcher EXCEPT ![c] = IF HasAsyncWork(c) THEN "waiting" ELSE "none"]
        /\ UNCHANGED <<wrapper, answer, filter, surface, cel, ai, second, responses,
                       aiState, tool, queued, late, stop>>
        /\ pc' = [pc EXCEPT ![c] = "answer"]
    BY DEF RESTAudit
  <1> HIDE DEF e, AuditResponse
  <1>d. /\ log' \in [Calls -> EntryType \cup {NoEntry, Dropped}]
        /\ watcher' \in [Calls -> {"none", "waiting", "written", "timeout"}]
        /\ \A d \in Calls \ {c} : log'[d] = log[d] /\ watcher'[d] = watcher[d]
        /\ log'[c] # NoEntry
        /\ EntryInv(c)' /\ RecordInv(c)'
    BY <1>a, <1>b, <1>c, RESTWrite
  <1>1. TypeOK'
    BY <1>0, <1>c, <1>d, Types DEF TypeOK
  <1>2. Only(c)
    BY <1>0, <1>c, <1>d, Types DEF Only, Same, SameVerdicts
  <1>3. VerdictInv(c)'
    BY <1>0, <1>a, <1>c, Types DEF CallInv, VerdictInv
  <1>4. PlaceInv(c)'
    BY <1>0, <1>a, <1>c, <1>d, Types DEF AuditResponse, CallInv, PlaceInv, Vetoed, Unlogged
  <1>5. AnswerInv(c)'
    BY <1>0, <1>a, <1>c, Types DEF AuditResponse, CallInv, AnswerInv, PlaceInv, Unlogged, Vetoed, ResponseVetoed
  <1> QED
    BY <1>1, <1>2, <1>3, <1>4, <1>5, <1>d, OneCall DEF CallInv

\* The entry of a command that was not checked.
LEMMA AuditUncheckedStep ==
    ASSUME IInv, NEW c \in Calls, AuditUnchecked(c)
    PROVE  IInv'
  <1> DEFINE e == Entry(c, "allow", "none", "none")
  <1> USE DEF AuditUnchecked, At, Goto, Answer
  <1>0. TypeOK /\ CallInv(c) /\ VerdictInv(c)
    BY DEF IInv, CallInv
  <1>a. /\ surface[c] \in {"cli"} /\ Unlogged(c) /\ tool[c] = "no"
        /\ pc'[c] = "done" /\ SameVerdicts(c)
    BY <1>0, Types DEF CallInv, PlaceInv, SameVerdicts
  <1>b. e \in EntryType /\ EntryTells(c, e) /\ e.ai = Details(c)
    <2>1. ~Vetoed(c) /\ ~ResponseVetoed(c)
      BY <1>0, NothingIsResult, UntouchedIsResponse
      DEF CallInv, VerdictInv, Vetoed, ResponseVetoed, Unfiltered
    <2> QED
      BY <2>1, EntryIsTyped DEF EntryTells, Actions
  <1>e. ~HasAsyncWork(c)
    BY <1>0 DEF VerdictInv, HasAsyncWork
  <1>c. /\ log' = [log EXCEPT ![c] = Write(e)]
        /\ watcher' = [watcher EXCEPT ![c] = IF HasAsyncWork(c) THEN "waiting" ELSE "none"]
        /\ UNCHANGED <<wrapper, answer, filter, surface, cel, ai, second, responses,
                       aiState, tool, queued, late, stop>>
        /\ pc' = [pc EXCEPT ![c] = "done"]
    BY <1>0, <1>a, <1>e, Types DEF Unlogged
  <1> HIDE DEF e, AuditUnchecked
  <1>d. /\ log' \in [Calls -> EntryType \cup {NoEntry, Dropped}]
        /\ watcher' \in [Calls -> {"none", "waiting", "written", "timeout"}]
        /\ \A d \in Calls \ {c} : log'[d] = log[d] /\ watcher'[d] = watcher[d]
        /\ log'[c] # NoEntry
        /\ EntryInv(c)' /\ RecordInv(c)'
    BY <1>a, <1>b, <1>c, <1>e, RESTWrite
  <1>1. TypeOK'
    BY <1>0, <1>c, <1>d, Types DEF TypeOK
  <1>2. Only(c)
    BY <1>0, <1>c, <1>d, Types DEF Only, Same, SameVerdicts
  <1>3. VerdictInv(c)'
    BY <1>0, <1>a, <1>c, Types DEF CallInv, VerdictInv
  <1>4. PlaceInv(c)'
    BY <1>0, <1>a, <1>c, <1>d, Types DEF AuditUnchecked, CallInv, PlaceInv, Vetoed, Unlogged
  <1>5. AnswerInv(c)'
    BY <1>0, <1>a, <1>c, Types DEF AuditUnchecked, CallInv, AnswerInv, PlaceInv, Unlogged, Vetoed, ResponseVetoed
  <1> QED
    BY <1>1, <1>2, <1>3, <1>4, <1>5, <1>d, OneCall DEF CallInv

\* The intercept endpoint answers a request as its entry says.
LEMMA AnswerInterceptStep ==
    ASSUME IInv, NEW c \in Calls, AnswerIntercept(c)
    PROVE  IInv'
  <1> USE DEF AnswerIntercept, At, Goto, Answer
  <1>0. TypeOK /\ CallInv(c) /\ VerdictInv(c)
    BY DEF IInv, CallInv
  <1>a. /\ pc[c] = "answer" /\ pc'[c] = "done" /\ SameVerdicts(c)
        /\ log[c] # NoEntry /\ tool[c] = "no"
    BY <1>0, Types DEF CallInv, PlaceInv, SameVerdicts
  <1>b. /\ Vetoed(c)' <=> Vetoed(c)
        /\ ResponseVetoed(c)' <=> ResponseVetoed(c)
        /\ AnyFailedOpen(c)' <=> AnyFailedOpen(c)
        /\ AnyBypass(c)' <=> AnyBypass(c)
        /\ Resp(c)' = Resp(c)
        /\ buildResponseResult(c)' = buildResponseResult(c)
        /\ RESTAction(c)' = RESTAction(c)
    BY <1>a, VerdictsStand
  <1>1. TypeOK'
    BY <1>0, Types DEF TypeOK, RESTAnswer
  <1>2. Only(c)
    BY DEF Only, Same, SameVerdicts, RESTAnswer
  <1>3. VerdictInv(c)'
    BY <1>0, <1>a, Types DEF CallInv, VerdictInv
  <1>4. PlaceInv(c)'
    BY <1>0, <1>a, <1>b, Types, RequestVerdict DEF CallInv, PlaceInv, RESTAnswer
  <1>5. AnswerInv(c)'
    BY <1>0, <1>a, <1>b, Types, RequestVerdict DEF CallInv, AnswerInv, PlaceInv, Unlogged, RESTAnswer
  <1>6. EntryInv(c)'
    BY <1>0, <1>a, <1>b, Types DEF CallInv, EntryInv, EntryTells, Logged
  <1>7. RecordInv(c)'
    BY <1>0, <1>b, Types DEF CallInv, RecordInv, Logged, HasAsyncWork, Completions, Details, mergeAsyncCompletions
  <1> QED
    BY <1>1, <1>2, <1>3, <1>4, <1>5, <1>6, <1>7, OneCall DEF CallInv

\* The intercept endpoint answers a response as its entry says.
LEMMA AnswerResponseStep ==
    ASSUME IInv, NEW c \in Calls, AnswerResponse(c)
    PROVE  IInv'
  <1> USE DEF AnswerResponse, At, Goto, Answer
  <1>0. TypeOK /\ CallInv(c) /\ VerdictInv(c)
    BY DEF IInv, CallInv
  <1>a. /\ pc[c] = "answer" /\ pc'[c] = "done" /\ SameVerdicts(c)
        /\ log[c] # NoEntry /\ tool[c] = "no"
    BY <1>0, Types DEF CallInv, PlaceInv, SameVerdicts
  <1>b. /\ Vetoed(c)' <=> Vetoed(c)
        /\ ResponseVetoed(c)' <=> ResponseVetoed(c)
        /\ AnyFailedOpen(c)' <=> AnyFailedOpen(c)
        /\ AnyBypass(c)' <=> AnyBypass(c)
        /\ Resp(c)' = Resp(c)
        /\ buildResponseResult(c)' = buildResponseResult(c)
        /\ RESTAction(c)' = RESTAction(c)
    BY <1>a, VerdictsStand
  <1>1. TypeOK'
    BY <1>0, Types DEF TypeOK, buildResponseResult
  <1>2. Only(c)
    BY DEF Only, Same, SameVerdicts, buildResponseResult
  <1>3. VerdictInv(c)'
    BY <1>0, <1>a, Types DEF CallInv, VerdictInv
  <1>4. PlaceInv(c)'
    BY <1>0, <1>a, <1>b, Types, ResponseVerdict DEF CallInv, PlaceInv, buildResponseResult
  <1>5. AnswerInv(c)'
    <2>1. surface[c] = "response" /\ ~Vetoed(c)
      BY <1>0, NothingIsResult DEF VerdictInv, Vetoed
    <2>2. /\ Resp(c).allowed <=> ~ResponseVetoed(c)
          /\ Resp(c).redacted <=> ~\A i \in 1 .. 2 : ~responses[c][i].redacted
      BY <1>0, ResponseVerdict
    <2>3. /\ surface'[c] = "response" /\ responses'[c] = responses[c]
          /\ answer'[c] = buildResponseResult(c)
      BY <1>0, <2>1, Types DEF SameVerdicts
    <2>4. /\ answer'[c] \in {"result", "redacted"} => Resp(c).allowed
          /\ answer'[c] = "result" => ~Resp(c).redacted
          /\ answer'[c] \in {"denied", "deniedMutation"} => ~Resp(c).allowed
          /\ answer'[c] \in {"result", "redacted", "denied", "deniedMutation"}
      BY <2>3 DEF buildResponseResult
    <2> HIDE DEF AnswerResponse
    <2> QED
      BY <1>b, <2>1, <2>2, <2>3, <2>4 DEF AnswerInv
  <1>6. EntryInv(c)'
    BY <1>0, <1>a, <1>b, Types DEF CallInv, EntryInv, EntryTells, Logged
  <1>7. RecordInv(c)'
    BY <1>0, <1>b, Types DEF CallInv, RecordInv, Logged, HasAsyncWork, Completions, Details, mergeAsyncCompletions
  <1> QED
    BY <1>1, <1>2, <1>3, <1>4, <1>5, <1>6, <1>7, OneCall DEF CallInv
-----------------------------------------------------------------------------
(* What happens to a request in the background. *)

\* A collector finishes: its phase is in no entry yet that should hold it.
LEMMA CollectStep ==
    ASSUME IInv, NEW c \in Calls, NEW p \in Phases, Collect(c, p)
    PROVE  IInv'
  <1> USE DEF Collect, SetAI
  <1>0. TypeOK /\ CallInv(c)
    BY DEF IInv
  <1>a. /\ \A q \in Phases \ {p} : aiState'[c][q] = aiState[c][q]
        /\ aiState[c][p] = "running" /\ aiState'[c][p] = "sent"
        /\ aiState' \in [Calls -> [Phases -> AIStates]]
        /\ \A d \in Calls \ {c} : aiState'[d] = aiState[d]
    BY <1>0, Types DEF AIStates
  <1>b. /\ HasAsyncWork(c)' /\ HasAsyncWork(c)
        /\ Details(c)' = Details(c)
        /\ ~Completions(c)
    BY <1>a DEF HasAsyncWork, Details, Completions
  <1>c. SameVerdicts(c)
    BY DEF SameVerdicts
  <1>d. /\ Vetoed(c)' <=> Vetoed(c)
        /\ ResponseVetoed(c)' <=> ResponseVetoed(c)
        /\ AnyFailedOpen(c)' <=> AnyFailedOpen(c)
        /\ AnyBypass(c)' <=> AnyBypass(c)
        /\ Resp(c)' = Resp(c)
        /\ buildResponseResult(c)' = buildResponseResult(c)
        /\ RESTAction(c)' = RESTAction(c)
    BY <1>c, VerdictsStand
  <1> HIDE DEF SetAI
  <1>1. TypeOK'
    BY <1>0, <1>a, Types DEF TypeOK
  <1>2. Only(c)
    BY <1>a DEF Only, Same, SameVerdicts
  <1>3. VerdictInv(c)'
    BY <1>0, <1>a DEF CallInv, VerdictInv
  <1>4. PlaceInv(c)'
    BY <1>0, <1>d DEF CallInv, PlaceInv, Unlogged
  <1>5. AnswerInv(c)'
    BY <1>0, <1>d DEF CallInv, AnswerInv, Unlogged
  <1>6. EntryInv(c)'
    BY <1>0, <1>d DEF CallInv, EntryInv, EntryTells, Logged, Refused
  <1>7. RecordInv(c)'
    BY <1>0, <1>a, <1>b, <1>d DEF CallInv, RecordInv, Logged
  <1> QED
    BY <1>1, <1>2, <1>3, <1>4, <1>5, <1>6, <1>7, OneCall DEF CallInv

\* A queued entry is written, with everything that came in meanwhile.
LEMMA FinalizeAsyncStep ==
    ASSUME IInv, NEW c \in Calls, FinalizeAsync(c)
    PROVE  IInv'
  <1> DEFINE e == [queued[c] EXCEPT !.ai = Collected(c)]
  <1> USE DEF FinalizeAsync
  <1>0. TypeOK /\ CallInv(c)
    BY DEF IInv
  <1>a. /\ queued[c] \in EntryType /\ EntryTells(c, queued[c])
        /\ surface[c] = "mcp" /\ pc[c] = "done" /\ log[c] = NoEntry
    BY <1>0, Types DEF CallInv, EntryInv
  <1>b. e \in EntryType /\ EntryTells(c, e) /\ e.ai = Collected(c)
    BY <1>a DEF EntryType, EntryTells, Collected
  <1> HIDE DEF e
  <1>c. /\ Write(e) \in EntryType \cup {Dropped} /\ Write(e) # NoEntry
        /\ Write(e) # Dropped => Write(e) = e /\ (filter = "deny_only" => e.action = "deny")
        /\ Write(e) = Dropped => e.action # "deny"
    BY <1>b, Written
  <1>d. /\ log' = [log EXCEPT ![c] = Write(e)]
        /\ queued' = [queued EXCEPT ![c] = NoEntry]
    BY DEF e
  <1>e. log'[c] = Write(e) /\ queued'[c] = NoEntry
    BY <1>0, <1>d, Types
  <1>f. SameVerdicts(c)
    BY DEF SameVerdicts
  <1>g. /\ Vetoed(c)' <=> Vetoed(c)
        /\ ResponseVetoed(c)' <=> ResponseVetoed(c)
        /\ AnyFailedOpen(c)' <=> AnyFailedOpen(c)
        /\ AnyBypass(c)' <=> AnyBypass(c)
        /\ Resp(c)' = Resp(c)
    BY <1>f, VerdictsStand
  <1>1. TypeOK'
    BY <1>0, <1>b, <1>c, <1>d, Types DEF TypeOK
  <1>2. Only(c)
    BY <1>0, <1>d, Types DEF Only, Same, SameVerdicts
  <1>3. VerdictInv(c)'
    BY <1>0 DEF CallInv, VerdictInv
  <1>4. PlaceInv(c)'
    BY <1>0, <1>a, <1>g DEF CallInv, PlaceInv
  <1>5. AnswerInv(c)'
    <2>1. answer[c] # "error"
      BY <1>0 DEF CallInv, AnswerInv, Unlogged
    <2> QED
      BY <1>0, <1>a, <1>g, <2>1 DEF CallInv, AnswerInv
  <1>6. EntryInv(c)'
    BY <1>0, <1>a, <1>b, <1>c, <1>e, <1>g, MarkersAssumption
    DEF CallInv, EntryInv, EntryTells, Logged
  <1>7. RecordInv(c)'
    <2>1. \A p \in Phases : aiState[c][p] \in {"none", "sync", "sent"}
      BY <1>0, Types DEF Completions, AIStates
    <2>2. Collected(c) = {p \in Phases : aiState[c][p] # "none"}
      BY <2>1 DEF Collected
    <2>3. watcher'[c] = "none" /\ late'[c] = NoEntry /\ surface'[c] = "mcp"
      BY <1>0, <1>a DEF CallInv, RecordInv
    <2>4. /\ Logged(c)' => log'[c] = e
          /\ \A p \in Phases : aiState'[c][p] # "running"
          /\ e.ai = {p \in Phases : aiState'[c][p] # "none"}
      BY <1>b, <1>c, <1>e, <2>1, <2>2 DEF Logged
    <2> HIDE DEF FinalizeAsync
    <2> QED
      BY <2>3, <2>4 DEF RecordInv
  <1> QED
    BY <1>1, <1>2, <1>3, <1>4, <1>5, <1>6, <1>7, OneCall DEF CallInv

\* The second entry of a REST request is written.
LEMMA WriteAsyncAuditCompletionStep ==
    ASSUME IInv, NEW c \in Calls, WriteAsyncAuditCompletion(c)
    PROVE  IInv'
  <1> DEFINE e == [action |-> RESTAction(c), recommended |-> "none",
                   reason |-> "async_completion", ai |-> mergeAsyncCompletions(c)]
  <1> USE DEF WriteAsyncAuditCompletion
  <1>0. TypeOK /\ CallInv(c) /\ VerdictInv(c)
    BY DEF IInv, CallInv
  <1>a. surface[c] # "mcp" /\ log[c] # NoEntry
    BY <1>0 DEF CallInv, RecordInv
  <1>b. e \in EntryType /\ e.action = RESTAction(c) /\ e.ai = mergeAsyncCompletions(c)
    BY <1>0, <1>a, RESTActionTells DEF EntryType, Actions, mergeAsyncCompletions
  <1>c. late' = [late EXCEPT ![c] = Write(e)] /\ watcher' = [watcher EXCEPT ![c] = "written"]
    OBVIOUS
  <1> HIDE DEF e
  <1>d. /\ Write(e) \in EntryType \cup {Dropped} /\ Write(e) # NoEntry
        /\ Write(e) # Dropped => Write(e) = e /\ (filter = "deny_only" => e.action = "deny")
        /\ Write(e) = Dropped => filter = "deny_only" /\ e.action # "deny"
    BY <1>b, Written
  <1>e. late'[c] = Write(e) /\ watcher'[c] = "written"
    BY <1>0, <1>c, Types
  <1>f. SameVerdicts(c)
    BY DEF SameVerdicts
  <1>g. /\ Vetoed(c)' <=> Vetoed(c)
        /\ ResponseVetoed(c)' <=> ResponseVetoed(c)
        /\ AnyFailedOpen(c)' <=> AnyFailedOpen(c)
        /\ AnyBypass(c)' <=> AnyBypass(c)
        /\ Resp(c)' = Resp(c)
        /\ buildResponseResult(c)' = buildResponseResult(c)
        /\ RESTAction(c)' = RESTAction(c)
    BY <1>f, VerdictsStand
  <1>1. TypeOK'
    BY <1>0, <1>b, <1>c, <1>d, Types DEF TypeOK
  <1>2. Only(c)
    BY <1>0, <1>c, Types DEF Only, Same, SameVerdicts
  <1>3. VerdictInv(c)'
    BY <1>0 DEF CallInv, VerdictInv
  <1>4. PlaceInv(c)'
    BY <1>0, <1>a, <1>g DEF CallInv, PlaceInv, Unlogged
  <1>5. AnswerInv(c)'
    BY <1>0, <1>a, <1>g DEF CallInv, AnswerInv, Unlogged
  <1>6. EntryInv(c)'
    BY <1>0, <1>g DEF CallInv, EntryInv, EntryTells, Logged, Refused
  <1>7. RecordInv(c)'
    <2>1. /\ Completions(c)' /\ Details(c)' = Details(c)
          /\ mergeAsyncCompletions(c)' = mergeAsyncCompletions(c)
          /\ Logged(c)' <=> Logged(c)
          /\ surface' = surface /\ filter' = filter /\ log' = log
      BY DEF Completions, Details, mergeAsyncCompletions, Logged
    <2>2. /\ Logged(c) => log[c].ai = Details(c) /\ log[c].action = RESTAction(c)
          /\ log[c] = Dropped => filter = "deny_only" /\ RESTAction(c) # "deny"
          /\ Logged(c) /\ filter = "deny_only" => log[c].action = "deny"
      BY <1>0, <1>a DEF CallInv, RecordInv, EntryInv
    <2> HIDE DEF WriteAsyncAuditCompletion
    <2>3. late'[c] = Dropped => ~Logged(c)'
      BY <1>b, <1>d, <1>e, <2>1, <2>2
    <2>4. /\ late'[c] \in EntryType =>
                /\ late'[c].action = RESTAction(c)' /\ late'[c].ai = mergeAsyncCompletions(c)'
                /\ filter' = "deny_only" => late'[c].action = "deny"
          /\ late'[c] # NoEntry
      BY <1>b, <1>d, <1>e, <1>g, <2>1, MarkersAssumption
    <2> QED
      BY <1>a, <1>e, <1>g, <2>1, <2>2, <2>3, <2>4 DEF RecordInv
  <1> QED
    BY <1>1, <1>2, <1>3, <1>4, <1>5, <1>6, <1>7, OneCall DEF CallInv

\* The goroutine gives up.
LEMMA AsyncAuditTimeoutStep ==
    ASSUME IInv, NEW c \in Calls, AsyncAuditTimeout(c)
    PROVE  IInv'
  <1> USE DEF AsyncAuditTimeout
  <1>0. TypeOK /\ CallInv(c)
    BY DEF IInv
  <1>a. /\ surface[c] # "mcp" /\ log[c] # NoEntry
        /\ watcher[c] = "waiting" /\ watcher'[c] = "timeout"
    BY <1>0, Types DEF CallInv, RecordInv
  <1>f. SameVerdicts(c)
    BY DEF SameVerdicts
  <1>g. /\ Vetoed(c)' <=> Vetoed(c)
        /\ ResponseVetoed(c)' <=> ResponseVetoed(c)
        /\ AnyFailedOpen(c)' <=> AnyFailedOpen(c)
        /\ AnyBypass(c)' <=> AnyBypass(c)
        /\ Resp(c)' = Resp(c)
        /\ buildResponseResult(c)' = buildResponseResult(c)
        /\ RESTAction(c)' = RESTAction(c)
    BY <1>f, VerdictsStand
  <1>1. TypeOK'
    BY <1>0, Types DEF TypeOK
  <1>2. Only(c)
    BY <1>0, Types DEF Only, Same, SameVerdicts
  <1>3. VerdictInv(c)'
    BY <1>0 DEF CallInv, VerdictInv
  <1>4. PlaceInv(c)'
    BY <1>0, <1>a, <1>g DEF CallInv, PlaceInv, Unlogged
  <1>5. AnswerInv(c)'
    BY <1>0, <1>a, <1>g DEF CallInv, AnswerInv, Unlogged
  <1>6. EntryInv(c)'
    BY <1>0, <1>g DEF CallInv, EntryInv, EntryTells, Logged, Refused
  <1>7. RecordInv(c)'
    BY <1>0, <1>a, <1>g DEF CallInv, RecordInv, Logged, HasAsyncWork, Completions, Details
  <1> QED
    BY <1>1, <1>2, <1>3, <1>4, <1>5, <1>6, <1>7, OneCall DEF CallInv

\* The wrapper runs its command only on an answer that allows it.
LEMMA runCLIStep ==
    ASSUME IInv, NEW c \in Calls, runCLI(c)
    PROVE  IInv'
  <1>0. TypeOK /\ CallInv(c)
    BY DEF IInv
  <1>a. PICK end \in {"ran", "notRun", "unvalidated"} :
            Wrap(c, end) /\ (end = "ran" => answer[c] = "allowed")
    BY DEF runCLI, ExecuteValidated, ExecuteNothing, FailOpen
  <1> USE <1>a DEF Wrap
  <1>f. SameVerdicts(c)
    BY DEF SameVerdicts
  <1>g. /\ Vetoed(c)' <=> Vetoed(c)
        /\ ResponseVetoed(c)' <=> ResponseVetoed(c)
        /\ AnyFailedOpen(c)' <=> AnyFailedOpen(c)
        /\ AnyBypass(c)' <=> AnyBypass(c)
        /\ Resp(c)' = Resp(c)
        /\ buildResponseResult(c)' = buildResponseResult(c)
        /\ RESTAction(c)' = RESTAction(c)
    BY <1>f, VerdictsStand
  <1>1. TypeOK'
    BY <1>0, Types DEF TypeOK
  <1>2. Only(c)
    BY <1>0, Types DEF Only, Same, SameVerdicts
  <1>3. VerdictInv(c)'
    BY <1>0 DEF CallInv, VerdictInv
  <1>4. PlaceInv(c)'
    BY <1>0, <1>g, Types DEF CallInv, PlaceInv, Unlogged
  <1>5. AnswerInv(c)'
    BY <1>0, <1>g DEF CallInv, AnswerInv, Unlogged
  <1>6. EntryInv(c)'
    BY <1>0, <1>g DEF CallInv, EntryInv, EntryTells, Logged, Refused
  <1>7. RecordInv(c)'
    BY <1>0, <1>g DEF CallInv, RecordInv, Logged, HasAsyncWork, Completions, Details, mergeAsyncCompletions
  <1> QED
    BY <1>1, <1>2, <1>3, <1>4, <1>5, <1>6, <1>7, OneCall DEF CallInv

\* Gateway.Stop touches no request, and a stutter nothing at all.
LEMMA StopSteps ==
    ASSUME IInv, CloseClients \/ Stop \/ UNCHANGED vars
    PROVE  IInv'
  <1>1. /\ UNCHANGED <<surface, filter, wrapper, pc, cel, ai, second, responses, aiState,
                       tool, answer, queued, log, watcher, late>>
        /\ stop' \in StopPhases
    BY Types DEF IInv, CloseClients, Stop, WaitForAsyncRequest, WaitForAsyncResponse,
                 WaitForWrites, CloseWriter, StopStep, StopPhases, vars
  <1>2. TypeOK'
    BY <1>1, Types DEF IInv, TypeOK
  <1>3. \A d \in Calls : Same(d)
    BY <1>1 DEF Same, SameVerdicts
  <1> QED
    BY <1>2, <1>3, Frame DEF IInv
-----------------------------------------------------------------------------
(* The theorems. *)

\* The initial states satisfy the invariant.
LEMMA InitIInv == Init => IInv
  <1> SUFFICES ASSUME Init PROVE IInv
    OBVIOUS
  <1>0. /\ EngineResult(Nothing) /\ Nothing \in ResultsType /\ Nothing.allowed
        /\ Untouched \in ResponseType
    BY NothingIsResult, UntouchedIsResponse DEF EngineResult
  <1>1. TypeOK
    BY <1>0, Types DEF Init, AIStates, StopPhases
  <1>2. ASSUME NEW c \in Calls PROVE CallInv(c)
    <2>1. /\ pc[c] = "cel" /\ Unlogged(c) /\ answer[c] = "none" /\ tool[c] = "no"
          /\ cel[c] = Nothing /\ ai[c] = Nothing /\ second[c] = Nothing
          /\ responses[c] = Unfiltered /\ \A p \in Phases : aiState[c][p] = "none"
          /\ wrapper[c] # "ran"
      BY DEF Init, Unlogged, Unfiltered
    <2>2. VerdictInv(c) /\ PlaceInv(c) /\ AnswerInv(c)
      BY <1>0, <2>1 DEF VerdictInv, PlaceInv, AnswerInv
    <2>3. EntryInv(c) /\ RecordInv(c)
      BY <2>1, MarkersAssumption DEF Unlogged, EntryInv, RecordInv, Logged
    <2> QED
      BY <2>2, <2>3 DEF CallInv
  <1> QED
    BY <1>1, <1>2 DEF IInv

\* IInv is an invariant of the gateway, whatever the requests, their surfaces
\* and the verdicts of the engines are, and whenever Stop is called.
THEOREM Invariance == SafetySpec => []IInv
  <1>1. ASSUME IInv, [Next]_vars PROVE IInv'
    <2>1. ASSUME NEW c \in Calls, Handler(c) PROVE IInv'
      BY <1>1, <2>1, RejectStep, EvaluateCELStep, EvaluateAIStep, EvaluateSecondStep,
         DenyToolCallStep, NoClientStep, CallToolStep, ToolFailsStep, ToolAnswersStep,
         DenyResponseStep, ReturnResultStep, AnswerUncheckedStep, AuditUncheckedStep,
         AnswerCLIStep, AuditCLIStep, AuditInterceptStep, AnswerInterceptStep,
         PassResponseStep, EvaluateResponseStep, AuditResponseStep, AnswerResponseStep, Zenon
      DEF Handler, RejectToolCall, RejectCLI, RejectIntercept
    <2>2. ASSUME NEW c \in Calls, Background(c) PROVE IInv'
      BY <1>1, <2>2, CollectStep, FinalizeAsyncStep, WriteAsyncAuditCompletionStep,
         AsyncAuditTimeoutStep, Zenon
      DEF Background
    <2>3. ASSUME NEW c \in Calls, runCLI(c) PROVE IInv'
      BY <1>1, <2>3, runCLIStep
    <2>4. CASE CloseClients \/ Stop \/ UNCHANGED vars
      BY <1>1, <2>4, StopSteps
    <2> QED
      BY <1>1, <2>1, <2>2, <2>3, <2>4 DEF Next
  <1> QED
    BY <1>1, InitIInv, PTL DEF SafetySpec

\* Every variable keeps its type.
THEOREM TypeCorrect == SafetySpec => []TypeOK
  <1>1. IInv => TypeOK
    BY DEF IInv
  <1> QED
    BY <1>1, Invariance, PTL

\* A request that an engine denied never reaches its tool, its caller is told
\* nothing but that it was denied, and the wrapper does not run the command.
THEOREM DeniedNeverRuns == SafetySpec => []DeniedCallNeverRuns
  <1>1. IInv => DeniedCallNeverRuns
    <2> SUFFICES ASSUME IInv, NEW c \in Calls, Vetoed(c),
                        pc[c] \notin {"cel", "ai", "second", "decide"}
                 PROVE  tool[c] = "no" /\ answer[c] \in {"none", "denied"} /\ wrapper[c] # "ran"
      BY DEF DeniedCallNeverRuns
    <2>1. CallInv(c)
      BY DEF IInv
    <2>2. answer[c] \in {"none", "denied", "deniedMutation", "error", "result",
                         "redacted", "allowed"}
      BY Types DEF IInv
    <2>3. tool[c] = "no" /\ wrapper[c] # "ran"
      BY <2>1, Types DEF IInv, CallInv, PlaceInv, AnswerInv
    <2> QED
      BY <2>1, <2>2, <2>3 DEF CallInv, AnswerInv
  <1> QED
    BY <1>1, Invariance, PTL

\* A response passes only if both response engines let it, and unchanged only
\* if neither redacted it.
THEOREM ResponsesAreFiltered == SafetySpec => []ResponseIsFiltered
  <1>1. IInv => ResponseIsFiltered
    BY DEF IInv, CallInv, AnswerInv, ResponseIsFiltered
  <1> QED
    BY <1>1, Invariance, PTL

\* The log says of a finished request what happened to it.
THEOREM AuditIsTruthful == SafetySpec => []AuditTellsOutcome
  <1>1. ASSUME IInv, NEW c \in Calls, pc[c] = "done"
        PROVE  /\ Refused(c) => Logged(c) \/ queued[c] # NoEntry
               /\ Logged(c) =>
                     /\ (log[c].action = "deny") <=> Refused(c)
                     /\ (log[c].action = "redact") => answer[c] = "redacted"
                     /\ log[c].reason = "request_policy" => Vetoed(c) /\ tool[c] = "no"
                     /\ log[c].reason = "response_policy" => ResponseVetoed(c) /\ ~Vetoed(c)
                     /\ log[c].reason = "fail_open" => ~Refused(c) /\ AnyFailedOpen(c)
                     /\ log[c].reason = "audit_mode" => ~Refused(c) /\ AnyBypass(c)
               /\ late[c] \notin {NoEntry, Dropped} => Logged(c) /\ late[c].action = log[c].action
    <2>0. CallInv(c) /\ TypeOK
      BY <1>1 DEF IInv
    <2>1. /\ answer[c] \in {"denied", "deniedMutation", "error", "result", "redacted", "allowed"}
          /\ log[c] \in EntryType \cup {NoEntry, Dropped}
          /\ late[c] \in EntryType \cup {NoEntry, Dropped}
          /\ queued[c] \in EntryType \cup {NoEntry}
      BY <1>1, <2>0, Types DEF CallInv, PlaceInv
    <2>2. Refused(c) <=> (Vetoed(c) \/ ResponseVetoed(c)) /\ answer[c] # "error"
      <3>1. answer[c] = "allowed" => ~ResponseVetoed(c)
        BY <2>0, UntouchedIsResponse
        DEF CallInv, VerdictInv, AnswerInv, ResponseVetoed, Unfiltered
      <3> QED
        BY <2>0, <2>1, <3>1 DEF CallInv, AnswerInv, Refused
    <2>3. Logged(c) => answer[c] # "error"
      BY <2>0 DEF CallInv, AnswerInv, Unlogged, Logged
    <2>4. Refused(c) => Logged(c) \/ queued[c] # NoEntry
      BY <1>1, <2>0, <2>2 DEF CallInv, EntryInv, Logged
    <2>5. Logged(c) /\ log[c].action = "redact" => answer[c] = "redacted"
      BY <1>1, <2>0, <2>1, <2>2, <2>3, ResponseVerdict
      DEF CallInv, EntryInv, EntryTells, AnswerInv, Logged, Refused, buildResponseResult
    <2>6. late[c] \notin {NoEntry, Dropped} => Logged(c) /\ late[c].action = log[c].action
      <3> SUFFICES ASSUME late[c] \notin {NoEntry, Dropped}
                   PROVE  Logged(c) /\ late[c].action = log[c].action
        OBVIOUS
      <3>1. watcher[c] = "written" /\ late[c] \in EntryType
        BY <2>0, <2>1 DEF CallInv, RecordInv
      <3> QED
        BY <2>0, <2>1, <3>1 DEF CallInv, RecordInv, Logged
    <2> QED
      BY <2>0, <2>2, <2>3, <2>4, <2>5, <2>6 DEF CallInv, EntryInv, EntryTells
  <1>2. IInv => AuditTellsOutcome
    <2> SUFFICES ASSUME IInv, NEW c \in Calls
                 PROVE  /\ AnyFailedOpen(c) => \E r \in {cel[c], ai[c], second[c]} \cup
                              {responses[c][i] : i \in 1 .. 2} : r.failedOpen
                        /\ AnyBypass(c) => \E r \in {cel[c], ai[c], second[c]} \cup
                              {responses[c][i] : i \in 1 .. 2} : r.bypass
      BY <1>1, Zenon DEF AuditTellsOutcome
    <2>1. {responses[c][1], responses[c][2]} \subseteq {responses[c][i] : i \in 1 .. 2}
      OBVIOUS
    <2> QED
      BY <2>1, Zenon DEF AnyFailedOpen, AnyBypass
  <1> QED
    BY <1>2, Invariance, PTL

\* No AI result is missing from the log.
THEOREM PhasesAreOnRecord == SafetySpec => []EveryPhaseIsOnRecord
  <1>1. IInv => EveryPhaseIsOnRecord
    <2> SUFFICES ASSUME IInv, NEW c \in Calls, Logged(c),
                        surface[c] = "mcp" \/ watcher[c] \in {"none", "written"}
                 PROVE  {p \in Phases : aiState[c][p] # "none"} =
                            log[c].ai \cup (IF watcher[c] = "written" THEN late[c].ai ELSE {})
      BY DEF EveryPhaseIsOnRecord
    <2>0. CallInv(c) /\ log[c] # NoEntry /\ late[c] \in EntryType \cup {NoEntry, Dropped}
      BY Types DEF IInv, Logged
    <2>1. \A p \in Phases : aiState[c][p] \in {"none", "sync", "running", "sent"}
      BY Types DEF IInv, AIStates
    <2>2. CASE surface[c] = "mcp"
      BY <2>0, <2>2 DEF CallInv, RecordInv
    <2>3. CASE surface[c] # "mcp" /\ watcher[c] = "none"
      <3>1. log[c].ai = Details(c) /\ ~HasAsyncWork(c)
        BY <2>0, <2>3 DEF CallInv, RecordInv
      <3> QED
        BY <2>1, <2>3, <3>1 DEF Details, HasAsyncWork
    <2>4. CASE surface[c] # "mcp" /\ watcher[c] = "written"
      <3>1. /\ log[c].ai = Details(c) /\ Completions(c)
            /\ late[c].ai = mergeAsyncCompletions(c)
        BY <2>0, <2>4 DEF CallInv, RecordInv
      <3> QED
        BY <2>1, <2>4, <3>1 DEF Details, Completions, mergeAsyncCompletions
    <2> QED
      BY <2>2, <2>3, <2>4
  <1> QED
    BY <1>1, Invariance, PTL
=============================================================================
