------------------------------ MODULE ToolCall ------------------------------
(***************************************************************************)
(* Requests on their way through the gateway, from the first engine to the *)
(* audit log, while Gateway.Stop may shut the process down (gateway.go,    *)
(* audit_entry.go, audit_writer.go, cli_validation.go,                     *)
(* intercept_handler.go, policy_evaluator.go).                             *)
(*                                                                         *)
(* Surfaces: "mcp" is Gateway.HandleToolCall; "cli" is the CLI and the     *)
(* action endpoint, which answer and then write their audit entry; the     *)
(* others are the intercept endpoint, which writes first: "intercept" and  *)
(* "shell" its request phase, where a shell tool is evaluated twice, as a  *)
(* command and as a tool call, and "response" its response phase.  The     *)
(* engines are the value sets of module Results; what an AI phase leaves   *)
(* to a background collector is collected later.                           *)
(*                                                                         *)
(* HandleToolCall also returns early when the validation chain fails; with *)
(* a blocking budget, which it always creates, no engine does.  Native     *)
(* tools, which it hands on without validation or audit, are left out.     *)
(***************************************************************************)
EXTENDS Results

CONSTANTS Calls,    \* requests
          NoEntry,  \* "no audit entry"
          Dropped   \* "kept out of the log by the filter"

VARIABLES
    surface,  \* surface[c]: where the request came in
    filter,   \* audit filter: "all" or "deny_only"
    pc,       \* where the handler of a request is
    cel, ai,  \* what the request engines returned
    second,   \* "shell": the evaluation as a tool call
    responses,  \* what the two response engines returned
    aiState,  \* aiState[c][phase]: the AI phase's results
    tool,     \* the downstream tool: "no", "called" or "answered"
    answer,   \* what the caller was told
    queued,   \* the entry of an asynchronous audit write under way
    log,      \* what the audit writer made of the entry
    watcher,  \* REST: the goroutine waiting to write the asynchronous entry
    late,     \* REST: what the audit writer made of that entry
    wrapper,  \* "cli": the command as run by `maybe-dont cli`
    stop      \* progress of Gateway.Stop

input == <<surface, filter>>
verdicts == <<cel, ai, second, responses>>
rest == <<watcher, late>>
vars == <<input, wrapper, pc, verdicts, aiState, tool, answer, queued, log, rest, stop>>

Surfaces == {"mcp", "cli", "intercept", "shell", "response"}
Phases == {"request", "second", "response"}
\* sync: complete when the phase returned; running: a collector is at work
\* (counted by asyncWg); sent: its completion is in the channel.
AIStates == {"none", "sync", "running", "sent"}
StopPhases == {"up", "sessions", "request", "response", "writes", "exited"}

Init ==
    /\ surface \in [Calls -> Surfaces]
    /\ filter \in {"all", "deny_only"}
    /\ pc = [c \in Calls |-> "cel"]
    /\ cel = [c \in Calls |-> Nothing]
    /\ ai = [c \in Calls |-> Nothing]
    /\ second = [c \in Calls |-> Nothing]
    /\ responses = [c \in Calls |-> <<Untouched, Untouched>>]
    /\ aiState = [c \in Calls |-> [p \in Phases |-> "none"]]
    /\ tool = [c \in Calls |-> "no"]
    /\ answer = [c \in Calls |-> "none"]
    /\ queued = [c \in Calls |-> NoEntry]
    /\ log = [c \in Calls |-> NoEntry]
    /\ watcher = [c \in Calls |-> "none"]
    /\ late = [c \in Calls |-> NoEntry]
    /\ wrapper = [c \in Calls |-> IF surface[c] = "cli" THEN "waiting" ELSE "none"]
    /\ stop = "up"

\* When the process has exited nothing happens any more.
Alive == stop # "exited"

At(c, place) == Alive /\ pc[c] = place
Goto(c, place) == pc' = [pc EXCEPT ![c] = place]
Answer(c, a) == answer' = [answer EXCEPT ![c] = a]
SetAI(c, p, s) == aiState' = [aiState EXCEPT ![c][p] = s]

\* Mutant: a deny counts only if it shows in Allowed.
DeniedIfNotAllowed(c) == ~Handle(cel[c], ai[c]).allowed

\* validationResults.DenyCount > 0
Denied(c) == Handle(cel[c], ai[c]).denyCount > 0
-----------------------------------------------------------------------------
(* Audit entries. *)

\* The AI phases whose results were complete when the phase returned ...
Details(c) == {p \in Phases : aiState[c][p] = "sync"}
\* ... and those whose results have come in.
Collected(c) == {p \in Phases : aiState[c][p] \in {"sync", "sent"}}

\* Mutant: the two actions of SetActions are swapped.
EntrySwapped(c, action, rec, reason) ==
    [action |-> rec, recommended |-> action, reason |-> reason, ai |-> Details(c)]

Entry(c, action, rec, reason) ==
    [action |-> action, recommended |-> rec, reason |-> reason, ai |-> Details(c)]

\* Mutant: the filter goes by the recommendation.
WriteRecommendedDenials(e) ==
    IF filter = "deny_only" /\ e.recommended # "deny" THEN Dropped ELSE e

\* JSONLAuditWriter.Write drops what the filter excludes.
Write(e) == IF filter = "deny_only" /\ e.action # "deny" THEN Dropped ELSE e

\* AuditContext.HasAsyncWork: a completion channel was registered.
HasAsyncWork(c) == \E p \in Phases : aiState[c][p] \in {"running", "sent"}

\* writeAuditLog of HandleToolCall: an entry with asynchronous work goes to a
\* goroutine counted by pendingAuditWrites.
writeAuditLog(c, e) ==
    IF HasAsyncWork(c) THEN queued' = [queued EXCEPT ![c] = e] /\ UNCHANGED log
    ELSE log' = [log EXCEPT ![c] = Write(e)] /\ UNCHANGED queued

\* Mutant: both channels are read, also one that was never registered.
AwaitBothChannels(c) == \A p \in Phases : aiState[c][p] = "sent"

\* FinalizeAsync receives from the channels that were registered.
Completions(c) == \A p \in Phases : aiState[c][p] # "running"

FinalizeAsync(c) ==
    /\ Alive
    /\ queued[c] # NoEntry
    /\ Completions(c)
    /\ log' = [log EXCEPT ![c] = Write([queued[c] EXCEPT !.ai = Collected(c)])]
    /\ queued' = [queued EXCEPT ![c] = NoEntry]
    /\ UNCHANGED <<input, wrapper, pc, verdicts, aiState, tool, answer, rest, stop>>
-----------------------------------------------------------------------------
(* The request phase, the same engines for every surface. *)

\* A request that cannot be evaluated ends in an error, without an entry.
Reject(c, surfaces) ==
    /\ At(c, "cel") /\ surface[c] \in surfaces
    /\ Answer(c, "error")
    /\ Goto(c, "done")
    /\ UNCHANGED <<input, wrapper, verdicts, aiState, tool, queued, log, rest, stop>>

\* A tool name without the prefix of a client.
RejectToolCall(c) == Reject(c, {"mcp"})
\* A body that does not parse, or has no target or command.
RejectCLI(c) == Reject(c, {"cli"})
\* The same, a phase or event that is not supported, or an endpoint that is off.
RejectIntercept(c) == Reject(c, {"intercept", "shell", "response"})

EvaluateCEL(c) ==
    /\ At(c, "cel") /\ surface[c] # "response"
    /\ \E r \in CELResults : cel' = [cel EXCEPT ![c] = r]
    /\ Goto(c, "ai")
    /\ UNCHANGED <<input, wrapper, ai, second, responses, aiState, tool, answer, queued, log, rest, stop>>

EvaluateAI(c) ==
    /\ At(c, "ai")
    /\ \E r \in AIResults, s \in {"none", "sync", "running"} :
          /\ s = "none" => r = Nothing
          /\ ai' = [ai EXCEPT ![c] = r]
          /\ SetAI(c, "request", s)
    /\ Goto(c, IF surface[c] = "shell" THEN "second" ELSE "decide")
    /\ UNCHANGED <<input, wrapper, cel, second, responses, tool, answer, queued, log, rest, stop>>

\* EvaluateShellCommand goes on with the tool call, on the same budget and
\* whatever came of the command.
EvaluateSecond(c) ==
    /\ At(c, "second")
    /\ \E q \in CELResults, r \in AIResults, s \in {"none", "sync", "running"} :
          /\ s = "none" => r = Nothing
          /\ second' = [second EXCEPT ![c] = Evaluate(q, r)]
          /\ SetAI(c, "second", s)
    /\ Goto(c, "decide")
    /\ UNCHANGED <<input, wrapper, cel, ai, responses, tool, answer, queued, log, rest, stop>>

\* The background goroutine of an AI phase has every result.
Collect(c, p) ==
    /\ Alive
    /\ aiState[c][p] = "running"
    /\ SetAI(c, p, "sent")
    /\ UNCHANGED <<input, wrapper, pc, verdicts, tool, answer, queued, log, rest, stop>>
-----------------------------------------------------------------------------
(* HandleToolCall after the request phase. *)

DenyToolCall(c) ==
    /\ At(c, "decide") /\ surface[c] = "mcp"
    /\ Denied(c)
    /\ writeAuditLog(c, Entry(c, "deny", "deny", "request_policy"))
    /\ Answer(c, "denied")
    /\ Goto(c, "done")
    /\ UNCHANGED <<input, wrapper, verdicts, aiState, tool, rest, stop>>

\* The session or the client is not there (Stop closes them first): an error,
\* and no audit entry.
NoClient(c) ==
    /\ At(c, "decide") /\ surface[c] = "mcp"
    /\ ~Denied(c)
    /\ Answer(c, "error")
    /\ Goto(c, "done")
    /\ UNCHANGED <<input, wrapper, verdicts, aiState, tool, queued, log, rest, stop>>

CallTool(c) ==
    /\ At(c, "decide") /\ surface[c] = "mcp"
    /\ ~Denied(c)
    /\ tool' = [tool EXCEPT ![c] = "called"]
    /\ Goto(c, "tool")
    /\ UNCHANGED <<input, wrapper, verdicts, aiState, answer, queued, log, rest, stop>>

ToolFails(c) ==
    /\ At(c, "tool")
    /\ Answer(c, "error")
    /\ Goto(c, "done")
    /\ UNCHANGED <<input, wrapper, verdicts, aiState, tool, queued, log, rest, stop>>

\* ResponseValidationChain.Handle: both engines, whatever the first says.
ResponsePhase(c) ==
    \E q \in CELResponses, r \in AIResponses, s \in {"none", "sync", "running"} :
        /\ s = "none" => r = Untouched
        /\ responses' = [responses EXCEPT ![c] = <<q, r>>]
        /\ SetAI(c, "response", s)

\* The tool answers; an empty answer is not validated.
ToolAnswers(c) ==
    /\ At(c, "tool")
    /\ tool' = [tool EXCEPT ![c] = "answered"]
    /\ \/ Goto(c, "finish") /\ UNCHANGED <<responses, aiState>>
       \/ Goto(c, "finish") /\ ResponsePhase(c)
    /\ UNCHANGED <<input, wrapper, cel, ai, second, answer, queued, log, rest, stop>>

\* What the response chain returned.
Resp(c) == HandleResponse(responses[c][1], responses[c][2])

DenyResponse(c) ==
    /\ At(c, "finish")
    /\ ~Resp(c).allowed
    /\ writeAuditLog(c, Entry(c, "deny", "deny", "response_policy"))
    /\ Answer(c, "denied")
    /\ Goto(c, "done")
    /\ UNCHANGED <<input, wrapper, verdicts, aiState, tool, rest, stop>>

\* The reason of an allowed call comes from the request phase alone, a
\* failure to evaluate before an audit_only deny.
AllowedEntry(c) ==
    LET r == Handle(cel[c], ai[c]) IN
    CASE r.failedOpen -> Entry(c, "allow", "none", "fail_open")
      [] ~r.failedOpen /\ r.bypass -> Entry(c, "allow", r.recommended, "audit_mode")
      [] OTHER -> Entry(c, "allow", "allow", "none")

ReturnResult(c) ==
    /\ At(c, "finish")
    /\ Resp(c).allowed
    /\ writeAuditLog(c, AllowedEntry(c))
    /\ Answer(c, IF Resp(c).redacted THEN "redacted" ELSE "result")
    /\ Goto(c, "done")
    /\ UNCHANGED <<input, wrapper, verdicts, aiState, tool, rest, stop>>
-----------------------------------------------------------------------------
(* The REST endpoints. *)

RESTResults(c) ==
    LET first == Evaluate(cel[c], ai[c]) IN
    IF surface[c] = "shell" THEN mergeShellResults(first, second[c]) ELSE first

RESTAnswer(c) == Answer(c, IF RESTResults(c).allowed THEN "allowed" ELSE "denied")

\* What the caller of a response phase reads: a redaction is a mutation of the
\* payload, also when the response is denied.
buildResponseResult(c) ==
    CASE Resp(c).allowed /\ ~Resp(c).redacted -> "result"
      [] Resp(c).allowed /\ Resp(c).redacted -> "redacted"
      [] ~Resp(c).allowed /\ Resp(c).redacted -> "deniedMutation"
      [] OTHER -> "denied"

RESTAction(c) ==
    IF surface[c] # "response" THEN IF RESTResults(c).allowed THEN "allow" ELSE "deny"
    ELSE IF ~Resp(c).allowed THEN "deny"
    ELSE IF Resp(c).redacted THEN "redact" ELSE "allow"

\* The entry is written at once; results still being collected are left to
\* WriteAsyncAuditCompletion, whose goroutine nothing waits for.
RESTAudit(c, r, denyReason) ==
    /\ log' = [log EXCEPT ![c] = Write(Entry(c, RESTAction(c), "none",
                                           DeriveAuditActionReason(r, denyReason)))]
    /\ watcher' = [watcher EXCEPT ![c] = IF HasAsyncWork(c) THEN "waiting" ELSE "none"]

\* A command that is not on the list of those to validate.
AnswerUnchecked(c) ==
    /\ At(c, "cel") /\ surface[c] = "cli"
    /\ Answer(c, "allowed")
    /\ Goto(c, "unchecked")
    /\ UNCHANGED <<input, wrapper, verdicts, aiState, tool, queued, log, rest, stop>>

AuditUnchecked(c) ==
    /\ At(c, "unchecked")
    /\ log' = [log EXCEPT ![c] = Write(Entry(c, "allow", "none", "none"))]
    /\ Goto(c, "done")
    /\ UNCHANGED <<input, wrapper, verdicts, aiState, tool, answer, queued, rest, stop>>

AnswerCLI(c) ==
    /\ At(c, "decide") /\ surface[c] = "cli"
    /\ RESTAnswer(c)
    /\ Goto(c, "audit")
    /\ UNCHANGED <<input, wrapper, verdicts, aiState, tool, queued, log, rest, stop>>

AuditCLI(c) ==
    /\ At(c, "audit")
    /\ RESTAudit(c, RESTResults(c), "none")
    /\ Goto(c, "done")
    /\ UNCHANGED <<input, wrapper, verdicts, aiState, tool, answer, queued, late, stop>>

AuditIntercept(c) ==
    /\ At(c, "decide") /\ surface[c] \in {"intercept", "shell"}
    /\ RESTAudit(c, RESTResults(c), "request_policy")
    /\ Goto(c, "answer")
    /\ UNCHANGED <<input, wrapper, verdicts, aiState, tool, answer, queued, late, stop>>

AnswerIntercept(c) ==
    /\ At(c, "answer") /\ surface[c] # "response"
    /\ RESTAnswer(c)
    /\ Goto(c, "done")
    /\ UNCHANGED <<input, wrapper, verdicts, aiState, tool, queued, log, rest, stop>>

\* Without an evaluator a response passes, and without an entry.
PassResponse(c) ==
    /\ At(c, "cel") /\ surface[c] = "response"
    /\ Answer(c, "result")
    /\ Goto(c, "done")
    /\ UNCHANGED <<input, wrapper, verdicts, aiState, tool, queued, log, rest, stop>>

EvaluateResponse(c) ==
    /\ At(c, "cel") /\ surface[c] = "response"
    /\ ResponsePhase(c)
    /\ Goto(c, "decide")
    /\ UNCHANGED <<input, wrapper, cel, ai, second, tool, answer, queued, log, rest, stop>>

AuditResponse(c) ==
    /\ At(c, "decide") /\ surface[c] = "response"
    /\ RESTAudit(c, Resp(c), "response_policy")
    /\ Goto(c, "answer")
    /\ UNCHANGED <<input, wrapper, verdicts, aiState, tool, answer, queued, late, stop>>

AnswerResponse(c) ==
    /\ At(c, "answer") /\ surface[c] = "response"
    /\ Answer(c, buildResponseResult(c))
    /\ Goto(c, "done")
    /\ UNCHANGED <<input, wrapper, verdicts, aiState, tool, queued, log, rest, stop>>

\* Mutant: of two channels the one of the command is kept.
mergeKeepsCommand(c) ==
    IF aiState[c]["request"] = "sent" THEN {"request"}
    ELSE {p \in Phases : aiState[c][p] = "sent"}

\* mergeAsyncCompletions: the phases in the one completion of a request.
mergeAsyncCompletions(c) == {p \in Phases : aiState[c][p] = "sent"}

WriteAsyncAuditCompletion(c) ==
    /\ Alive
    /\ watcher[c] = "waiting"
    /\ Completions(c)
    /\ late' = [late EXCEPT ![c] = Write([action |-> RESTAction(c), recommended |-> "none",
                                         reason |-> "async_completion",
                                         ai |-> mergeAsyncCompletions(c)])]
    /\ watcher' = [watcher EXCEPT ![c] = "written"]
    /\ UNCHANGED <<input, wrapper, pc, verdicts, aiState, tool, answer, queued, log, stop>>

\* After five minutes it gives up.
AsyncAuditTimeout(c) ==
    /\ Alive
    /\ watcher[c] = "waiting"
    /\ ~Completions(c)
    /\ watcher' = [watcher EXCEPT ![c] = "timeout"]
    /\ UNCHANGED <<input, wrapper, pc, verdicts, aiState, tool, answer, queued, log, late, stop>>
-----------------------------------------------------------------------------
(* `maybe-dont cli`, a process of its own on the other end of the CLI        *)
(* endpoint: it asks, and runs the command or not.  A dry run never does.    *)

Wrap(c, end) ==
    /\ wrapper[c] = "waiting"
    /\ wrapper' = [wrapper EXCEPT ![c] = end]
    /\ UNCHANGED <<input, pc, verdicts, aiState, tool, answer, queued, log, rest, stop>>

\* ExecuteCommand, once the answer is there and allows it.
ExecuteValidated(c) == answer[c] = "allowed" /\ Wrap(c, "ran")

\* The command was denied, or this is a dry run.
ExecuteNothing(c) == Wrap(c, "notRun")

\* Validate fails: no connection, timeout, an error response, or an answer that
\* does not arrive whole, whatever it says.
FailOpen(c) == Wrap(c, "unvalidated")

runCLI(c) == ExecuteValidated(c) \/ ExecuteNothing(c) \/ FailOpen(c)
-----------------------------------------------------------------------------
(* Gateway.Stop, in its order: close the sessions, wait for the request and *)
(* for the response collectors, wait for the queued audit writes, close the *)
(* writer and let the process exit.  The HTTP server shuts down in a        *)
(* goroutine of its own that Stop does not wait for, so requests keep       *)
(* running and arriving meanwhile.                                          *)

NoneRunning(ps) == \A c \in Calls : \A p \in ps : aiState[c][p] # "running"

\* Mutant: queued writes are not waited for.
NothingAwaited == TRUE

\* pendingAuditWrites.Wait()
WritesDone == \A c \in Calls : queued[c] = NoEntry

StopStep(from, to) ==
    /\ stop = from
    /\ stop' = to
    /\ UNCHANGED <<input, wrapper, pc, verdicts, aiState, tool, answer, queued, log, rest>>

CloseClients == StopStep("up", "sessions")
WaitForAsyncRequest == NoneRunning({"request", "second"}) /\ StopStep("sessions", "request")
WaitForAsyncResponse == NoneRunning({"response"}) /\ StopStep("request", "response")
WaitForWrites == WritesDone /\ StopStep("response", "writes")
CloseWriter == StopStep("writes", "exited")
Stop == WaitForAsyncRequest \/ WaitForAsyncResponse \/ WaitForWrites \/ CloseWriter
-----------------------------------------------------------------------------
Handler(c) ==
    \/ RejectToolCall(c) \/ RejectCLI(c) \/ RejectIntercept(c)
    \/ EvaluateCEL(c) \/ EvaluateAI(c) \/ EvaluateSecond(c)
    \/ DenyToolCall(c) \/ NoClient(c) \/ CallTool(c) \/ ToolFails(c) \/ ToolAnswers(c)
    \/ DenyResponse(c) \/ ReturnResult(c)
    \/ AnswerUnchecked(c) \/ AuditUnchecked(c)
    \/ AnswerCLI(c) \/ AuditCLI(c) \/ AuditIntercept(c) \/ AnswerIntercept(c)
    \/ PassResponse(c) \/ EvaluateResponse(c) \/ AuditResponse(c) \/ AnswerResponse(c)

Background(c) ==
    \/ \E p \in Phases : Collect(c, p)
    \/ FinalizeAsync(c) \/ WriteAsyncAuditCompletion(c) \/ AsyncAuditTimeout(c)

Next ==
    \/ \E c \in Calls : Handler(c) \/ Background(c) \/ runCLI(c)
    \/ CloseClients \/ Stop

SafetySpec == Init /\ [][Next]_vars

\* Rule evaluations have timeouts, so collectors finish (AIEngine,
\* EventuallyCompletes); the goroutines of the gateway are scheduled.
\* Nothing is assumed of handlers, whose tool may never answer.
Fairness ==
    /\ \A c \in Calls : \A p \in Phases : WF_vars(Collect(c, p))
    /\ \A c \in Calls : WF_vars(FinalizeAsync(c))
    /\ WF_vars(Stop)

Spec == SafetySpec /\ Fairness
-----------------------------------------------------------------------------
(* Properties. *)

EntryType == [action : {"allow", "deny", "redact"}, recommended : Actions,
              reason : {"none", "request_policy", "response_policy", "audit_mode",
                        "fail_open", "async_completion"},
              ai : SUBSET Phases]

ASSUME MarkersAssumption == NoEntry # Dropped /\ {NoEntry, Dropped} \cap EntryType = {}

\* Every variable keeps its type.
TypeOK ==
    /\ surface \in [Calls -> Surfaces]
    /\ filter \in {"all", "deny_only"}
    /\ pc \in [Calls -> {"cel", "ai", "second", "decide", "tool", "finish", "audit",
                         "answer", "unchecked", "done"}]
    /\ \A v \in {cel, ai, second} : v \in [Calls -> ResultsType]
    /\ responses \in [Calls -> ResponseType \X ResponseType]
    /\ aiState \in [Calls -> [Phases -> AIStates]]
    /\ tool \in [Calls -> {"no", "called", "answered"}]
    /\ answer \in [Calls -> {"none", "denied", "deniedMutation", "error", "result",
                             "redacted", "allowed"}]
    /\ queued \in [Calls -> EntryType \cup {NoEntry}]
    /\ \A v \in {log, late} : v \in [Calls -> EntryType \cup {NoEntry, Dropped}]
    /\ watcher \in [Calls -> {"none", "waiting", "written", "timeout"}]
    /\ wrapper \in [Calls -> {"none", "waiting", "ran", "notRun", "unvalidated"}]
    /\ stop \in StopPhases

Logged(c) == log[c] \notin {NoEntry, Dropped}

Vetoed(c) == ~cel[c].allowed \/ ~ai[c].allowed \/ ~second[c].allowed
ResponseVetoed(c) == \E i \in 1 .. 2 : ~responses[c][i].allowed
Refused(c) == answer[c] \in {"denied", "deniedMutation"}

\* A request that the CEL or the AI engine denied never reaches the downstream
\* tool, and its caller is never told anything but that it was denied, on
\* every surface, whether or not the denying rule has a message, and also when
\* only one of the two evaluations of a shell tool denies.  The CLI wrapper does
\* not run such a command either, unless the answer failed to reach it.
DeniedCallNeverRuns ==
    \A c \in Calls : Vetoed(c) /\ pc[c] \notin {"cel", "ai", "second", "decide"} =>
        tool[c] = "no" /\ answer[c] \in {"none", "denied"} /\ wrapper[c] # "ran"

\* A tool's answer passes, through the gateway or through the response phase
\* of the intercept endpoint, only if both response engines let it pass, and
\* unchanged only if neither redacted it: a redaction before or after a deny
\* does not turn the refusal into a mutation that passes.
ResponseIsFiltered ==
    \A c \in Calls : answer[c] \in {"result", "redacted"} =>
        /\ surface[c] = "mcp" => tool[c] = "answered"
        /\ ~ResponseVetoed(c)
        /\ answer[c] = "result" => \A i \in 1 .. 2 : ~responses[c][i].redacted

\* What the log says of a finished request is what happened to it: deny for
\* the requests whose caller was refused, and always for those, whatever the
\* filter; the phase that refused; otherwise a reason the engines gave; and
\* the same action in the asynchronous entry.
AuditTellsOutcome ==
    \A c \in Calls : pc[c] = "done" =>
        /\ Refused(c) => Logged(c) \/ queued[c] # NoEntry
        /\ Logged(c) =>
              /\ (log[c].action = "deny") <=> Refused(c)
              /\ (log[c].action = "redact") => answer[c] = "redacted"
              /\ log[c].reason = "request_policy" => Vetoed(c) /\ tool[c] = "no"
              /\ log[c].reason = "response_policy" => ResponseVetoed(c) /\ ~Vetoed(c)
              /\ log[c].reason = "fail_open" =>
                    ~Refused(c) /\ (\E r \in {cel[c], ai[c], second[c]} \cup
                                        {responses[c][i] : i \in 1 .. 2} : r.failedOpen)
              /\ log[c].reason = "audit_mode" =>
                    ~Refused(c) /\ (\E r \in {cel[c], ai[c], second[c]} \cup
                                        {responses[c][i] : i \in 1 .. 2} : r.bypass)
        /\ late[c] \notin {NoEntry, Dropped} => Logged(c) /\ late[c].action = log[c].action

\* No AI result is missing from the log: the one entry of an MCP call, and the
\* two entries of a REST request whose goroutine has written the second one,
\* hold the results of every AI phase the request went through, also of those
\* that were collected after it returned, and of both evaluations of a shell
\* tool.
EveryPhaseIsOnRecord ==
    \A c \in Calls : Logged(c) /\ (surface[c] = "mcp" \/ watcher[c] \in {"none", "written"}) =>
        {p \in Phases : aiState[c][p] # "none"} =
            log[c].ai \cup (IF watcher[c] = "written" THEN late[c].ai ELSE {})

\* An entry queued for an asynchronous write before Stop was called is
\* written, although the process exits.
QueuedAuditIsWritten ==
    \A c \in Calls : (queued[c] # NoEntry /\ stop = "up") ~> (log[c] # NoEntry)

\* Stop ends: no collector, audit write and wait group wait for one another.
StopEventuallyExits == (stop = "sessions") ~> (stop = "exited")

\* ai_engine.go: WaitForAsync is there "to ensure no audit writes are lost
\* during shutdown": results a collector completed for a finished request are
\* written when the process exits.
NoAuditLostAtShutdown ==
    stop = "exited" =>
        \A c \in Calls : pc[c] = "done" /\ surface[c] # "mcp" /\ HasAsyncWork(c)
                         /\ Completions(c) => watcher[c] = "written"
=============================================================================
