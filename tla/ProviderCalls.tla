---------------------------- MODULE ProviderCalls ----------------------------
(***************************************************************************)
(* One call of an upstream by an executor (internal/runtime/executor):     *)
(* Execute, ExecuteStream or CountTokens.  It prepares a request, sends it *)
(* to the hosts it has in turn, reads the answer, and leaves a record of   *)
(* the request's usage (usage_helpers.go), which is published once.        *)
(*                                                                         *)
(* The executors differ in habits, one record per method below.  The       *)
(* manager reads a stream to its end whatever its client does              *)
(* (conductor.go, ExecuteStream), so what is sent is received.             *)
(***************************************************************************)
EXTENDS Integers, Sequences, SequencesExt

CONSTANTS RequestRetry,   \* request-retry of the configuration
          LineLimit       \* lines of a stream that are looked at

ASSUME ProviderCallsAssumption == RequestRetry \in Nat /\ LineLimit \in Nat

VARIABLES
  habit,      \* the method called
  hosts,      \* how many base URLs there are
  pc,
  host, round,
  status,     \* of the answer being read
  body,       \* of that answer: "none", "open" or "closed"
  reporter,   \* whether the usage reporter exists
  usageTold,  \* whether the upstream has told its usage
  record,     \* the usage record: "none", "success" or "failed"
  out,        \* what a stream was sent
  outcome     \* "none" while running, "answer", or the error

callVars == <<habit, hosts, pc, host, round, status, body, reporter, usageTold, record, out, outcome>>
----------------------------------------------------------------------------
(* Habits.  shape: the answer is read "whole", sent on as a "stream", or a *)
(* stream "gathered" into an answer.  reports: usage is recorded.  early:  *)
(* something may be refused before the reporter exists: responses/compact, *)
(* a want of credentials, a token that is not renewed.  nextOn: what makes *)
(* the next host be asked; retries: all are asked again for capacity.      *)
(* refusal: what a refusal whose body breaks off is taken for.  decodes:   *)
(* the body may be compressed.  completes: the answer is looked for in the *)
(* body.  ensures: a success is recorded without usage as well.  done:     *)
(* "[DONE]" is translated when the body ends, "always" or if it is whole.  *)
(* relay: the body comes in events over a websocket.                       *)

Plain == [shape |-> "whole", reports |-> TRUE, early |-> TRUE, nextOn |-> {}, retries |-> FALSE,
          refusal |-> "refusal", decodes |-> FALSE, completes |-> FALSE, ensures |-> FALSE,
          done |-> "never", relay |-> FALSE]
PlainStream == [Plain EXCEPT !.shape = "stream"]
PlainCount == [Plain EXCEPT !.reports = FALSE, !.early = FALSE]

GeminiExecute == Plain
GeminiExecuteStream == [PlainStream EXCEPT !.done = "always"]
GeminiCountTokens == [PlainCount EXCEPT !.refusal = "error"]

VertexExecuteWithServiceAccount == Plain
VertexExecuteWithAPIKey == Plain
VertexExecuteStreamWithServiceAccount == [PlainStream EXCEPT !.done = "always"]
VertexExecuteStreamWithAPIKey == [PlainStream EXCEPT !.done = "always"]
VertexCountTokensWithServiceAccount == PlainCount
VertexCountTokensWithAPIKey == PlainCount

\* The list of models to fall back on has the model asked for and no other.  A
\* stream asked for with an alt is read whole.
GeminiCLIExecute == [Plain EXCEPT !.refusal = "error"]
GeminiCLIExecuteStream == [PlainStream EXCEPT !.refusal = "error", !.done = "always"]
GeminiCLIExecuteStreamAlt == [GeminiCLIExecuteStream EXCEPT !.done = "whole"]
GeminiCLICountTokens == [PlainCount EXCEPT !.refusal = "error"]

ClaudeExecute == [Plain EXCEPT !.decodes = TRUE]
ClaudeExecuteStream == [PlainStream EXCEPT !.decodes = TRUE]
ClaudeCountTokens == [PlainCount EXCEPT !.decodes = TRUE]

CodexExecute == [Plain EXCEPT !.early = FALSE, !.completes = TRUE]
CodexExecuteCompact == [Plain EXCEPT !.early = FALSE, !.ensures = TRUE]
CodexExecuteStream == [PlainStream EXCEPT !.refusal = "error"]

QwenExecute == Plain
QwenExecuteStream == [PlainStream EXCEPT !.done = "always"]

IFlowExecute == [Plain EXCEPT !.ensures = TRUE]
IFlowExecuteStream == [PlainStream EXCEPT !.ensures = TRUE]

OpenAICompatExecute == [Plain EXCEPT !.early = FALSE, !.ensures = TRUE]
OpenAICompatExecuteStream == [PlainStream EXCEPT !.early = FALSE, !.ensures = TRUE]

AntigravityExecute ==
  [Plain EXCEPT !.nextOn = {"net", "429", "capacity"}, !.retries = TRUE,
                !.refusal = "error", !.ensures = TRUE]
AntigravityExecuteClaudeNonStream ==
  [AntigravityExecute EXCEPT !.shape = "gathered", !.refusal = "net"]
AntigravityExecuteStream ==
  [AntigravityExecute EXCEPT !.shape = "stream", !.refusal = "net", !.done = "always"]
AntigravityCountTokens == [PlainCount EXCEPT !.nextOn = {"net", "429"}, !.refusal = "error"]

\* A stream of the relay that is closed without a word ends like a whole one.
AIStudioExecute == [Plain EXCEPT !.relay = TRUE]
AIStudioExecuteStream == [PlainStream EXCEPT !.relay = TRUE]
AIStudioCountTokens == [PlainCount EXCEPT !.relay = TRUE, !.completes = TRUE]

Habits ==
  {GeminiExecute, GeminiExecuteStream, GeminiCountTokens,
   VertexExecuteWithServiceAccount, VertexExecuteWithAPIKey,
   VertexExecuteStreamWithServiceAccount, VertexExecuteStreamWithAPIKey,
   VertexCountTokensWithServiceAccount, VertexCountTokensWithAPIKey,
   GeminiCLIExecute, GeminiCLIExecuteStream, GeminiCLIExecuteStreamAlt, GeminiCLICountTokens,
   ClaudeExecute, ClaudeExecuteStream, ClaudeCountTokens,
   CodexExecute, CodexExecuteCompact, CodexExecuteStream,
   QwenExecute, QwenExecuteStream, IFlowExecute, IFlowExecuteStream,
   OpenAICompatExecute, OpenAICompatExecuteStream,
   AntigravityExecute, AntigravityExecuteClaudeNonStream, AntigravityExecuteStream,
   AntigravityCountTokens, AIStudioExecute, AIStudioExecuteStream, AIStudioCountTokens}

Rounds == IF habit.retries THEN RequestRetry + 1 ELSE 1
----------------------------------------------------------------------------
CallTypeOK ==
  /\ habit \in Habits
  /\ hosts \in 1..2 /\ host \in 1..hosts /\ round \in 1..Rounds
  /\ pc \in {"prepare", "send", "status", "waiting", "whole", "lines", "over"}
  /\ status \in {"ok", "429", "capacity", "other"}
  /\ body \in {"none", "open", "closed"}
  /\ reporter \in BOOLEAN /\ usageTold \in BOOLEAN
  /\ record \in {"none", "success", "failed"}
  /\ out \in Seq({"line", "done", "error"})
  /\ outcome \in {"none", "answer", "refused", "net", "429", "capacity", "other", "cancelled", "broken"}

CallInit ==
  /\ habit \in Habits
  /\ hosts \in IF habit.nextOn = {} THEN {1} ELSE {1, 2}
  /\ pc = "prepare" /\ host = 1 /\ round = 1
  /\ status = "ok" /\ body = "none"
  /\ reporter = FALSE /\ usageTold = FALSE /\ record = "none"
  /\ out = <<>> /\ outcome = "none"

\* publishWithOutcome: the first record is the record.
Published(r) == IF reporter /\ record = "none" THEN r ELSE record

\* The method returns an error; trackFailure is deferred.
Fail(error) ==
  /\ pc' = "over" /\ outcome' = error
  /\ record' = Published("failed")
----------------------------------------------------------------------------
(* Before the request.                                                     *)

RefuseEarly ==
  /\ pc = "prepare" /\ habit.early /\ ~reporter
  /\ Fail("refused")
  /\ UNCHANGED <<habit, hosts, host, round, status, body, reporter, usageTold, out>>

NewUsageReporter ==
  /\ pc = "prepare" /\ habit.reports /\ ~reporter
  /\ reporter' = TRUE
  /\ UNCHANGED <<habit, hosts, pc, host, round, status, body, usageTold, record, out, outcome>>

Prepared == pc = "prepare" /\ reporter = habit.reports

\* Thinking settings the model does not take, a token that cannot be had.
PrepareFails ==
  /\ Prepared /\ Fail("refused")
  /\ UNCHANGED <<habit, hosts, host, round, status, body, reporter, usageTold, out>>

Prepare ==
  /\ Prepared /\ pc' = "send"
  /\ UNCHANGED <<habit, hosts, host, round, status, body, reporter, usageTold, record, out, outcome>>
----------------------------------------------------------------------------
(* The request, and a refusal.                                             *)

\* Faulty variant: the last host is not reached.
NextButLast(why) == why \in habit.nextOn /\ host + 1 < hosts

HasNext(why) == why \in habit.nextOn /\ host < hosts

\* The next host is asked, or the call fails.
NextHostOrFail(why) ==
  IF HasNext(why) THEN pc' = "send" /\ host' = host + 1 /\ UNCHANGED <<round, record, outcome>>
                  ELSE Fail(why) /\ UNCHANGED <<host, round>>

DoFails ==
  /\ pc = "send"
  /\ NextHostOrFail("net")
  /\ UNCHANGED <<habit, hosts, status, body, reporter, usageTold, out>>

\* The caller has gone: no other host is asked.
DoCancelled ==
  /\ pc = "send" /\ Fail("cancelled")
  /\ UNCHANGED <<habit, hosts, host, round, status, body, reporter, usageTold, out>>

Do ==
  /\ pc = "send" /\ pc' = "status"
  /\ status' \in {"ok", "429", "capacity", "other"}
  /\ body' = IF habit.relay THEN "none" ELSE "open"
  /\ UNCHANGED <<habit, hosts, host, round, reporter, usageTold, record, out, outcome>>

CloseBody == body' = IF body = "open" THEN "closed" ELSE body

Refused == pc = "status" /\ status # "ok"

\* For want of capacity all hosts are asked again, after a while.
RefusedForGood ==
  /\ Refused /\ CloseBody
  /\ IF status = "capacity" /\ habit.retries /\ ~HasNext(status) /\ round < Rounds
     THEN pc' = "waiting" /\ UNCHANGED <<host, round, record, outcome>>
     ELSE NextHostOrFail(status)
  /\ UNCHANGED <<habit, hosts, status, reporter, usageTold, out>>

\* The body of a refusal breaks off.
RefusalBreaks ==
  /\ Refused /\ habit.refusal # "refusal" /\ CloseBody
  /\ \/ habit.refusal = "net" /\ NextHostOrFail("net")
     \/ habit.refusal = "net" /\ Fail("cancelled") /\ UNCHANGED <<host, round>>
     \/ habit.refusal = "error" /\ Fail("net") /\ UNCHANGED <<host, round>>
  /\ UNCHANGED <<habit, hosts, status, reporter, usageTold, out>>

\* Faulty variant: the rounds are not counted.
WaitUncounted ==
  /\ pc = "waiting" /\ pc' = "send"
  /\ host' = 1
  /\ UNCHANGED <<habit, hosts, round, status, body, reporter, usageTold, record, out, outcome>>

Wait ==
  /\ pc = "waiting" /\ pc' = "send"
  /\ round' = round + 1 /\ host' = 1
  /\ UNCHANGED <<habit, hosts, status, body, reporter, usageTold, record, out, outcome>>

WaitCancelled ==
  /\ pc = "waiting" /\ Fail("cancelled")
  /\ UNCHANGED <<habit, hosts, host, round, status, body, reporter, usageTold, out>>
----------------------------------------------------------------------------
(* The answer.                                                             *)

DecodeFails ==
  /\ pc = "status" /\ status = "ok" /\ habit.decodes
  /\ CloseBody /\ Fail("broken")
  /\ UNCHANGED <<habit, hosts, host, round, status, reporter, usageTold, out>>

Accept ==
  /\ pc = "status" /\ status = "ok"
  /\ pc' = IF habit.shape = "whole" THEN "whole" ELSE "lines"
  /\ UNCHANGED <<habit, hosts, host, round, status, body, reporter, usageTold, record, out, outcome>>

\* Faulty variant: an answer without usage is not recorded.
OnlyTold(r) == r

\* What ensurePublished leaves of a success.
Ensured(r) == IF habit.ensures /\ reporter /\ r = "none" THEN "success" ELSE r

ReadAll ==
  /\ pc = "whole" /\ CloseBody
  /\ pc' = "over" /\ outcome' = "answer"
  /\ usageTold' \in BOOLEAN
  /\ record' = Ensured(IF usageTold' THEN Published("success") ELSE record)
  /\ UNCHANGED <<habit, hosts, host, round, status, reporter, out>>

\* The body breaks off, or there is no answer in it.
ReadAllFails ==
  /\ pc = "whole" /\ CloseBody /\ Fail("broken")
  /\ UNCHANGED <<habit, hosts, host, round, status, reporter, usageTold, out>>

ReadLine ==
  /\ pc = "lines" /\ Len(out) < LineLimit
  /\ out' = Append(out, "line")
  /\ \/ UNCHANGED <<usageTold, record>>
     \/ usageTold' = TRUE /\ record' = Published("success")
  /\ UNCHANGED <<habit, hosts, pc, host, round, status, body, reporter, outcome>>

\* A gathered stream is converted, and what it told is published once more.
BodyEnds ==
  /\ pc = "lines" /\ CloseBody
  /\ pc' = "over" /\ outcome' = "answer"
  /\ out' = IF habit.done = "never" THEN out ELSE Append(out, "done")
  /\ record' = Ensured(record)
  /\ UNCHANGED <<habit, hosts, host, round, status, reporter, usageTold>>

\* The error is sent after the end has been translated.  A call that gathers
\* takes the error from its own goroutine, which closes the body afterwards.
BodyBreaks ==
  /\ pc = "lines" /\ Fail("broken")
  /\ out' = (IF habit.done = "always" THEN Append(out, "done") ELSE out) \o <<"error">>
  /\ IF habit.shape = "gathered" THEN UNCHANGED body ELSE CloseBody
  /\ UNCHANGED <<habit, hosts, host, round, status, reporter, usageTold>>

CloseGathered ==
  /\ pc = "over" /\ body = "open" /\ CloseBody
  /\ UNCHANGED <<habit, hosts, pc, host, round, status, reporter, usageTold, record, out, outcome>>

CallNext ==
  \/ RefuseEarly \/ NewUsageReporter \/ PrepareFails \/ Prepare
  \/ DoFails \/ DoCancelled \/ Do \/ RefusedForGood \/ RefusalBreaks \/ Wait \/ WaitCancelled
  \/ DecodeFails \/ Accept \/ ReadAll \/ ReadAllFails
  \/ ReadLine \/ BodyEnds \/ BodyBreaks \/ CloseGathered

\* Upstreams answer or fail, a body ends or breaks, and the goroutines run: a
\* call that is on its way goes on.
CallFairness == WF_callVars(pc # "prepare" /\ CallNext)

CallSpec == CallInit /\ [][CallNext]_callVars /\ CallFairness
----------------------------------------------------------------------------
(* Properties.                                                             *)

\* A call whose reporter exists leaves a record that tells its outcome: usage
\* that was told is counted even if the stream breaks off later, a failure
\* without it is recorded as one, a success as a success, and the methods that
\* ensure a record have one.
RecordTellsOutcome ==
  pc = "over" =>
    /\ record # "none" => reporter
    /\ record = "success" <=> reporter /\ (usageTold \/ (outcome = "answer" /\ habit.ensures))
    /\ record = "failed" <=> reporter /\ ~usageTold /\ outcome # "answer"

\* A call gives up for the hosts' sake only when the last of them has been asked
\* in the last round: it does not report the state of one while another is left.
AllHostsAsked ==
  outcome \in habit.nextOn =>
    /\ host = hosts \/ (habit.refusal = "error" /\ outcome = "net")
    /\ outcome = "capacity" => round = Rounds

\* Every call ends, and with it the body of the upstream's answer.
CallEnds == (pc # "prepare") ~> (pc = "over" /\ body # "open")

\* No request is made while the body of an answer is open: a refusal is closed
\* before the next host is asked.
OneBody == pc \in {"send", "waiting"} => body # "open"
=============================================================================
