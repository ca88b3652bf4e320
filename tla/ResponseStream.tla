--------------------------- MODULE ResponseStream ---------------------------
(***************************************************************************)
(* A streamed response on its way from an upstream to the HTTP client.     *)
(* Four goroutines hand it on:                                             *)
(*                                                                         *)
(*   the executor's, which reads the upstream (external);                  *)
(*   the wrapper of the auth manager, one for each attempt                 *)
(*     (executeStreamMixedOnce): it marks the result of the attempt;       *)
(*   the handler's (ExecuteStreamWithAuthManager), which may start another *)
(*     attempt as long as it has passed on nothing;                        *)
(*   the one that serves the HTTP request: it peeks at the first chunk to  *)
(*     choose between an error and a stream, then forwards (ForwardStream).*)
(*                                                                         *)
(* Channels of chunks are unbuffered: a send and its receive are one step. *)
(* The channel of errors holds one.  A select with several ready cases     *)
(* takes any of them.  Which auth an attempt uses is the subject of        *)
(* AuthManager.                                                            *)
(***************************************************************************)
EXTENDS Naturals, FiniteSets

CONSTANTS BootstrapRetries,   \* cfg.Streaming.BootstrapRetries
          ChunksPerAttempt    \* bound: chunks an upstream sends before it ends

ASSUME StreamAssumption == BootstrapRetries \in Nat /\ ChunksPerAttempt \in Nat

Attempts == 1..(BootstrapRetries + 1)

VARIABLES upstream,   \* attempt -> what the executor's goroutine has sent
          wrapper,    \* attempt -> the auth manager's goroutine
          marked,     \* attempt -> the result marked for its auth
          handler,    \* the goroutine of ExecuteStreamWithAuthManager
          errs,       \* its channel of errors
          server,     \* the goroutine that serves the request
          answer,     \* what the client has been sent
          leaving     \* contexts: the client's, and the one of the execution

streamVars == <<upstream, wrapper, marked, handler, errs, server, answer, leaving>>
----------------------------------------------------------------------------
Chunks == {"payload", "empty", "error"}

StreamTypeOK ==
  /\ upstream \in [Attempts -> [state : {"none", "open", "broken", "ended"},
                                sent : 0..ChunksPerAttempt]]
  /\ wrapper \in [Attempts -> [pc : {"none", "read", "forward", "ended"},
                               chunk : Chunks \cup {"none"},
                               failed : BOOLEAN, forward : BOOLEAN]]
  /\ marked \in [Attempts -> {"none", "success", "failure"}]
  /\ handler \in [pc : {"none", "read", "send", "retry", "report", "closeErrs", "closeData", "ended"},
                  attempt : Attempts, sentPayload : BOOLEAN]
  /\ errs \in [pending : BOOLEAN, closed : BOOLEAN]
  /\ server \in [pc : {"call", "peek", "forward", "done"}, first : {"peek", "forward"},
                 noErrs : BOOLEAN, noData : BOOLEAN]
  /\ answer \in [from : SUBSET Attempts, end : {"none", "done", "error", "gone"}]
  /\ leaving \in [client : BOOLEAN, execution : BOOLEAN]

IdleWrapper == [pc |-> "none", chunk |-> "none", failed |-> FALSE, forward |-> TRUE]

StreamInit ==
  /\ upstream = [a \in Attempts |-> [state |-> "none", sent |-> 0]]
  /\ wrapper = [a \in Attempts |-> IdleWrapper]
  /\ marked = [a \in Attempts |-> "none"]
  /\ handler = [pc |-> "none", attempt |-> 1, sentPayload |-> FALSE]
  /\ errs = [pending |-> FALSE, closed |-> FALSE]
  /\ server \in [pc : {"call"}, first : {"peek", "forward"}, noErrs : {FALSE}, noData : {FALSE}]
  /\ answer = [from |-> {}, end |-> "none"]
  /\ leaving = [client |-> FALSE, execution |-> FALSE]

\* ExecuteStream of the auth manager has opened attempt a.
Opened(a) ==
  /\ upstream' = [upstream EXCEPT ![a].state = "open"]
  /\ wrapper' = [wrapper EXCEPT ![a].pc = "read"]
----------------------------------------------------------------------------
(* The request comes in.                                                   *)

CallOpens ==
  /\ server.pc = "call"
  /\ Opened(1)
  /\ handler' = [handler EXCEPT !.pc = "read"]
  /\ server' = [server EXCEPT !.pc = server.first]
  /\ UNCHANGED <<marked, errs, answer, leaving>>

\* No attempt can be opened: no channel of data, an error and nothing more.
CallFails ==
  /\ server.pc = "call"
  /\ errs' = [pending |-> TRUE, closed |-> TRUE]
  /\ server' = [server EXCEPT !.pc = server.first, !.noData = TRUE]
  /\ UNCHANGED <<upstream, wrapper, marked, handler, answer, leaving>>

ClientLeaves ==
  /\ server.pc \in {"peek", "forward"} /\ ~leaving.client
  /\ leaving' = [leaving EXCEPT !.client = TRUE]
  /\ UNCHANGED <<upstream, wrapper, marked, handler, errs, server, answer>>

\* The goroutine of GetContextWithCancel.
CancelExecution ==
  /\ leaving.client /\ ~leaving.execution
  /\ leaving' = [leaving EXCEPT !.execution = TRUE]
  /\ UNCHANGED <<upstream, wrapper, marked, handler, errs, server, answer>>
----------------------------------------------------------------------------
(* The wrapper of attempt a.                                               *)

\* A chunk of the upstream; a failure is marked before it is passed on.
ReadChunk(a) ==
  /\ wrapper[a].pc = "read" /\ upstream[a].state = "open"
  /\ \E chunk \in Chunks :
       /\ chunk = "error" \/ upstream[a].sent < ChunksPerAttempt
       /\ upstream' = [upstream EXCEPT ![a] =
            IF chunk = "error" THEN [@ EXCEPT !.state = "broken"]
                               ELSE [@ EXCEPT !.sent = upstream[a].sent + 1]]
       /\ wrapper' = [wrapper EXCEPT ![a].chunk = chunk,
                        ![a].pc = IF wrapper[a].forward THEN "forward" ELSE "read",
                        ![a].failed = @ \/ chunk = "error"]
       /\ marked' = [marked EXCEPT ![a] = IF chunk = "error" THEN "failure" ELSE @]
  /\ UNCHANGED <<handler, errs, server, answer, leaving>>

UpstreamEnds(a) ==
  /\ upstream[a].state = "open"
  /\ upstream' = [upstream EXCEPT ![a].state = "ended"]
  /\ UNCHANGED <<wrapper, marked, handler, errs, server, answer, leaving>>

\* From now on it only drains the upstream.
StopForwarding(a) ==
  /\ wrapper[a].pc = "forward" /\ leaving.execution
  /\ wrapper' = [wrapper EXCEPT ![a].pc = "read", ![a].forward = FALSE, ![a].chunk = "none"]
  /\ UNCHANGED <<upstream, marked, handler, errs, server, answer, leaving>>

WrapperEnds(a) ==
  /\ wrapper[a].pc = "read" /\ upstream[a].state \in {"broken", "ended"}
  /\ marked' = [marked EXCEPT ![a] = IF wrapper[a].failed THEN @ ELSE "success"]
  /\ wrapper' = [wrapper EXCEPT ![a].pc = "ended", ![a].chunk = "none"]
  /\ UNCHANGED <<upstream, handler, errs, server, answer, leaving>>
----------------------------------------------------------------------------
(* The handler's goroutine.                                                *)

\* Faulty variant: one retry too many.
MayRetryOnceMore == ~handler.sentPayload /\ handler.attempt <= BootstrapRetries + 1

\* bootstrapEligible looks at the status of the error: either may be.
MayRetry == ~handler.sentPayload /\ handler.attempt <= BootstrapRetries

AfterChunk(chunk) ==
  CASE chunk = "payload" -> {[handler EXCEPT !.pc = "send", !.sentPayload = TRUE]}
    [] chunk = "empty" -> {handler}
    [] OTHER -> {[handler EXCEPT !.pc = "report"]}
                \cup (IF MayRetry THEN {[handler EXCEPT !.pc = "retry"]} ELSE {})

TakeChunk ==
  LET a == handler.attempt
  IN /\ handler.pc = "read" /\ wrapper[a].pc = "forward"
     /\ handler' \in AfterChunk(wrapper[a].chunk)
     /\ wrapper' = [wrapper EXCEPT ![a].pc = "read", ![a].chunk = "none"]
     /\ UNCHANGED <<upstream, marked, errs, server, answer, leaving>>

StreamEnds ==
  /\ handler.pc = "read" /\ wrapper[handler.attempt].pc = "ended"
  /\ handler' = [handler EXCEPT !.pc = "closeErrs"]
  /\ UNCHANGED <<upstream, wrapper, marked, errs, server, answer, leaving>>

RetryOpens ==
  /\ handler.pc = "retry"
  /\ Opened(handler.attempt + 1)
  /\ handler' = [handler EXCEPT !.pc = "read", !.attempt = @ + 1]
  /\ UNCHANGED <<marked, errs, server, answer, leaving>>

RetryFails ==
  /\ handler.pc = "retry"
  /\ handler' = [handler EXCEPT !.pc = "report"]
  /\ UNCHANGED <<upstream, wrapper, marked, errs, server, answer, leaving>>

\* Faulty variant: a payload is sent without looking at the context.
HandlerLeavesReading ==
  /\ handler.pc \in {"read", "report"} /\ leaving.execution
  /\ handler' = [handler EXCEPT !.pc = "closeErrs"]
  /\ UNCHANGED <<upstream, wrapper, marked, errs, server, answer, leaving>>

\* The context of the execution is done, in any of the three selects.
HandlerLeaves ==
  /\ handler.pc \in {"read", "send", "report"} /\ leaving.execution
  /\ handler' = [handler EXCEPT !.pc = "closeErrs"]
  /\ UNCHANGED <<upstream, wrapper, marked, errs, server, answer, leaving>>

SendError ==
  /\ handler.pc = "report"
  /\ errs' = [errs EXCEPT !.pending = TRUE]
  /\ handler' = [handler EXCEPT !.pc = "closeErrs"]
  /\ UNCHANGED <<upstream, wrapper, marked, server, answer, leaving>>

CloseErrs ==
  /\ handler.pc = "closeErrs"
  /\ errs' = [errs EXCEPT !.closed = TRUE]
  /\ handler' = [handler EXCEPT !.pc = "closeData"]
  /\ UNCHANGED <<upstream, wrapper, marked, server, answer, leaving>>

CloseData ==
  /\ handler.pc = "closeData"
  /\ handler' = [handler EXCEPT !.pc = "ended"]
  /\ UNCHANGED <<upstream, wrapper, marked, errs, server, answer, leaving>>
----------------------------------------------------------------------------
(* The server's goroutine.  Every way out cancels the execution.           *)

Answer(end) ==
  /\ server' = [server EXCEPT !.pc = "done"]
  /\ answer' = [answer EXCEPT !.end = end]
  /\ leaving' = [leaving EXCEPT !.execution = TRUE]

ErrorReady == errs.pending /\ ~server.noErrs
DataClosed == handler.pc = "ended" /\ ~server.noData

\* A payload goes to the client: the first one commits it to a stream.
PassChunk ==
  /\ server.pc \in {"peek", "forward"} /\ handler.pc = "send"
  /\ answer' = [answer EXCEPT !.from = @ \cup {handler.attempt}]
  /\ handler' = [handler EXCEPT !.pc = "read"]
  /\ server' = [server EXCEPT !.pc = "forward"]
  /\ UNCHANGED <<upstream, wrapper, marked, errs, leaving>>

SeeClientLeave ==
  /\ server.pc \in {"peek", "forward"} /\ leaving.client
  /\ Answer("gone")
  /\ UNCHANGED <<upstream, wrapper, marked, handler, errs>>

\* WriteErrorResponse while peeking, WriteTerminalError while forwarding.
PassError ==
  /\ server.pc \in {"peek", "forward"} /\ ErrorReady
  /\ errs' = [errs EXCEPT !.pending = FALSE]
  /\ Answer("error")
  /\ UNCHANGED <<upstream, wrapper, marked, handler>>

\* While peeking, a channel of errors closed cleanly is not read again; in
\* ForwardStream it is, to no effect.
DropErrs ==
  /\ server.pc = "peek" /\ errs.closed /\ ~errs.pending /\ ~server.noErrs
  /\ server' = [server EXCEPT !.noErrs = TRUE]
  /\ UNCHANGED <<upstream, wrapper, marked, handler, errs, answer, leaving>>

\* Closed without data: the stream is ended as a complete one.
PeekEnds ==
  /\ server.pc = "peek" /\ DataClosed
  /\ Answer("done")
  /\ UNCHANGED <<upstream, wrapper, marked, handler, errs>>

\* Faulty variant: a closed stream is a complete one.
ForwardEndsBlindly ==
  /\ server.pc = "forward" /\ DataClosed
  /\ Answer("done")
  /\ UNCHANGED <<upstream, wrapper, marked, handler, errs>>

\* "Prefer surfacing a terminal error if one is pending."
ForwardEnds ==
  /\ server.pc = "forward" /\ DataClosed
  /\ Answer(IF ErrorReady THEN "error" ELSE "done")
  /\ errs' = [errs EXCEPT !.pending = @ /\ server.noErrs]
  /\ UNCHANGED <<upstream, wrapper, marked, handler>>
----------------------------------------------------------------------------
HandlerStep ==
  \/ TakeChunk \/ StreamEnds \/ RetryOpens \/ RetryFails
  \/ HandlerLeaves \/ SendError \/ CloseErrs \/ CloseData
ServerStep ==
  PassChunk \/ SeeClientLeave \/ PassError \/ DropErrs \/ PeekEnds \/ ForwardEnds
WrapperStep(a) == StopForwarding(a) \/ WrapperEnds(a)

StreamNext ==
  \/ CallOpens \/ CallFails \/ ClientLeaves \/ CancelExecution
  \/ \E a \in Attempts : ReadChunk(a) \/ UpstreamEnds(a) \/ WrapperStep(a)
  \/ HandlerStep \/ ServerStep

StreamSpec == StreamInit /\ [][StreamNext]_streamVars

\* Goroutines run.  The upstream need not end by itself, but reading it fails
\* or ends once the context of the execution is cancelled.
StreamFairness ==
  /\ \A a \in Attempts :
       /\ WF_streamVars(WrapperStep(a))
       /\ WF_streamVars(leaving.execution /\ UpstreamEnds(a))
  /\ WF_streamVars(HandlerStep)
  /\ WF_streamVars(ServerStep \/ CancelExecution)

FairStreamSpec == StreamSpec /\ StreamFairness
----------------------------------------------------------------------------
(* Properties.                                                             *)

\* The client is sent the payload of one attempt only: another is started
\* "before any payload bytes are sent" (handlers.go), and what the first may
\* still deliver goes nowhere.
OneVoice == Cardinality(answer.from) <= 1

\* Once payload has been forwarded, a stream is ended as complete only if its
\* upstream ended without an error, however closing the channels, reporting the
\* error and forwarding interleave.  A client that has left may be told anything.
CompleteMeansComplete ==
  (answer.end = "done" /\ ~leaving.client) =>
    \A a \in answer.from : upstream[a].state = "ended"

\* A client that stays is not misled about what it is sent.
ClientNotMisled == OneVoice /\ CompleteMeansComplete

\* Whatever way the request ends, the goroutines that served it end and every
\* attempt is marked: none waits forever for a reader that has gone.
StreamsEnd ==
  (server.pc = "done") ~>
    (handler.pc \in {"none", "ended"} /\
     \A a \in Attempts : wrapper[a].pc = "none" \/ (wrapper[a].pc = "ended" /\ marked[a] # "none"))
=============================================================================
