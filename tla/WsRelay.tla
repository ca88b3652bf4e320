------------------------------- MODULE WsRelay -------------------------------
(***************************************************************************)
(* The websocket relay (internal/wsrelay): requests travel to a connected  *)
(* client and its messages come back to the channel of the request they    *)
(* belong to.  Around one session run                                      *)
(*                                                                         *)
(*   its reader: handleWebsocket, which registers and announces it, and    *)
(*   then run and dispatch;                                                *)
(*   the heartbeat, from before it is registered;                          *)
(*   a goroutine per request, which sends and then consumes (NonStream) or *)
(*   forwards (Stream) what arrives;                                       *)
(*   a goroutine per request that waits for its context (request);         *)
(*   cleanup, by whoever is first: the reader, the heartbeat or Stop.      *)
(*                                                                         *)
(* The pending requests of a session are a sync.Map: each access is a step.*)
(* A channel may be closed by any of the last three, and a send on a       *)
(* closed channel ends the program, non-blocking or not.                   *)
(*                                                                         *)
(* The service sets no ProviderFactory, so every session has a provider    *)
(* name of its own and none is ever replaced.                              *)
(***************************************************************************)
EXTENDS Naturals, Sequences, FiniteSets

CONSTANTS Sessions, RelayRequests,
          SessionOf,           \* the provider a request is for
          ChannelSize,         \* buffer of a pending request's channel, 8
          ChunkLimit           \* bound: chunks of one response

ASSUME RelayAssumption ==
  /\ SessionOf \in [RelayRequests -> Sessions]
  /\ ChannelSize \in Nat \ {0} /\ ChunkLimit \in Nat

VARIABLES session,    \* session -> how far it has come
          reader, cleaner,
          registered, \* Manager.sessions
          offered,    \* sessions whose auth the service has been told of
          waiting,    \* session.pending
          channel,    \* request -> its channel
          request,    \* the goroutine of the request, made with Stream or NonStream
          context,    \* request -> its context and the goroutine that waits for it
          remote,     \* what the client has sent of each response
          crashed,    \* a send on a closed channel
          early       \* history: session -> what cleanup came too early to undo

relayVars == <<session, reader, cleaner, registered, offered, waiting, channel, request,
               context, remote, crashed, early>>
----------------------------------------------------------------------------
Terminal == {"response", "error", "end"}
Messages == Terminal \cup {"start", "chunk"}

RelayTypeOK ==
  /\ session \in [Sessions -> {"none", "open", "closing", "closed"}]
  /\ reader \in [Sessions -> [pc : {"none", "register", "announce", "reading", "deliver",
                                    "finish", "ended"},
                              for : RelayRequests \cup {"none"}, msg : Messages \cup {"none"}]]
  /\ cleaner \in [Sessions -> [pc : {"none", "range", "send", "forget", "tell", "ended"},
                               for : RelayRequests \cup {"none"}, left : SUBSET RelayRequests]]
  /\ registered \subseteq Sessions /\ offered \subseteq Sessions
  /\ waiting \in [Sessions -> SUBSET RelayRequests]
  /\ channel \in [RelayRequests -> [msgs : Seq(Messages), closed : BOOLEAN]]
  /\ \A r \in RelayRequests : Len(channel[r].msgs) <= ChannelSize
  /\ request \in [RelayRequests -> [pc : {"start", "store", "load", "send", "wait",
                                          "complete", "failed", "cancelled"},
                                    streamed : BOOLEAN, streamMode : BOOLEAN]]
  /\ context \in [RelayRequests -> [done : BOOLEAN, watch : {"none", "on", "ended"}]]
  /\ remote \in [RelayRequests -> [state : {"none", "asked", "streaming", "finished", "refused"},
                                   chunks : 0..ChunkLimit]]
  /\ crashed \in BOOLEAN /\ early \in [Sessions -> SUBSET {"register", "announce"}]

IdleReader == [pc |-> "none", for |-> "none", msg |-> "none"]
IdleCleaner == [pc |-> "none", for |-> "none", left |-> {}]

RelayInit ==
  /\ session = [s \in Sessions |-> "none"]
  /\ reader = [s \in Sessions |-> IdleReader]
  /\ cleaner = [s \in Sessions |-> IdleCleaner]
  /\ registered = {} /\ offered = {}
  /\ waiting = [s \in Sessions |-> {}]
  /\ channel = [r \in RelayRequests |-> [msgs |-> <<>>, closed |-> FALSE]]
  /\ request \in [RelayRequests -> [pc : {"start"}, streamed : BOOLEAN, streamMode : {FALSE}]]
  /\ context = [r \in RelayRequests |-> [done |-> FALSE, watch |-> "none"]]
  /\ remote = [r \in RelayRequests |-> [state |-> "none", chunks |-> 0]]
  /\ crashed = FALSE /\ early = [s \in Sessions |-> {}]
----------------------------------------------------------------------------
(* Channels.                                                               *)

\* A send in a select with a default: dropped when the buffer is full.
TrySend(r, msg) ==
  IF channel[r].closed
    THEN crashed' = TRUE /\ UNCHANGED channel
    ELSE /\ channel' = [channel EXCEPT ![r].msgs =
                          IF Len(@) < ChannelSize THEN Append(@, msg) ELSE @]
         /\ UNCHANGED crashed

\* The channels once pendingRequest.close has been called for those in R.
Closed(R) == [r \in RelayRequests |-> IF r \in R THEN [channel[r] EXCEPT !.closed = TRUE]
                                                 ELSE channel[r]]

\* pending.LoadAndDelete and close: only for one that is still there.
DeleteAndClose(s, r) ==
  /\ channel' = Closed({r} \cap waiting[s])
  /\ waiting' = [waiting EXCEPT ![s] = @ \ {r}]
----------------------------------------------------------------------------
(* handleWebsocket: a new session with its heartbeat, which is registered, *)
(* offered to the service and read from, whatever has become of it.        *)

Connect(s) ==
  /\ session[s] = "none"
  /\ session' = [session EXCEPT ![s] = "open"]
  /\ reader' = [reader EXCEPT ![s].pc = "register"]
  /\ UNCHANGED <<cleaner, registered, offered, waiting, channel, request, context, remote, crashed,
                 early>>

Register(s) ==
  /\ reader[s].pc = "register"
  /\ registered' = registered \cup {s}
  /\ reader' = [reader EXCEPT ![s].pc = "announce"]
  /\ UNCHANGED <<session, cleaner, offered, waiting, channel, request, context, remote, crashed,
                 early>>

Announce(s) ==
  /\ reader[s].pc = "announce"
  /\ offered' = offered \cup {s}
  /\ reader' = [reader EXCEPT ![s].pc = "reading"]
  /\ UNCHANGED <<session, cleaner, registered, waiting, channel, request, context, remote, crashed,
                 early>>
----------------------------------------------------------------------------
(* Manager.Send and session.request.                                       *)

RequestGoes(r, pc) == request' = [request EXCEPT ![r].pc = pc]

FindSession(r) ==
  /\ request[r].pc = "start"
  /\ RequestGoes(r, IF SessionOf[r] \in registered THEN "store" ELSE "failed")
  /\ UNCHANGED <<session, reader, cleaner, registered, offered, waiting, channel, context, remote,
                 crashed, early>>

StorePending(r) ==
  /\ request[r].pc = "store"
  /\ waiting' = [waiting EXCEPT ![SessionOf[r]] = @ \cup {r}]
  /\ RequestGoes(r, "load")
  /\ UNCHANGED <<session, reader, cleaner, registered, offered, channel, context, remote, crashed,
                 early>>

\* The entry is loaded again; if cleanup has emptied the map in between, the
\* type assertion panics, which the HTTP server turns into a failed request.
LoadPending(r) ==
  /\ request[r].pc = "load"
  /\ RequestGoes(r, IF r \in waiting[SessionOf[r]] THEN "send" ELSE "failed")
  /\ UNCHANGED <<session, reader, cleaner, registered, offered, waiting, channel, context, remote,
                 crashed, early>>

\* Written to the client; its context is watched from now on.
SendRequest(r) ==
  /\ request[r].pc = "send" /\ session[SessionOf[r]] = "open"
  /\ remote' = [remote EXCEPT ![r].state = "asked"]
  /\ context' = [context EXCEPT ![r].watch = "on"]
  /\ RequestGoes(r, "wait")
  /\ UNCHANGED <<session, reader, cleaner, registered, offered, waiting, channel, crashed,
                 early>>

\* The session is closed, or writing fails.
SendFails(r) ==
  /\ request[r].pc = "send"
  /\ DeleteAndClose(SessionOf[r], r)
  /\ RequestGoes(r, "failed")
  /\ UNCHANGED <<session, reader, cleaner, registered, offered, context, remote, crashed,
                 early>>

\* The caller goes away: its client disconnects, or a deadline passes.
CancelContext(r) ==
  /\ request[r].pc \in {"store", "load", "send", "wait"} /\ ~context[r].done
  /\ context' = [context EXCEPT ![r].done = TRUE]
  /\ UNCHANGED <<session, reader, cleaner, registered, offered, waiting, channel, request, remote,
                 crashed, early>>

\* The goroutine that waits for the context or the end of the session.
WatchContext(r) ==
  /\ context[r].watch = "on"
  /\ \/ context[r].done /\ DeleteAndClose(SessionOf[r], r)
     \/ session[SessionOf[r]] # "open" /\ UNCHANGED <<channel, waiting>>
  /\ context' = [context EXCEPT ![r].watch = "ended"]
  /\ UNCHANGED <<session, reader, cleaner, registered, offered, request, remote, crashed,
                 early>>
----------------------------------------------------------------------------
(* The caller: NonStream and the goroutine of Stream.                      *)

\* Faulty variant: a stream that breaks off counts as one that ended.
AfterMessageLenient(r, msg) ==
  CASE msg \in {"response", "end", "error"} -> [request[r] EXCEPT !.pc = "complete"]
    [] OTHER -> [request[r] EXCEPT !.streamMode = TRUE]

AfterMessage(r, msg) ==
  CASE msg \in {"response", "end"} -> [request[r] EXCEPT !.pc = "complete"]
    [] msg = "error" -> [request[r] EXCEPT !.pc = "failed"]
    [] OTHER -> [request[r] EXCEPT !.streamMode = TRUE]

ConsumeMessage(r) ==
  /\ request[r].pc = "wait" /\ channel[r].msgs # <<>>
  /\ request' = [request EXCEPT ![r] = AfterMessage(r, Head(channel[r].msgs))]
  /\ channel' = [channel EXCEPT ![r].msgs = Tail(@)]
  /\ UNCHANGED <<session, reader, cleaner, registered, offered, waiting, context, remote, crashed,
                 early>>

\* The channel is closed and empty.  NonStream takes what it has for the
\* whole body once a stream has begun.
ConsumeClosed(r) ==
  /\ request[r].pc = "wait" /\ channel[r].msgs = <<>> /\ channel[r].closed
  /\ RequestGoes(r, IF ~request[r].streamed /\ request[r].streamMode THEN "complete"
                    ELSE "failed")
  /\ UNCHANGED <<session, reader, cleaner, registered, offered, waiting, channel, context, remote,
                 crashed, early>>

ConsumeCancelled(r) ==
  /\ request[r].pc = "wait" /\ context[r].done
  /\ RequestGoes(r, "cancelled")
  /\ UNCHANGED <<session, reader, cleaner, registered, offered, waiting, channel, context, remote,
                 crashed, early>>
----------------------------------------------------------------------------
(* The reader.                                                             *)

\* A client that answers: one response, or an error, or a stream.
Answers(r) ==
  CASE remote[r].state = "asked"     -> {"response", "error", "start"}
    [] remote[r].state = "streaming" -> {"error", "end"} \cup
                                        (IF remote[r].chunks < ChunkLimit THEN {"chunk"} ELSE {})
    [] OTHER -> {}

AfterAnswer(r, msg) ==
  [ state  |-> CASE msg \in {"response", "end"} -> "finished"
                 [] msg = "error" -> "refused"
                 [] OTHER -> "streaming",
    chunks |-> IF msg = "chunk" THEN remote[r].chunks + 1 ELSE remote[r].chunks ]

\* A message is read and its pending request loaded, if there is one.
ReadMessage(s) ==
  /\ reader[s].pc = "reading" /\ session[s] \in {"open", "closing"}
  /\ \E r \in {q \in RelayRequests : SessionOf[q] = s} : \E msg \in Answers(r) :
       /\ remote' = [remote EXCEPT ![r] = AfterAnswer(r, msg)]
       /\ reader' = [reader EXCEPT ![s] =
            IF r \in waiting[s] THEN [pc |-> "deliver", for |-> r, msg |-> msg] ELSE @]
  /\ UNCHANGED <<session, cleaner, registered, offered, waiting, channel, request, context, crashed,
                 early>>

Deliver(s) ==
  /\ reader[s].pc = "deliver"
  /\ TrySend(reader[s].for, reader[s].msg)
  /\ reader' = [reader EXCEPT ![s] =
       IF reader[s].msg \in Terminal THEN [@ EXCEPT !.pc = "finish"]
                                     ELSE [IdleReader EXCEPT !.pc = "reading"]]
  /\ UNCHANGED <<session, cleaner, registered, offered, waiting, request, context, remote,
                 early>>

\* After a terminal message the request is no longer pending.
Finish(s) ==
  /\ reader[s].pc = "finish"
  /\ DeleteAndClose(s, reader[s].for)
  /\ reader' = [reader EXCEPT ![s] = [IdleReader EXCEPT !.pc = "reading"]]
  /\ UNCHANGED <<session, cleaner, registered, offered, request, context, remote, crashed,
                 early>>

\* ReadJSON fails on a closed connection; cleanup has begun already.
ReaderEnds(s) ==
  /\ reader[s].pc = "reading" /\ session[s] = "closed"
  /\ reader' = [reader EXCEPT ![s].pc = "ended"]
  /\ UNCHANGED <<session, cleaner, registered, offered, waiting, channel, request, context, remote,
                 crashed, early>>
----------------------------------------------------------------------------
(* cleanup, in closeOnce.                                                  *)

BeginCleanup(s) ==
  /\ session[s] = "open"
  /\ session' = [session EXCEPT ![s] = "closing"]
  /\ cleaner' = [cleaner EXCEPT ![s] = [pc |-> "range", for |-> "none", left |-> waiting[s]]]
  /\ UNCHANGED <<reader, offered, waiting, channel, request, context, remote, crashed>>

\* Reading fails, or the heartbeat does, which runs before the session is registered.
SessionFails(s) == BeginCleanup(s) /\ UNCHANGED <<registered, early>>

\* Manager.Stop has emptied the map of sessions and comes to one it took from
\* there, which may have been cleaned up.
StopSession(s) ==
  /\ reader[s].pc \notin {"none", "register"}
  /\ registered' = {} /\ UNCHANGED early
  /\ \/ BeginCleanup(s)
     \/ session[s] # "open" /\ UNCHANGED <<session, cleaner, reader, offered, waiting, channel,
                                           request, context, remote, crashed>>

\* pending.Range comes to one more entry, or finds it deleted.
CleanNext(s) ==
  /\ cleaner[s].pc = "range"
  /\ \E r \in cleaner[s].left :
       cleaner' = [cleaner EXCEPT ![s].left = @ \ {r},
                     ![s].pc = IF r \in waiting[s] THEN "send" ELSE "range",
                     ![s].for = IF r \in waiting[s] THEN r ELSE "none"]
  /\ UNCHANGED <<session, reader, registered, offered, waiting, channel, request, context, remote,
                 crashed, early>>

\* Faulty variant: the channel gets the error and is left open.
CleanOneOpen(s) ==
  LET r == cleaner[s].for
  IN /\ cleaner[s].pc = "send"
     /\ TrySend(r, "error")
     /\ cleaner' = [cleaner EXCEPT ![s].pc = "range", ![s].for = "none"]
     /\ UNCHANGED <<session, reader, registered, offered, waiting, request, context, remote,
                    early>>

\* An error for the request, if its channel takes one, and the end.
CleanOne(s) ==
  LET r == cleaner[s].for
  IN /\ cleaner[s].pc = "send"
     /\ \/ channel[r].closed /\ TrySend(r, "error")
        \/ /\ ~channel[r].closed /\ UNCHANGED crashed
           /\ channel' = [channel EXCEPT ![r] =
                [msgs |-> IF Len(@.msgs) < ChannelSize THEN Append(@.msgs, "error") ELSE @.msgs,
                 closed |-> TRUE]]
     /\ cleaner' = [cleaner EXCEPT ![s].pc = "range", ![s].for = "none"]
     /\ UNCHANGED <<session, reader, registered, offered, waiting, request, context, remote,
                    early>>

\* The map is replaced by an empty one, the connection closed.
CleanReset(s) ==
  /\ cleaner[s].pc = "range" /\ cleaner[s].left = {}
  /\ waiting' = [waiting EXCEPT ![s] = {}]
  /\ session' = [session EXCEPT ![s] = "closed"]
  /\ cleaner' = [cleaner EXCEPT ![s].pc = "forget"]
  /\ UNCHANGED <<reader, registered, offered, channel, request, context, remote, crashed,
                 early>>

\* handleSessionClosed: the session is no longer one of the manager's, if it is yet.
CleanForget(s) ==
  /\ cleaner[s].pc = "forget"
  /\ registered' = registered \ {s}
  /\ early' = [early EXCEPT ![s] = IF reader[s].pc = "register" THEN @ \cup {"register"} ELSE @]
  /\ cleaner' = [cleaner EXCEPT ![s].pc = "tell"]
  /\ UNCHANGED <<session, reader, offered, waiting, channel, request, context, remote, crashed>>

\* Faulty variant: the service is not told.
CleanTellNobody(s) ==
  /\ cleaner[s].pc = "tell"
  /\ cleaner' = [cleaner EXCEPT ![s].pc = "ended"]
  /\ UNCHANGED <<session, reader, registered, offered, waiting, channel, request, context, remote,
                 crashed, early>>

\* onDisconnected: the service takes the auth back, if it has heard of it.
CleanTell(s) ==
  /\ cleaner[s].pc = "tell"
  /\ offered' = offered \ {s}
  /\ early' = [early EXCEPT ![s] =
       IF reader[s].pc \in {"register", "announce"} THEN @ \cup {"announce"} ELSE @]
  /\ cleaner' = [cleaner EXCEPT ![s].pc = "ended"]
  /\ UNCHANGED <<session, reader, registered, waiting, channel, request, context, remote, crashed>>
----------------------------------------------------------------------------
RequestStep(r) ==
  \/ FindSession(r) \/ StorePending(r) \/ LoadPending(r) \/ SendRequest(r) \/ SendFails(r)
  \/ ConsumeMessage(r) \/ ConsumeClosed(r) \/ ConsumeCancelled(r)
ReaderStep(s) == Register(s) \/ Announce(s) \/ Deliver(s) \/ Finish(s) \/ ReaderEnds(s)
CleanerStep(s) ==
  CleanNext(s) \/ CleanOne(s) \/ CleanReset(s) \/ CleanForget(s) \/ CleanTell(s)

RelayNext ==
  /\ ~crashed
  /\ \/ \E r \in RelayRequests : RequestStep(r) \/ CancelContext(r) \/ WatchContext(r)
     \/ \E s \in Sessions :
          \/ Connect(s) \/ ReadMessage(s) \/ ReaderStep(s)
          \/ SessionFails(s) \/ StopSession(s) \/ CleanerStep(s)

RelaySpec == RelayInit /\ [][RelayNext]_relayVars

\* Goroutines run: a request that has been made, the handler of a connection, the
\* reader with a message in its hands, cleanup once it has begun.  The client need not answer.
RelayFairness ==
  /\ \A r \in RelayRequests :
       WF_relayVars(~crashed /\ request[r].pc # "start" /\ RequestStep(r))
  /\ \A s \in Sessions :
       /\ WF_relayVars(~crashed /\ ReaderStep(s))
       /\ WF_relayVars(~crashed /\ CleanerStep(s))

FairRelaySpec == RelaySpec /\ RelayFairness
----------------------------------------------------------------------------
(* Properties.                                                             *)

Ended == {"complete", "failed", "cancelled"}

\* "Stop gracefully closes all active websocket sessions" and Send "returns a
\* channel yielding response messages" (manager.go): closing sessions, answers
\* and cancelled requests may meet without ending the program.
NoSendOnClosed == ~crashed

\* A caller that waits on a session that ends is let go.
SessionEndsRequests ==
  \A r \in RelayRequests :
    (request[r].pc = "wait" /\ session[SessionOf[r]] # "open")
      ~> (request[r].pc \in Ended \/ crashed)

\* A stream is passed on as complete only if the client has completed it, however
\* its session, its context and the reader's deliveries end.
StreamsEndHonestly ==
  \A r \in RelayRequests :
    (request[r].streamed /\ request[r].pc = "complete") => remote[r].state = "finished"

\* When a session is over and cleaned up, the manager does not know it any more and
\* the service has taken its auth back, in whatever order the reader, the heartbeat
\* and Stop find it at its end, unless cleanup was done before the handler came to
\* register or to announce it: a failed ping, or Stop, may be that early, and what
\* is registered or announced then stays.
AuthGoesWithSession ==
  \A s \in Sessions : cleaner[s].pc = "ended" =>
    /\ s \in registered => "register" \in early[s]
    /\ s \in offered => "announce" \in early[s]
=============================================================================
