---------------------------- MODULE AnswerProofs ----------------------------
(***************************************************************************)
(* How answers reach clients, proved for any number of requests and        *)
(* sessions and any lengths of answers, in three parts: the websocket      *)
(* relay, the executors' calls of a provider, and the response streams.    *)
(***************************************************************************)
EXTENDS WsRelay, ProviderCalls, ResponseStream, FiniteSetTheorems, SequenceTheorems, TLAPS
----------------------------------------------------------------------------
(* The relay.  A relayed stream is complete only if its client completed   *)
(* it, and an auth goes with its session.                                  *)
(*                                                                         *)
(* The first follows a message that ends an answer well from the client to *)
(* the caller: in the reader's hands, in the request's channel.  The       *)
(* second turns on what the handler of a connection has still to do when a *)
(* cleanup is done with the session.                                       *)

Readers == [pc : {"none", "register", "announce", "reading", "deliver", "finish", "ended"},
            for : RelayRequests \cup {"none"}, msg : Messages \cup {"none"}]
Cleaners == [pc : {"none", "range", "send", "forget", "tell", "ended"},
             for : RelayRequests \cup {"none"}, left : SUBSET RelayRequests]
Channels == [msgs : Seq(Messages), closed : BOOLEAN]
Requests == [pc : {"start", "store", "load", "send", "wait", "complete", "failed", "cancelled"},
             streamed : BOOLEAN, streamMode : BOOLEAN]
Contexts == [done : BOOLEAN, watch : {"none", "on", "ended"}]
Remotes == [state : {"none", "asked", "streaming", "finished", "refused"}, chunks : 0..ChunkLimit]

WellEnds == {"response", "end"}

HeldHonestly ==
  \A s \in Sessions :
    /\ reader[s].pc \in {"deliver", "finish"} => reader[s].for \in RelayRequests /\ reader[s].msg \in Messages
    /\ reader[s].pc = "deliver" /\ reader[s].msg \in WellEnds => remote[reader[s].for].state = "finished"

ChannelHonest ==
  \A r \in RelayRequests : \A i \in 1..Len(channel[r].msgs) :
    channel[r].msgs[i] \in WellEnds => remote[r].state = "finished"

\* A request that was not sent is not answered.
NotAskedYet ==
  \A r \in RelayRequests :
    request[r].pc \in {"start", "store", "load", "send"} => remote[r].state = "none"

CleanerHolds == \A s \in Sessions : cleaner[s].pc = "send" => cleaner[s].for \in RelayRequests

\* What a cleanup does not undo because the handler has it still to do is on record.
CleanedEarly ==
  \A s \in Sessions :
    /\ session[s] = "none" => cleaner[s].pc = "none"
    /\ cleaner[s].pc \in {"tell", "ended"} /\ (s \in registered \/ reader[s].pc = "register")
         => "register" \in early[s]
    /\ cleaner[s].pc = "ended" /\ (s \in offered \/ reader[s].pc \in {"register", "announce"})
         => "announce" \in early[s]

RelayInv ==
  /\ RelayTypeOK /\ HeldHonestly /\ ChannelHonest /\ NotAskedYet /\ CleanerHolds /\ CleanedEarly
  /\ StreamsEndHonestly /\ AuthGoesWithSession
----------------------------------------------------------------------------
\* The types by the names used here.
LEMMA RelayTypes ==
  RelayTypeOK <=>
    /\ session \in [Sessions -> {"none", "open", "closing", "closed"}]
    /\ reader \in [Sessions -> Readers] /\ cleaner \in [Sessions -> Cleaners]
    /\ registered \subseteq Sessions /\ offered \subseteq Sessions
    /\ waiting \in [Sessions -> SUBSET RelayRequests]
    /\ channel \in [RelayRequests -> Channels]
    /\ \A r \in RelayRequests : Len(channel[r].msgs) <= ChannelSize
    /\ request \in [RelayRequests -> Requests] /\ context \in [RelayRequests -> Contexts]
    /\ remote \in [RelayRequests -> Remotes]
    /\ crashed \in BOOLEAN /\ early \in [Sessions -> SUBSET {"register", "announce"}]
BY DEF RelayTypeOK, Readers, Cleaners, Channels, Requests, Contexts, Remotes

\* The same of the next state.
LEMMA RelayTypesNext ==
  RelayTypeOK' <=>
    /\ session' \in [Sessions -> {"none", "open", "closing", "closed"}]
    /\ reader' \in [Sessions -> Readers] /\ cleaner' \in [Sessions -> Cleaners]
    /\ registered' \subseteq Sessions /\ offered' \subseteq Sessions
    /\ waiting' \in [Sessions -> SUBSET RelayRequests]
    /\ channel' \in [RelayRequests -> Channels]
    /\ \A r \in RelayRequests : Len(channel'[r].msgs) <= ChannelSize
    /\ request' \in [RelayRequests -> Requests] /\ context' \in [RelayRequests -> Contexts]
    /\ remote' \in [RelayRequests -> Remotes]
    /\ crashed' \in BOOLEAN /\ early' \in [Sessions -> SUBSET {"register", "announce"}]
BY DEF RelayTypeOK, Readers, Cleaners, Channels, Requests, Contexts, Remotes

LEMMA InitRelay == RelayInit => RelayInv
<1> SUFFICES ASSUME RelayInit PROVE RelayInv
  OBVIOUS
<1> USE RelayAssumption DEF RelayInit, IdleReader, IdleCleaner
<1>1. request \in [RelayRequests -> Requests] /\ \A r \in RelayRequests : request[r].pc = "start"
  BY DEF Requests
<1>2. reader \in [Sessions -> Readers] /\ \A s \in Sessions : reader[s].pc = "none"
  BY DEF Readers
<1>3. cleaner \in [Sessions -> Cleaners] /\ \A s \in Sessions : cleaner[s].pc = "none"
  BY DEF Cleaners
<1>4. channel \in [RelayRequests -> Channels] /\ \A r \in RelayRequests : channel[r].msgs = <<>>
  BY DEF Channels
<1>5. context \in [RelayRequests -> Contexts]
  BY DEF Contexts
<1>6. remote \in [RelayRequests -> Remotes] /\ \A r \in RelayRequests : remote[r].state = "none"
  BY DEF Remotes
<1>7. /\ session \in [Sessions -> {"none", "open", "closing", "closed"}]
      /\ waiting \in [Sessions -> SUBSET RelayRequests]
      /\ registered = {} /\ offered = {} /\ crashed = FALSE
      /\ early \in [Sessions -> SUBSET {"register", "announce"}]
  OBVIOUS
<1> HIDE DEF RelayInit, IdleReader, IdleCleaner
<1>8. RelayTypeOK
  <2>1. \A r \in RelayRequests : Len(channel[r].msgs) <= ChannelSize
    BY <1>4
  <2> QED
    BY <1>1, <1>2, <1>3, <1>4, <1>5, <1>6, <1>7, <2>1, RelayTypes
<1> QED
  BY <1>1, <1>2, <1>3, <1>4, <1>6, <1>7, <1>8
     DEF RelayInv, HeldHonestly, ChannelHonest, NotAskedYet, CleanerHolds, CleanedEarly,
         StreamsEndHonestly, AuthGoesWithSession

\* Closing channels leaves their messages in them.
LEMMA ClosingKeeps ==
  ASSUME RelayTypeOK, NEW R
  PROVE  /\ Closed(R) \in [RelayRequests -> Channels]
         /\ \A q \in RelayRequests : Closed(R)[q].msgs = channel[q].msgs
<1>1. ASSUME NEW q \in RelayRequests
      PROVE  LET c == [channel[q] EXCEPT !.closed = TRUE]
             IN c \in Channels /\ c.msgs = channel[q].msgs /\ channel[q] \in Channels
  <2>1. channel[q] \in Channels
    BY RelayTypes
  <2> QED
    BY <2>1 DEF Channels
<1> QED
  BY <1>1 DEF Closed

\* A message sent without waiting is at the end of the channel, or dropped.
LEMMA SendingAdds ==
  ASSUME RelayTypeOK, NEW r \in RelayRequests, NEW msg \in Messages, TrySend(r, msg)
  PROVE  /\ channel' \in [RelayRequests -> Channels] /\ crashed' \in BOOLEAN
         /\ \A q \in RelayRequests :
              /\ Len(channel'[q].msgs) <= ChannelSize
              /\ \A i \in 1..Len(channel'[q].msgs) :
                   \/ i \in 1..Len(channel[q].msgs) /\ channel'[q].msgs[i] = channel[q].msgs[i]
                   \/ q = r /\ channel'[q].msgs[i] = msg
<1>1. CASE channel[r].closed
  BY <1>1, RelayTypes DEF TrySend
<1>2. CASE ~channel[r].closed
  <2> DEFINE old == channel[r].msgs
             new == IF Len(old) < ChannelSize THEN Append(old, msg) ELSE old
  <2>1. old \in Seq(Messages) /\ Len(old) <= ChannelSize /\ ChannelSize \in Nat
    BY RelayTypes, RelayAssumption DEF Channels
  <2>2. /\ new \in Seq(Messages) /\ Len(new) <= ChannelSize
        /\ \A i \in 1..Len(new) : (i \in 1..Len(old) /\ new[i] = old[i]) \/ new[i] = msg
    BY <2>1
  <2>3. channel' = [channel EXCEPT ![r].msgs = new] /\ UNCHANGED crashed
    BY <1>2 DEF TrySend
  <2> HIDE DEF new
  <2>4. /\ channel' \in [RelayRequests -> Channels] /\ channel'[r].msgs = new
        /\ \A q \in RelayRequests \ {r} : channel'[q] = channel[q]
    <3>1. channel[r] \in Channels /\ channel \in [RelayRequests -> Channels]
      BY RelayTypes
    <3> QED
      BY <2>2, <2>3, <3>1 DEF Channels
  <2> QED
    BY <2>2, <2>3, <2>4, RelayTypes
<1> QED
  BY <1>1, <1>2
----------------------------------------------------------------------------
(* Steps of sessions that touch no channel.                                *)

LEMMA SessionStepInv ==
  ASSUME RelayInv, NEW s \in Sessions,
         \/ Connect(s) \/ Register(s) \/ Announce(s) \/ ReaderEnds(s) \/ SessionFails(s)
         \/ StopSession(s) \/ CleanNext(s) \/ CleanReset(s) \/ CleanForget(s) \/ CleanTell(s)
  PROVE  RelayInv'
<1> DEFINE Begins == /\ session[s] = "open" /\ session' = [session EXCEPT ![s] = "closing"]
                     /\ cleaner' = [cleaner EXCEPT ![s] =
                          [pc |-> "range", for |-> "none", left |-> waiting[s]]]
<1>0. /\ session \in [Sessions -> {"none", "open", "closing", "closed"}]
      /\ reader \in [Sessions -> Readers] /\ cleaner \in [Sessions -> Cleaners]
      /\ reader[s] \in Readers /\ cleaner[s] \in Cleaners
      /\ waiting \in [Sessions -> SUBSET RelayRequests]
      /\ registered \subseteq Sessions /\ offered \subseteq Sessions
      /\ early \in [Sessions -> SUBSET {"register", "announce"}]
  BY RelayTypes DEF RelayInv
\* The steps, by what they change.
<1>1. /\ UNCHANGED <<channel, request, context, remote, crashed>>
      /\ \/ /\ session[s] = "none" /\ session' = [session EXCEPT ![s] = "open"]
            /\ reader' = [reader EXCEPT ![s].pc = "register"]
            /\ UNCHANGED <<cleaner, registered, offered, waiting, early>>
         \/ /\ reader[s].pc = "register" /\ reader' = [reader EXCEPT ![s].pc = "announce"]
            /\ registered' = registered \cup {s}
            /\ UNCHANGED <<session, cleaner, offered, waiting, early>>
         \/ /\ reader[s].pc = "announce" /\ reader' = [reader EXCEPT ![s].pc = "reading"]
            /\ offered' = offered \cup {s}
            /\ UNCHANGED <<session, cleaner, registered, waiting, early>>
         \/ /\ reader' = [reader EXCEPT ![s].pc = "ended"]
            /\ UNCHANGED <<session, cleaner, registered, offered, waiting, early>>
         \/ /\ Begins \/ UNCHANGED <<session, cleaner>>
            /\ registered' = registered \/ registered' = {}
            /\ UNCHANGED <<reader, offered, waiting, early>>
         \/ CleanNext(s)
         \/ CleanReset(s)
         \/ CleanForget(s)
         \/ CleanTell(s)
  BY DEF Connect, Register, Announce, ReaderEnds, SessionFails, StopSession, BeginCleanup,
         CleanNext, CleanReset, CleanForget, CleanTell
<1>2. /\ reader' \in [Sessions -> Readers]
      /\ \A t \in Sessions : t # s => reader'[t] = reader[t]
      /\ \/ reader' = reader
         \/ reader'[s].pc \in {"reading", "ended"} /\ reader' = [reader EXCEPT ![s].pc = reader'[s].pc]
         \/ reader'[s].pc = "register" /\ session[s] = "none"
         \/ reader'[s].pc = "announce" /\ reader[s].pc = "register"
  <2>1. ASSUME NEW p \in {"register", "announce", "reading", "ended"},
               reader' = [reader EXCEPT ![s].pc = p]
        PROVE  /\ reader' \in [Sessions -> Readers] /\ reader'[s].pc = p
               /\ \A t \in Sessions : t # s => reader'[t] = reader[t]
    BY <1>0, <2>1 DEF Readers
  <2>2. \/ reader' = reader
        \/ reader' = [reader EXCEPT ![s].pc = "reading"]
        \/ reader' = [reader EXCEPT ![s].pc = "ended"]
        \/ reader' = [reader EXCEPT ![s].pc = "register"] /\ session[s] = "none"
        \/ reader' = [reader EXCEPT ![s].pc = "announce"] /\ reader[s].pc = "register"
    BY <1>1 DEF CleanNext, CleanReset, CleanForget, CleanTell
  <2> QED
    BY <1>0, <2>1, <2>2
<1>3. /\ cleaner' \in [Sessions -> Cleaners]
      /\ \A t \in Sessions : t # s => cleaner'[t] = cleaner[t]
      /\ \/ cleaner' = cleaner
         \/ cleaner'[s].pc \in {"range", "forget"} /\ (session[s] = "open" \/ cleaner[s].pc # "none")
         \/ cleaner'[s].pc = "send" /\ cleaner'[s].for \in RelayRequests /\ cleaner[s].pc # "none"
         \/ cleaner'[s].pc = "tell" /\ CleanForget(s)
         \/ cleaner'[s].pc = "ended" /\ CleanTell(s)
  <2>1. CASE UNCHANGED cleaner
    BY <1>0, <2>1
  <2>2. CASE Begins
    <3> DEFINE c == [pc |-> "range", for |-> "none", left |-> waiting[s]]
    <3>1. c \in Cleaners /\ c.pc = "range"
      BY <1>0 DEF Cleaners
    <3>2. cleaner' = [cleaner EXCEPT ![s] = c] /\ session[s] = "open"
      BY <2>2
    <3> HIDE DEF c
    <3> QED
      BY <1>0, <3>1, <3>2
  <2>3. CASE CleanNext(s)
    <3>1. cleaner[s].pc = "range"
      BY <2>3 DEF CleanNext
    <3>2. PICK q \in cleaner[s].left :
            cleaner' = [cleaner EXCEPT ![s].left = @ \ {q},
                          ![s].pc = IF q \in waiting[s] THEN "send" ELSE "range",
                          ![s].for = IF q \in waiting[s] THEN q ELSE "none"]
      BY <2>3 DEF CleanNext
    <3> DEFINE L == cleaner[s].left \ {q}
               p == IF q \in waiting[s] THEN "send" ELSE "range"
               x == IF q \in waiting[s] THEN q ELSE "none"
    <3>4. /\ L \in SUBSET RelayRequests /\ p \in {"send", "range"}
          /\ x \in RelayRequests \cup {"none"} /\ (p = "send" => x \in RelayRequests)
      BY <1>0 DEF Cleaners
    <3>5. cleaner' = [cleaner EXCEPT ![s].left = L, ![s].pc = p, ![s].for = x]
      BY <3>2
    <3> HIDE DEF L, p, x
    <3>6. /\ cleaner' \in [Sessions -> Cleaners]
          /\ \A t \in Sessions : t # s => cleaner'[t] = cleaner[t]
          /\ cleaner'[s].pc = p /\ cleaner'[s].for = x
      BY <1>0, <3>4, <3>5 DEF Cleaners
    <3> QED
      BY <3>1, <3>4, <3>6
  <2>4. ASSUME NEW p \in {"forget", "tell", "ended"}, cleaner' = [cleaner EXCEPT ![s].pc = p]
        PROVE  /\ cleaner' \in [Sessions -> Cleaners] /\ cleaner'[s].pc = p
               /\ \A t \in Sessions : t # s => cleaner'[t] = cleaner[t]
    BY <1>0, <2>4 DEF Cleaners
  <2>5. CASE CleanReset(s)
    BY <2>4, <2>5 DEF CleanReset
  <2>6. CASE CleanForget(s)
    BY <2>4, <2>6 DEF CleanForget
  <2>7. CASE CleanTell(s)
    BY <2>4, <2>7 DEF CleanTell
  <2> HIDE DEF Begins
  <2> QED
    BY <1>1, <2>1, <2>2, <2>3, <2>5, <2>6, <2>7
<1>4. /\ session' \in [Sessions -> {"none", "open", "closing", "closed"}]
      /\ \A t \in Sessions : session'[t] = "none" => session[t] = "none" /\ (t = s => cleaner'[s] = cleaner[s])
  <2>1. \/ UNCHANGED session /\ (session[s] = "none" => cleaner' = cleaner)
        \/ session' = [session EXCEPT ![s] = "open"]
        \/ session' = [session EXCEPT ![s] = "closing"]
        \/ session' = [session EXCEPT ![s] = "closed"]
    BY <1>0, <1>1 DEF CleanNext, CleanReset, CleanForget, CleanTell, RelayInv, CleanedEarly
  <2> QED
    BY <1>0, <2>1
<1>5. /\ registered' \subseteq Sessions /\ offered' \subseteq Sessions
      /\ waiting' \in [Sessions -> SUBSET RelayRequests]
      /\ early' \in [Sessions -> SUBSET {"register", "announce"}]
      /\ \A t \in Sessions : early[t] \subseteq early'[t]
      /\ \A t \in Sessions : t # s => (t \in registered' => t \in registered) /\ (t \in offered' => t \in offered)
  <2>1. \/ early' = early
        \/ early' = [early EXCEPT ![s] = early[s] \cup {"register"}]
        \/ early' = [early EXCEPT ![s] = early[s] \cup {"announce"}]
    BY <1>0, <1>1 DEF CleanNext, CleanReset, CleanForget, CleanTell
  <2>2. waiting' = waiting \/ waiting' = [waiting EXCEPT ![s] = {}]
    BY <1>1 DEF CleanNext, CleanReset, CleanForget, CleanTell
  <2>3. /\ registered' = registered \/ registered' = {} \/ registered' = registered \cup {s}
             \/ registered' = registered \ {s}
        /\ offered' = offered \/ offered' = offered \cup {s} \/ offered' = offered \ {s}
    BY <1>1 DEF CleanNext, CleanReset, CleanForget, CleanTell
  <2> QED
    BY <1>0, <2>1, <2>2, <2>3
<1>8. RelayTypeOK'
  BY <1>1, <1>2, <1>3, <1>4, <1>5, RelayTypes, RelayTypesNext DEF RelayInv
<1>9. \A t \in Sessions : reader'[t].pc \in {"deliver", "finish"} => reader'[t] = reader[t]
  BY <1>2
<1>10. HeldHonestly' /\ ChannelHonest' /\ NotAskedYet' /\ StreamsEndHonestly'
  BY <1>1, <1>9 DEF RelayInv, HeldHonestly, ChannelHonest, NotAskedYet, StreamsEndHonestly
<1>11. CleanerHolds'
  BY <1>3 DEF RelayInv, CleanerHolds
\* The session that steps: what the handler has done, or has still to do.
<1>12. /\ cleaner'[s].pc \in {"tell", "ended"} /\ (s \in registered' \/ reader'[s].pc = "register")
            => "register" \in early'[s]
       /\ cleaner'[s].pc = "ended" /\ (s \in offered' \/ reader'[s].pc \in {"register", "announce"})
            => "announce" \in early'[s]
  <2>1. CASE CleanForget(s)
    <3>1. /\ s \notin registered' /\ reader' = reader
          /\ early' = [early EXCEPT ![s] = IF reader[s].pc = "register" THEN @ \cup {"register"} ELSE @]
          /\ cleaner' = [cleaner EXCEPT ![s].pc = "tell"]
      BY <2>1 DEF CleanForget
    <3>2. cleaner'[s].pc = "tell"
      BY <1>0, <3>1 DEF Cleaners
    <3> QED
      BY <1>0, <3>1, <3>2
  <2>2. CASE CleanTell(s)
    <3>1. /\ s \notin offered' /\ UNCHANGED <<reader, registered>> /\ cleaner[s].pc = "tell"
          /\ early' = [early EXCEPT ![s] =
               IF reader[s].pc \in {"register", "announce"} THEN @ \cup {"announce"} ELSE @]
      BY <2>2 DEF CleanTell
    <3> QED
      BY <1>0, <1>5, <3>1 DEF RelayInv, CleanedEarly
  <2>3. CASE ~CleanForget(s) /\ ~CleanTell(s)
    <3>1. cleaner'[s].pc \in {"tell", "ended"} => cleaner' = cleaner
      BY <1>3, <2>3
    <3>2. /\ s \in registered' => s \in registered \/ reader[s].pc = "register"
          /\ s \in offered' => s \in offered \/ reader[s].pc = "announce"
      BY <1>1, <2>3 DEF CleanNext, CleanReset
    <3>3. /\ reader'[s].pc = "register" => reader[s].pc = "register" \/ session[s] = "none"
          /\ reader'[s].pc \in {"register", "announce"} =>
               reader[s].pc \in {"register", "announce"} \/ session[s] = "none"
      BY <1>2
    <3> QED
      BY <1>5, <3>1, <3>2, <3>3 DEF RelayInv, CleanedEarly
  <2> QED
    BY <2>1, <2>2, <2>3
<1>13. CleanedEarly'
  BY <1>2, <1>3, <1>4, <1>5, <1>12 DEF RelayInv, CleanedEarly
<1>14. AuthGoesWithSession'
  BY <1>13 DEF CleanedEarly, AuthGoesWithSession
<1> QED
  BY <1>8, <1>10, <1>11, <1>13, <1>14 DEF RelayInv

\* Requests that touch neither channel, reader nor cleaner.
LEMMA RequestStepInv ==
  ASSUME RelayInv, NEW r \in RelayRequests,
         \/ FindSession(r) \/ StorePending(r) \/ LoadPending(r) \/ SendRequest(r)
         \/ ConsumeClosed(r) \/ ConsumeCancelled(r) \/ CancelContext(r)
  PROVE  RelayInv'
<1>1. UNCHANGED <<session, reader, cleaner, registered, offered, channel, crashed, early>>
  BY DEF FindSession, StorePending, LoadPending, SendRequest, ConsumeClosed, ConsumeCancelled, CancelContext
<1>2. RelayTypeOK /\ SessionOf[r] \in Sessions
  BY RelayAssumption DEF RelayInv
<1>3. /\ request \in [RelayRequests -> Requests] /\ request[r] \in Requests
      /\ context \in [RelayRequests -> Contexts] /\ context[r] \in Contexts
      /\ remote \in [RelayRequests -> Remotes] /\ remote[r] \in Remotes
      /\ waiting \in [Sessions -> SUBSET RelayRequests]
  BY <1>2, RelayTypes
<1>a. /\ request' \in [RelayRequests -> Requests]
      /\ \A q \in RelayRequests : q # r => request'[q] = request[q]
      /\ request'[r].streamed = request[r].streamed
      /\ (request'[r].pc \in {"start", "store", "load", "send"} =>
            request[r].pc \in {"start", "store", "load", "send"} /\ UNCHANGED remote)
      /\ (request'[r].pc = "complete" /\ request[r].streamed => request[r].pc = "complete")
  <2>1. PICK next \in {"store", "load", "send", "wait", "failed", "cancelled", "complete"} :
           /\ request' = request \/ request' = [request EXCEPT ![r].pc = next]
           /\ next = "store" => request[r].pc = "start"
           /\ next = "load" => request[r].pc = "store"
           /\ next = "send" => request[r].pc = "load"
           /\ next = "complete" => ~request[r].streamed
           /\ next # "wait" => UNCHANGED remote
    <3>1. CASE FindSession(r)
      BY <3>1 DEF FindSession, RequestGoes
    <3>2. CASE StorePending(r)
      BY <3>2 DEF StorePending, RequestGoes
    <3>3. CASE LoadPending(r)
      BY <3>3 DEF LoadPending, RequestGoes
    <3>4. CASE SendRequest(r)
      BY <3>4 DEF SendRequest, RequestGoes
    <3>5. CASE ConsumeClosed(r)
      BY <3>5 DEF ConsumeClosed, RequestGoes
    <3>6. CASE ConsumeCancelled(r)
      BY <3>6 DEF ConsumeCancelled, RequestGoes
    <3>7. CASE CancelContext(r)
      BY <3>7 DEF CancelContext
    <3> QED
      BY <3>1, <3>2, <3>3, <3>4, <3>5, <3>6, <3>7
  <2>2. CASE request' = request
    <3>1. request[r].pc \in {"start", "store", "load", "send"} /\ request' = request => UNCHANGED remote
      BY <1>3 DEF FindSession, StorePending, LoadPending, SendRequest, ConsumeClosed,
              ConsumeCancelled, CancelContext, RequestGoes, Requests
    <3> QED
      BY <1>3, <2>2, <3>1
  <2>3. CASE request' = [request EXCEPT ![r].pc = next]
    <3>1. request' \in [RelayRequests -> Requests]
      BY <1>3, <2>3 DEF Requests
    <3>2. request'[r].pc = next /\ request'[r].streamed = request[r].streamed
      BY <1>3, <2>3 DEF Requests
    <3> QED
      BY <1>3, <2>1, <2>3, <3>1, <3>2
  <2> QED
    BY <2>1, <2>2, <2>3
<1>4. /\ waiting' \in [Sessions -> SUBSET RelayRequests]
      /\ context' \in [RelayRequests -> Contexts]
  <2>1. waiting' = waiting \/ waiting' = [waiting EXCEPT ![SessionOf[r]] = @ \cup {r}]
    BY DEF FindSession, StorePending, LoadPending, SendRequest, ConsumeClosed,
              ConsumeCancelled, CancelContext, RequestGoes
  <2>2. \/ context' = context \/ context' = [context EXCEPT ![r].watch = "on"]
        \/ context' = [context EXCEPT ![r].done = TRUE]
    BY DEF FindSession, StorePending, LoadPending, SendRequest, ConsumeClosed,
              ConsumeCancelled, CancelContext, RequestGoes
  <2>3. waiting' \in [Sessions -> SUBSET RelayRequests]
    BY <1>2, <1>3, <2>1
  <2>4. context' \in [RelayRequests -> Contexts]
    <3>1. CASE context' = context
      BY <1>3, <3>1
    <3>2. CASE context' = [context EXCEPT ![r].watch = "on"]
      BY <1>3, <3>2 DEF Contexts
    <3>3. CASE context' = [context EXCEPT ![r].done = TRUE]
      <4> DEFINE c == [context[r] EXCEPT !.done = TRUE]
      <4>1. c \in Contexts
        BY <1>3 DEF Contexts
      <4>2. context' = [context EXCEPT ![r] = c]
        BY <3>3
      <4> HIDE DEF c
      <4> QED
        BY <1>3, <4>1, <4>2
    <3> QED
      BY <2>2, <3>1, <3>2, <3>3
  <2> QED
    BY <2>3, <2>4
<1>5. /\ remote' \in [RelayRequests -> Remotes]
      /\ \A q \in RelayRequests : q # r => remote'[q] = remote[q]
      /\ remote'[r] # remote[r] => request[r].pc = "send"
  <2>1. \/ remote' = remote
        \/ request[r].pc = "send" /\ remote' = [remote EXCEPT ![r].state = "asked"]
    BY DEF FindSession, StorePending, LoadPending, SendRequest, ConsumeClosed,
              ConsumeCancelled, CancelContext, RequestGoes
  <2> QED
    BY <1>3, <2>1 DEF Remotes
<1>6. \A q \in RelayRequests : remote[q].state = "finished" => remote'[q].state = "finished"
  BY <1>5 DEF RelayInv, NotAskedYet
<1>7. RelayTypeOK'
  BY <1>1, <1>2, <1>a, <1>4, <1>5, RelayTypes, RelayTypesNext
<1>8. HeldHonestly' /\ ChannelHonest' /\ CleanerHolds' /\ CleanedEarly' /\ AuthGoesWithSession'
  BY <1>1, <1>6 DEF RelayInv, HeldHonestly, ChannelHonest, CleanerHolds, CleanedEarly, AuthGoesWithSession
<1>9. NotAskedYet'
  BY <1>5, <1>a DEF RelayInv, NotAskedYet
<1>10. StreamsEndHonestly'
  BY <1>6, <1>a DEF RelayInv, StreamsEndHonestly
<1> QED
  BY <1>7, <1>8, <1>9, <1>10 DEF RelayInv
----------------------------------------------------------------------------
(* Steps on channels.                                                      *)

\* What a step on channels leaves alone, and what it must keep.
LEMMA ChannelStepInv ==
  ASSUME RelayInv, RelayTypeOK', ChannelHonest', HeldHonestly',
         UNCHANGED <<session, registered, offered, remote, early>>,
         \A s \in Sessions :
           reader'[s].pc \in {"register", "announce"} => reader'[s].pc = reader[s].pc,
         \A s \in Sessions : /\ cleaner'[s].pc = "send" => cleaner'[s] = cleaner[s]
                             /\ cleaner[s].pc = "none" => cleaner'[s].pc = "none"
                             /\ cleaner'[s].pc \in {"tell", "ended"} => cleaner'[s].pc = cleaner[s].pc,
         \A r \in RelayRequests :
           /\ request'[r].streamed = request[r].streamed
           /\ request'[r].pc \in {"start", "store", "load", "send"} => request'[r].pc = request[r].pc
           /\ request'[r].pc = "complete" => request[r].pc = "complete" \/ remote[r].state = "finished"
  PROVE  RelayInv'
BY DEF RelayInv, NotAskedYet, CleanerHolds, CleanedEarly, StreamsEndHonestly, AuthGoesWithSession,
       RelayTypeOK

LEMMA ConsumeInv ==
  ASSUME RelayInv, NEW r \in RelayRequests, ConsumeMessage(r)
  PROVE  RelayInv'
<1> DEFINE msgs == channel[r].msgs
<1>0. /\ channel \in [RelayRequests -> Channels] /\ channel[r] \in Channels
      /\ request \in [RelayRequests -> Requests] /\ request[r] \in Requests
  BY RelayTypes DEF RelayInv
<1>1. RelayTypeOK /\ msgs \in Seq(Messages) /\ msgs # <<>> /\ Len(msgs) <= ChannelSize
  BY <1>0, RelayTypes DEF RelayInv, ConsumeMessage, Channels
<1>2. /\ Head(msgs) = msgs[1] /\ 1 \in 1..Len(msgs) /\ Head(msgs) \in Messages
      /\ Tail(msgs) \in Seq(Messages) /\ Len(Tail(msgs)) = Len(msgs) - 1
      /\ \A i \in 1..Len(Tail(msgs)) : Tail(msgs)[i] = msgs[i + 1] /\ i + 1 \in 1..Len(msgs)
  BY <1>1
<1>3. /\ channel' = [channel EXCEPT ![r].msgs = Tail(msgs)]
      /\ request' = [request EXCEPT ![r] = AfterMessage(r, Head(msgs))]
      /\ UNCHANGED <<session, reader, cleaner, registered, offered, waiting, context, remote, crashed,
                     early>>
  BY DEF ConsumeMessage
<1> HIDE DEF msgs
<1>4. channel' \in [RelayRequests -> Channels]
  BY <1>0, <1>2, <1>3 DEF Channels
<1>5. \A q \in RelayRequests : channel'[q].msgs = IF q = r THEN Tail(msgs) ELSE channel[q].msgs
  BY <1>0, <1>3 DEF Channels
<1>6. \A msg \in Messages :
        /\ AfterMessage(r, msg) \in Requests
        /\ AfterMessage(r, msg).streamed = request[r].streamed
        /\ AfterMessage(r, msg).pc \in {"complete", "failed", request[r].pc}
        /\ AfterMessage(r, msg).pc = "complete" => msg \in WellEnds \/ request[r].pc = "complete"
  BY <1>0 DEF AfterMessage, Requests, WellEnds
<1>7. /\ request' \in [RelayRequests -> Requests]
      /\ request'[r] = AfterMessage(r, Head(msgs))
      /\ \A q \in RelayRequests : q # r => request'[q] = request[q]
  BY <1>0, <1>2, <1>3, <1>6
<1>8. RelayTypeOK'
  BY <1>1, <1>2, <1>3, <1>4, <1>5, <1>7, RelayTypes, RelayTypesNext, RelayAssumption
<1>9. ChannelHonest'
  BY <1>2, <1>3, <1>5 DEF RelayInv, ChannelHonest, msgs
<1>10. \A q \in RelayRequests :
         /\ request'[q].streamed = request[q].streamed
         /\ request'[q].pc \in {"start", "store", "load", "send"} => request'[q].pc = request[q].pc
         /\ request'[q].pc = "complete" => request[q].pc = "complete" \/ remote[q].state = "finished"
  BY <1>2, <1>6, <1>7 DEF RelayInv, ChannelHonest, msgs
<1>11. HeldHonestly'
  BY <1>3 DEF RelayInv, HeldHonestly
<1> QED
  BY <1>3, <1>8, <1>9, <1>10, <1>11, ChannelStepInv

LEMMA CloseInv ==
  ASSUME RelayInv,
         \/ \E r \in RelayRequests : SendFails(r) \/ WatchContext(r)
         \/ \E s \in Sessions : Finish(s)
  PROVE  RelayInv'
<1>1. RelayTypeOK /\ \A r \in RelayRequests : SessionOf[r] \in Sessions
  BY RelayAssumption DEF RelayInv
<1>t. /\ request \in [RelayRequests -> Requests] /\ (\A r \in RelayRequests : request[r] \in Requests)
      /\ context \in [RelayRequests -> Contexts] /\ (\A r \in RelayRequests : context[r] \in Contexts)
      /\ reader \in [Sessions -> Readers] /\ (\A s \in Sessions : reader[s] \in Readers)
      /\ waiting \in [Sessions -> SUBSET RelayRequests]
      /\ channel \in [RelayRequests -> Channels]
  BY <1>1, RelayTypes
<1>2. /\ channel' \in [RelayRequests -> Channels]
      /\ \A q \in RelayRequests : channel'[q].msgs = channel[q].msgs
      /\ waiting' \in [Sessions -> SUBSET RelayRequests]
  <2>1. \/ UNCHANGED <<channel, waiting>>
        \/ \E s \in Sessions : \E q \in RelayRequests \cup {"none"} : DeleteAndClose(s, q)
    <3>1. CASE \E r \in RelayRequests : SendFails(r)
      BY <1>1, <3>1 DEF SendFails
    <3>2. CASE \E r \in RelayRequests : WatchContext(r)
      BY <1>1, <3>2 DEF WatchContext
    <3>3. CASE \E s \in Sessions : Finish(s)
      <4>1. PICK s \in Sessions : Finish(s)
        BY <3>3
      <4>2. reader[s].for \in RelayRequests \cup {"none"}
        BY <1>t DEF Readers
      <4> QED
        BY <4>1, <4>2 DEF Finish
    <3> QED
      BY <3>1, <3>2, <3>3
  <2>2. ASSUME NEW s \in Sessions, NEW q, DeleteAndClose(s, q)
        PROVE  /\ channel' = Closed({q} \cap waiting[s])
               /\ waiting' \in [Sessions -> SUBSET RelayRequests]
    BY <1>t, <2>2 DEF DeleteAndClose
  <2>3. CASE UNCHANGED <<channel, waiting>>
    BY <1>t, <2>3
  <2>4. CASE \E s \in Sessions : \E q \in RelayRequests \cup {"none"} : DeleteAndClose(s, q)
    <3>1. PICK R : channel' = Closed(R) /\ waiting' \in [Sessions -> SUBSET RelayRequests]
      BY <2>2, <2>4
    <3> QED
      BY <1>1, <3>1, ClosingKeeps
  <2> QED
    BY <2>1, <2>3, <2>4
<1>3. UNCHANGED <<session, cleaner, registered, offered, remote, crashed, early>>
  BY DEF SendFails, WatchContext, Finish
<1>4. /\ request' \in [RelayRequests -> Requests]
      /\ \A r \in RelayRequests : request'[r].streamed = request[r].streamed
                                  /\ (request'[r].pc = request[r].pc \/ request'[r].pc = "failed")
  <2>1. request' = request \/ \E r \in RelayRequests : request' = [request EXCEPT ![r].pc = "failed"]
    BY DEF SendFails, WatchContext, Finish, RequestGoes
  <2>2. ASSUME NEW r \in RelayRequests, request' = [request EXCEPT ![r].pc = "failed"]
        PROVE  request' \in [RelayRequests -> Requests] /\ request'[r].pc = "failed"
               /\ request'[r].streamed = request[r].streamed
               /\ (\A q \in RelayRequests : q # r => request'[q] = request[q])
    BY <1>t, <2>2 DEF Requests
  <2>3. CASE request' = request
    BY <1>t, <2>3
  <2>4. CASE \E r \in RelayRequests : request' = [request EXCEPT ![r].pc = "failed"]
    BY <2>2, <2>4
  <2> QED
    BY <2>1, <2>3, <2>4
<1>5. context' \in [RelayRequests -> Contexts]
  <2>1. context' = context \/ \E r \in RelayRequests : context' = [context EXCEPT ![r].watch = "ended"]
    BY DEF SendFails, WatchContext, Finish
  <2> QED
    BY <1>t, <2>1 DEF Contexts
<1>6. /\ reader' \in [Sessions -> Readers]
      /\ \A s \in Sessions : reader'[s] = reader[s] \/ (reader'[s].pc = "reading" /\ reader[s].pc = "finish")
  <2> DEFINE idle == [IdleReader EXCEPT !.pc = "reading"]
  <2>1. idle \in Readers /\ idle.pc = "reading"
    BY DEF IdleReader, Readers
  <2>2. \/ reader' = reader
        \/ \E s \in Sessions : reader[s].pc = "finish" /\ reader' = [reader EXCEPT ![s] = idle]
    BY DEF SendFails, WatchContext, Finish
  <2> HIDE DEF idle
  <2> QED
    BY <1>t, <2>1, <2>2
<1>7. RelayTypeOK'
  BY <1>1, <1>2, <1>3, <1>4, <1>5, <1>6, RelayTypes, RelayTypesNext
<1>8. ChannelHonest' /\ HeldHonestly'
  BY <1>2, <1>3, <1>6 DEF RelayInv, ChannelHonest, HeldHonestly
<1> QED
  BY <1>3, <1>4, <1>6, <1>7, <1>8, ChannelStepInv

LEMMA DeliverInv ==
  ASSUME RelayInv, NEW s \in Sessions, Deliver(s)
  PROVE  RelayInv'
<1> DEFINE r == reader[s].for
           msg == reader[s].msg
<1>1. /\ RelayTypeOK /\ r \in RelayRequests /\ msg \in Messages
      /\ msg \in WellEnds => remote[r].state = "finished"
  BY DEF RelayInv, HeldHonestly, Deliver
<1>2. TrySend(r, msg) /\ reader[s].pc = "deliver"
  BY DEF Deliver
<1>3. UNCHANGED <<session, cleaner, registered, offered, waiting, request, context, remote, early>>
  BY DEF Deliver
<1>4. /\ reader' \in [Sessions -> Readers]
      /\ \A t \in Sessions : t # s => reader'[t] = reader[t]
      /\ \/ reader'[s].pc = "reading"
         \/ reader'[s].pc = "finish" /\ reader'[s].for = r /\ reader'[s].msg = msg
  <2>1. reader \in [Sessions -> Readers] /\ reader[s] \in Readers
    BY <1>1, RelayTypes
  <2> DEFINE idle == [IdleReader EXCEPT !.pc = "reading"]
             last == [reader[s] EXCEPT !.pc = "finish"]
  <2>2. idle \in Readers /\ idle.pc = "reading"
    BY DEF IdleReader, Readers
  <2>3. last \in Readers /\ last.pc = "finish" /\ last.for = r /\ last.msg = msg
    BY <2>1 DEF Readers
  <2>4. reader' = [reader EXCEPT ![s] = IF msg \in Terminal THEN last ELSE idle]
    BY DEF Deliver
  <2> HIDE DEF idle, last, r, msg
  <2> QED
    BY <2>1, <2>2, <2>3, <2>4
<1> HIDE DEF r, msg
<1>5. /\ channel' \in [RelayRequests -> Channels]
      /\ crashed' \in BOOLEAN
      /\ \A q \in RelayRequests :
           /\ Len(channel'[q].msgs) <= ChannelSize
           /\ \A i \in 1..Len(channel'[q].msgs) :
                \/ i \in 1..Len(channel[q].msgs) /\ channel'[q].msgs[i] = channel[q].msgs[i]
                \/ q = r /\ channel'[q].msgs[i] = msg
  BY <1>1, <1>2, SendingAdds
<1>6. RelayTypeOK'
  BY <1>1, <1>3, <1>4, <1>5, RelayTypes, RelayTypesNext
<1>7. ChannelHonest'
  BY <1>1, <1>3, <1>5 DEF RelayInv, ChannelHonest
<1>8. HeldHonestly'
  BY <1>1, <1>3, <1>4 DEF RelayInv, HeldHonestly
<1> QED
  BY <1>2, <1>3, <1>4, <1>6, <1>7, <1>8, ChannelStepInv

LEMMA CleanOneInv ==
  ASSUME RelayInv, NEW s \in Sessions, CleanOne(s)
  PROVE  RelayInv'
<1> DEFINE r == cleaner[s].for
<1>1. RelayTypeOK /\ r \in RelayRequests /\ "error" \in Messages /\ "error" \notin WellEnds
  BY DEF RelayInv, CleanerHolds, CleanOne, Messages, Terminal, WellEnds
<1>2. UNCHANGED <<session, reader, registered, offered, waiting, request, context, remote, early>>
  BY DEF CleanOne
<1>t. /\ cleaner \in [Sessions -> Cleaners] /\ cleaner[s] \in Cleaners /\ cleaner[s].pc = "send"
      /\ channel \in [RelayRequests -> Channels] /\ channel[r] \in Channels /\ crashed \in BOOLEAN
  BY <1>1, RelayTypes DEF CleanOne
<1>3. /\ cleaner' \in [Sessions -> Cleaners] /\ cleaner'[s].pc = "range"
      /\ \A t \in Sessions : t # s => cleaner'[t] = cleaner[t]
  <2>1. cleaner' = [cleaner EXCEPT ![s].pc = "range", ![s].for = "none"]
    BY DEF CleanOne
  <2> QED
    BY <1>t, <2>1 DEF Cleaners
<1> DEFINE old == channel[r].msgs
           new == IF Len(old) < ChannelSize THEN Append(old, "error") ELSE old
<1>4. \/ channel' = channel
      \/ channel' = [channel EXCEPT ![r] = [msgs |-> new, closed |-> TRUE]]
  BY <1>1 DEF CleanOne, TrySend
<1>5. old \in Seq(Messages) /\ Len(old) <= ChannelSize /\ ChannelSize \in Nat
  BY <1>1, <1>t, RelayTypes, RelayAssumption DEF Channels
<1>6. /\ new \in Seq(Messages) /\ Len(new) <= ChannelSize
      /\ \A i \in 1..Len(new) : (i \in 1..Len(old) /\ new[i] = old[i]) \/ new[i] = "error"
  BY <1>1, <1>5
<1>7. crashed' \in BOOLEAN
  BY <1>t DEF CleanOne, TrySend
<1> HIDE DEF r, new
<1>8. channel' \in [RelayRequests -> Channels]
  <2>1. [msgs |-> new, closed |-> TRUE] \in Channels
    BY <1>6 DEF Channels
  <2> QED
    BY <1>t, <1>4, <2>1
<1>9. \A q \in RelayRequests : channel'[q].msgs = channel[q].msgs \/ (q = r /\ channel'[q].msgs = new)
  BY <1>t, <1>4
<1>10. RelayTypeOK'
  BY <1>1, <1>2, <1>3, <1>6, <1>7, <1>8, <1>9, RelayTypes, RelayTypesNext
<1>11. ChannelHonest' /\ HeldHonestly'
  BY <1>1, <1>2, <1>6, <1>9 DEF RelayInv, ChannelHonest, HeldHonestly
<1> QED
  BY <1>t, <1>2, <1>3, <1>10, <1>11, ChannelStepInv

LEMMA ReadInv ==
  ASSUME RelayInv, NEW s \in Sessions, ReadMessage(s)
  PROVE  RelayInv'
<1>0. PICK r \in RelayRequests : \E m \in Answers(r) :
        /\ remote' = [remote EXCEPT ![r] = AfterAnswer(r, m)]
        /\ reader' = [reader EXCEPT ![s] =
             IF r \in waiting[s] THEN [pc |-> "deliver", for |-> r, msg |-> m] ELSE @]
  BY DEF ReadMessage
<1>1. PICK msg \in Answers(r) :
        /\ remote' = [remote EXCEPT ![r] = AfterAnswer(r, msg)]
        /\ reader' = [reader EXCEPT ![s] =
             IF r \in waiting[s] THEN [pc |-> "deliver", for |-> r, msg |-> msg] ELSE @]
  BY <1>0
<1>2. RelayTypeOK /\ reader[s].pc = "reading"
  BY DEF RelayInv, ReadMessage
<1>3. /\ msg \in Messages /\ remote[r].state \in {"asked", "streaming"}
      /\ msg = "chunk" => remote[r].chunks < ChunkLimit
  BY <1>1 DEF Answers, Messages, Terminal
<1>4. AfterAnswer(r, msg) \in [state : {"finished", "refused", "streaming"}, chunks : 0..ChunkLimit]
      /\ (msg \in WellEnds => AfterAnswer(r, msg).state = "finished")
  BY <1>2, <1>3, RelayAssumption DEF AfterAnswer, RelayTypeOK, WellEnds
<1>5. UNCHANGED <<session, cleaner, registered, offered, waiting, channel, request, context, crashed,
                  early>>
  BY DEF ReadMessage
<1>6. /\ remote' \in [RelayRequests -> [state : {"none", "asked", "streaming", "finished", "refused"},
                                        chunks : 0..ChunkLimit]]
      /\ \A q \in RelayRequests : q # r => remote'[q] = remote[q]
      /\ remote'[r] = AfterAnswer(r, msg)
  BY <1>1, <1>2, <1>4 DEF RelayTypeOK
<1>7. /\ reader' \in [Sessions -> [pc : {"none", "register", "announce", "reading", "deliver",
                                         "finish", "ended"},
                                   for : RelayRequests \cup {"none"}, msg : Messages \cup {"none"}]]
      /\ \A t \in Sessions : \/ reader'[t] = reader[t]
                             \/ t = s /\ reader'[t] = [pc |-> "deliver", for |-> r, msg |-> msg]
  BY <1>1, <1>2, <1>3 DEF RelayTypeOK
<1>8. RelayTypeOK'
  BY <1>2, <1>5, <1>6, <1>7 DEF RelayTypeOK
<1>9. \A q \in RelayRequests : remote[q].state = "finished" => remote'[q] = remote[q]
  BY <1>3, <1>6
<1>10. HeldHonestly'
  BY <1>3, <1>4, <1>6, <1>7, <1>9 DEF RelayInv, HeldHonestly
<1>11. ChannelHonest' /\ StreamsEndHonestly' /\ CleanerHolds' /\ AuthGoesWithSession'
  BY <1>5, <1>9 DEF RelayInv, ChannelHonest, StreamsEndHonestly, CleanerHolds, AuthGoesWithSession
<1>12. NotAskedYet'
  BY <1>3, <1>5, <1>6 DEF RelayInv, NotAskedYet
<1>13. CleanedEarly'
  BY <1>2, <1>5, <1>7 DEF RelayInv, CleanedEarly
<1> QED
  BY <1>8, <1>10, <1>11, <1>12, <1>13 DEF RelayInv
----------------------------------------------------------------------------
LEMMA NextRelay == RelayInv /\ [RelayNext]_relayVars => RelayInv'
<1> SUFFICES ASSUME RelayInv, [RelayNext]_relayVars PROVE RelayInv'
  OBVIOUS
<1>1. CASE UNCHANGED relayVars
  BY <1>1 DEF relayVars, RelayInv, RelayTypeOK, HeldHonestly, ChannelHonest, NotAskedYet, CleanerHolds,
              CleanedEarly, StreamsEndHonestly, AuthGoesWithSession
<1> QED
  BY <1>1, SessionStepInv, RequestStepInv, ConsumeInv, CloseInv, DeliverInv, CleanOneInv, ReadInv
     DEF RelayNext, RequestStep, ReaderStep, CleanerStep

\* The channel of a relayed stream yields an end only if the client sent one
\* (http.go Stream), however its session ends.
THEOREM RelayedStreamsHonest == RelaySpec => [](RelayTypeOK /\ StreamsEndHonestly)
<1>1. RelayInv => RelayTypeOK /\ StreamsEndHonestly
  BY DEF RelayInv
<1> QED
  BY InitRelay, NextRelay, <1>1, PTL DEF RelaySpec

\* After handleSessionClosed (manager.go) nothing is left of the session, but for
\* what its handler does after the heartbeat or Stop have cleaned it up.
THEOREM AuthLeavesWithSession == RelaySpec => []AuthGoesWithSession
<1>1. RelayInv => AuthGoesWithSession
  BY DEF RelayInv
<1> QED
  BY InitRelay, NextRelay, <1>1, PTL DEF RelaySpec
----------------------------------------------------------------------------
(* One call.  The habits enter the argument by two facts only: what makes  *)
(* the next host be asked is an error that has to do with the host, and    *)
(* who asks the next host for want of capacity asks all of them again.     *)

Temperate(h) ==
  /\ h.nextOn \subseteq {"net", "429", "capacity"}
  /\ "capacity" \in h.nextOn => h.retries

\* No method asks another host for an error that is not the host's: every one
\* of the executors' methods is temperate.
LEMMA HabitsTemperate == \A h \in Habits : Temperate(h)
<1>1. /\ Plain.nextOn = {}
      /\ AntigravityExecute.nextOn = {"net", "429", "capacity"} /\ AntigravityExecute.retries
      /\ AntigravityCountTokens.nextOn = {"net", "429"}
  BY DEF Plain, PlainCount, AntigravityExecute, AntigravityCountTokens
<1>2. /\ AntigravityExecuteClaudeNonStream.nextOn = AntigravityExecute.nextOn
      /\ AntigravityExecuteClaudeNonStream.retries = AntigravityExecute.retries
      /\ AntigravityExecuteStream.nextOn = AntigravityExecute.nextOn
      /\ AntigravityExecuteStream.retries = AntigravityExecute.retries
  BY DEF AntigravityExecuteClaudeNonStream, AntigravityExecuteStream, AntigravityExecute, Plain
<1>3. PlainStream.nextOn = {} /\ PlainCount.nextOn = {}
  BY DEF Plain, PlainStream, PlainCount
<1>4. \A h \in {GeminiExecute, GeminiExecuteStream, GeminiCountTokens,
               VertexExecuteWithServiceAccount, VertexExecuteWithAPIKey,
               VertexExecuteStreamWithServiceAccount, VertexExecuteStreamWithAPIKey,
               VertexCountTokensWithServiceAccount, VertexCountTokensWithAPIKey} : h.nextOn = {}
  BY <1>1, <1>3 DEF GeminiExecute, GeminiExecuteStream, GeminiCountTokens,
     VertexExecuteWithServiceAccount, VertexExecuteWithAPIKey,
     VertexExecuteStreamWithServiceAccount, VertexExecuteStreamWithAPIKey,
     VertexCountTokensWithServiceAccount, VertexCountTokensWithAPIKey, Plain, PlainStream, PlainCount
<1>5. \A h \in {GeminiCLIExecute, GeminiCLIExecuteStream, GeminiCLIExecuteStreamAlt,
               GeminiCLICountTokens, ClaudeExecute, ClaudeExecuteStream, ClaudeCountTokens,
               CodexExecute, CodexExecuteCompact, CodexExecuteStream} : h.nextOn = {}
  BY DEF GeminiCLIExecute, GeminiCLIExecuteStream, GeminiCLIExecuteStreamAlt,
     GeminiCLICountTokens, ClaudeExecute, ClaudeExecuteStream, ClaudeCountTokens,
     CodexExecute, CodexExecuteCompact, CodexExecuteStream, Plain, PlainStream, PlainCount
<1>6. /\ QwenExecute.nextOn = {} /\ QwenExecuteStream.nextOn = {}
      /\ IFlowExecute.nextOn = {} /\ IFlowExecuteStream.nextOn = {}
      /\ OpenAICompatExecute.nextOn = {} /\ OpenAICompatExecuteStream.nextOn = {}
  BY DEF QwenExecute, QwenExecuteStream, IFlowExecute, IFlowExecuteStream,
     OpenAICompatExecute, OpenAICompatExecuteStream, Plain, PlainStream
<1>7. \A h \in {AIStudioExecute, AIStudioExecuteStream, AIStudioCountTokens} : h.nextOn = {}
  BY DEF AIStudioExecute, AIStudioExecuteStream, AIStudioCountTokens, Plain, PlainStream, PlainCount
<1>8. \A h \in Habits :
        h.nextOn = {} \/ h \in {AntigravityExecute, AntigravityExecuteClaudeNonStream,
                               AntigravityExecuteStream, AntigravityCountTokens}
  BY <1>4, <1>5, <1>6, <1>7 DEF Habits
<1>9. QED
  BY <1>1, <1>2, <1>8 DEF Temperate

----------------------------------------------------------------------------
(* The inductive invariant of a call.  Until it is over it has no outcome, *)
(* and its record says what has been told of its usage; usage is told only *)
(* while the answer is read.                                               *)

Running == pc # "over"

RecordInv ==
  /\ pc \in {"prepare", "send", "status", "waiting", "whole", "lines", "over"}
  /\ reporter \in BOOLEAN /\ usageTold \in BOOLEAN
  /\ record \in {"none", "success", "failed"}
  /\ pc \in {"prepare", "send", "status", "waiting", "whole"} => ~usageTold
  /\ Running => outcome = "none"
  /\ Running => (record = "success" <=> reporter /\ usageTold)
  /\ Running => record # "failed"
  /\ RecordTellsOutcome

HostsInv ==
  /\ Temperate(habit)
  /\ hosts \in Nat /\ host \in Nat /\ round \in Nat
  /\ 1 <= host /\ host <= hosts /\ round <= Rounds
  /\ status \in {"ok", "429", "capacity", "other"}
  /\ pc = "waiting" => round < Rounds
  /\ AllHostsAsked

BodyInv ==
  /\ pc = "prepare" => body # "open"
  /\ OneBody

CallInv == RecordInv /\ HostsInv /\ BodyInv

LEMMA CallInitInv == CallInit => CallInv
<1> SUFFICES ASSUME CallInit PROVE CallInv
  OBVIOUS
<1>1. RecordInv
  BY DEF CallInit, RecordInv, Running, RecordTellsOutcome
<1>2. Temperate(habit)
  BY HabitsTemperate DEF CallInit
<1>3. HostsInv
  BY <1>2, ProviderCallsAssumption DEF CallInit, HostsInv, AllHostsAsked, Temperate, Rounds
<1>4. BodyInv
  BY DEF CallInit, BodyInv, OneBody
<1>5. QED
  BY <1>1, <1>3, <1>4 DEF CallInv

\* The record of a call that fails: what was told of its usage stays, a
\* failure without it is recorded if there is a reporter.
LEMMA FailRecords ==
  ASSUME RecordInv, Running, NEW error, Fail(error), error \notin {"none", "answer"},
         UNCHANGED <<habit, reporter, usageTold>>
  PROVE  RecordInv'
  BY DEF RecordInv, Running, Fail, Published, RecordTellsOutcome

LEMMA NextHostRecords ==
  ASSUME RecordInv, pc \in {"send", "status"}, NEW why, NextHostOrFail(why),
         why \notin {"none", "answer"}, UNCHANGED <<habit, reporter, usageTold>>
  PROVE  RecordInv'
<1>1. CASE HasNext(why)
  BY <1>1 DEF NextHostOrFail, RecordInv, Running, RecordTellsOutcome
<1>2. CASE ~HasNext(why)
  BY <1>2, FailRecords DEF NextHostOrFail, Running
<1>3. QED
  BY <1>1, <1>2

LEMMA CallStepRecord == RecordInv /\ status \in {"ok", "429", "capacity", "other"} /\ [CallNext]_callVars => RecordInv'
<1> SUFFICES ASSUME RecordInv, status \in {"ok", "429", "capacity", "other"}, [CallNext]_callVars
             PROVE  RecordInv'
  OBVIOUS
<1>1. CASE RefuseEarly
  BY <1>1, FailRecords DEF RefuseEarly, Running
<1>2. CASE NewUsageReporter
  BY <1>2 DEF NewUsageReporter, RecordInv, Running, RecordTellsOutcome
<1>3. CASE PrepareFails
  BY <1>3, FailRecords DEF PrepareFails, Prepared, Running
<1>4. CASE Prepare
  BY <1>4 DEF Prepare, Prepared, RecordInv, Running, RecordTellsOutcome
<1>5. CASE DoFails
  BY <1>5, NextHostRecords DEF DoFails
<1>6. CASE DoCancelled
  BY <1>6, FailRecords DEF DoCancelled, Running
<1>7. CASE Do
  BY <1>7 DEF Do, RecordInv, Running, RecordTellsOutcome
<1>8. CASE RefusedForGood
  <2>1. CASE status = "capacity" /\ habit.retries /\ ~HasNext(status) /\ round < Rounds
    BY <1>8, <2>1 DEF RefusedForGood, Refused, RecordInv, Running, RecordTellsOutcome
  <2>2. CASE ~(status = "capacity" /\ habit.retries /\ ~HasNext(status) /\ round < Rounds)
    BY <1>8, <2>2, NextHostRecords DEF RefusedForGood, Refused
  <2>3. QED
    BY <2>1, <2>2
<1>9. CASE RefusalBreaks
  <2>1. CASE NextHostOrFail("net")
    BY <1>9, <2>1, NextHostRecords DEF RefusalBreaks, Refused
  <2>2. CASE Fail("cancelled") \/ Fail("net")
    BY <1>9, <2>2, FailRecords DEF RefusalBreaks, Refused, Running
  <2>3. QED
    BY <1>9, <2>1, <2>2 DEF RefusalBreaks
<1>10. CASE Wait
  BY <1>10 DEF Wait, RecordInv, Running, RecordTellsOutcome
<1>11. CASE WaitCancelled
  BY <1>11, FailRecords DEF WaitCancelled, Running
<1>12. CASE DecodeFails
  BY <1>12, FailRecords DEF DecodeFails, Running
<1>13. CASE Accept
  BY <1>13 DEF Accept, RecordInv, Running, RecordTellsOutcome
<1>14. CASE ReadAll
  BY <1>14 DEF ReadAll, Ensured, Published, RecordInv, Running, RecordTellsOutcome
<1>15. CASE ReadAllFails
  BY <1>15, FailRecords DEF ReadAllFails, Running
<1>16. CASE ReadLine
  <2>1. CASE UNCHANGED <<usageTold, record>>
    BY <1>16, <2>1 DEF ReadLine, RecordInv, Running, RecordTellsOutcome
  <2>2. CASE usageTold' = TRUE /\ record' = Published("success")
    BY <1>16, <2>2 DEF ReadLine, Published, RecordInv, Running, RecordTellsOutcome
  <2>3. QED
    BY <1>16, <2>1, <2>2 DEF ReadLine
<1>17. CASE BodyEnds
  BY <1>17 DEF BodyEnds, Ensured, RecordInv, Running, RecordTellsOutcome
<1>18. CASE BodyBreaks
  BY <1>18, FailRecords DEF BodyBreaks, Running
<1>19. CASE CloseGathered
  BY <1>19 DEF CloseGathered, RecordInv, Running, RecordTellsOutcome
<1>20. CASE UNCHANGED callVars
  BY <1>20 DEF callVars, RecordInv, Running, RecordTellsOutcome
<1>21. QED
  BY <1>1, <1>2, <1>3, <1>4, <1>5, <1>6, <1>7, <1>8, <1>9, <1>10, <1>11, <1>12, <1>13, <1>14,
     <1>15, <1>16, <1>17, <1>18, <1>19, <1>20 DEF CallNext

\* Until it is over, a call has gone no further than its last host and round; a
\* failure that has to do with a host is that of the last one.
LEMMA NextHostInv ==
  ASSUME HostsInv, pc \in {"send", "status"}, outcome = "none",
         NEW why \in {"net", "429", "capacity", "other"}, NextHostOrFail(why),
         why = "capacity" /\ habit.retries => round = Rounds,
         UNCHANGED <<habit, hosts>>, status' \in {"ok", "429", "capacity", "other"}
  PROVE  HostsInv'
<1>1. CASE HasNext(why)
  BY <1>1 DEF NextHostOrFail, HasNext, HostsInv, AllHostsAsked, Temperate, Rounds
<1>2. CASE ~HasNext(why)
  BY <1>2 DEF NextHostOrFail, HasNext, Fail, HostsInv, AllHostsAsked, Temperate, Rounds
<1>3. QED
  BY <1>1, <1>2

\* A failure that has to do with no host.
LEMMA FailHosts ==
  ASSUME HostsInv, NEW error, Fail(error),
         error \in {"refused", "cancelled", "broken"} \/ (error = "net" /\ habit.refusal = "error"),
         UNCHANGED <<habit, hosts, host, round, status>>
  PROVE  HostsInv'
  BY DEF HostsInv, Fail, AllHostsAsked, Temperate, Rounds

LEMMA CallStepHosts == CallInv /\ [CallNext]_callVars => HostsInv'
<1> SUFFICES ASSUME CallInv, [CallNext]_callVars
             PROVE  HostsInv'
  OBVIOUS
<1> USE DEF CallInv
<1>0. Running => outcome = "none"
  BY DEF RecordInv
<1>1. CASE RefuseEarly
  BY <1>1, FailHosts DEF RefuseEarly
<1>2. CASE NewUsageReporter \/ Prepare \/ Accept \/ CloseGathered
  BY <1>2 DEF NewUsageReporter, Prepare, Accept, CloseGathered,
              HostsInv, AllHostsAsked, Temperate, Rounds
<1>3. CASE PrepareFails
  BY <1>3, FailHosts DEF PrepareFails
<1>4. CASE DoFails
  BY <1>4, <1>0, NextHostInv DEF DoFails, HostsInv, Running
<1>5. CASE DoCancelled
  BY <1>5, FailHosts DEF DoCancelled
<1>6. CASE Do
  BY <1>6 DEF Do, HostsInv, AllHostsAsked, Temperate, Rounds
<1>7. CASE RefusedForGood
  <2>1. CASE status = "capacity" /\ habit.retries /\ ~HasNext(status) /\ round < Rounds
    BY <1>7, <2>1 DEF RefusedForGood, Refused, HostsInv, AllHostsAsked, Temperate, Rounds
  <2>2. CASE ~(status = "capacity" /\ habit.retries /\ ~HasNext(status) /\ round < Rounds)
    <3>1. CASE HasNext(status)
      BY <1>7, <2>2, <3>1 DEF RefusedForGood, Refused, NextHostOrFail, HasNext, HostsInv, AllHostsAsked,
         Temperate, Rounds
    <3>2. CASE ~HasNext(status)
      <4>1. status = "capacity" /\ habit.retries => round = Rounds
        BY <2>2, <3>2, ProviderCallsAssumption DEF HostsInv, Rounds
      <4>2. NextHostOrFail(status) /\ pc = "status" /\ status # "ok"
            /\ UNCHANGED <<habit, hosts, status>>
        BY <1>7, <2>2 DEF RefusedForGood, Refused
      <4>3. QED
        BY <4>1, <4>2, <1>0, NextHostInv DEF HostsInv, Running
    <3>3. QED
      BY <3>1, <3>2
  <2>3. QED
    BY <2>1, <2>2
<1>8. CASE RefusalBreaks
  <2>1. CASE NextHostOrFail("net")
    BY <1>8, <2>1, <1>0, NextHostInv DEF RefusalBreaks, Refused, HostsInv, Running
  <2>2. CASE Fail("cancelled") /\ UNCHANGED <<host, round>>
    BY <1>8, <2>2, FailHosts DEF RefusalBreaks
  <2>3. CASE habit.refusal = "error" /\ Fail("net") /\ UNCHANGED <<host, round>>
    BY <1>8, <2>3, FailHosts DEF RefusalBreaks
  <2>4. QED
    BY <1>8, <2>1, <2>2, <2>3 DEF RefusalBreaks
<1>9. CASE Wait
  <2>1. Running /\ outcome = "none" /\ "none" \notin habit.nextOn
    BY <1>0, <1>9 DEF Wait, Running, HostsInv, Temperate
  <2>2. 1 <= hosts /\ round + 1 <= Rounds
    BY <1>9, ProviderCallsAssumption DEF Wait, HostsInv, Rounds
  <2>3. QED
    BY <1>9, <2>1, <2>2 DEF Wait, HostsInv, AllHostsAsked, Temperate, Rounds
<1>10. CASE WaitCancelled
  BY <1>10, FailHosts DEF WaitCancelled
<1>11. CASE DecodeFails
  BY <1>11, FailHosts DEF DecodeFails
<1>12. CASE ReadAll
  BY <1>12 DEF ReadAll, HostsInv, AllHostsAsked, Temperate, Rounds
<1>13. CASE ReadAllFails
  BY <1>13, FailHosts DEF ReadAllFails
<1>14. CASE ReadLine
  BY <1>14 DEF ReadLine, HostsInv, AllHostsAsked, Temperate, Rounds
<1>15. CASE BodyEnds
  BY <1>15 DEF BodyEnds, HostsInv, AllHostsAsked, Temperate, Rounds
<1>16. CASE BodyBreaks
  BY <1>16, FailHosts DEF BodyBreaks
<1>17. CASE UNCHANGED callVars
  BY <1>17 DEF callVars, HostsInv, AllHostsAsked, Temperate, Rounds
<1>18. QED
  BY <1>1, <1>2, <1>3, <1>4, <1>5, <1>6, <1>7, <1>8, <1>9, <1>10, <1>11, <1>12, <1>13, <1>14,
     <1>15, <1>16, <1>17 DEF CallNext

LEMMA CallStepBody == BodyInv /\ [CallNext]_callVars => BodyInv'
<1> SUFFICES ASSUME BodyInv, [CallNext]_callVars
             PROVE  BodyInv'
  OBVIOUS
<1> USE DEF BodyInv, OneBody
<1>1. CASE RefuseEarly \/ NewUsageReporter \/ PrepareFails \/ Prepare
  BY <1>1 DEF RefuseEarly, NewUsageReporter, PrepareFails, Prepare, Prepared, Fail
<1>2. CASE DoFails \/ DoCancelled \/ Do
  BY <1>2 DEF DoFails, DoCancelled, Do, NextHostOrFail, Fail
<1>3. CASE RefusedForGood \/ RefusalBreaks
  BY <1>3 DEF RefusedForGood, RefusalBreaks, CloseBody
<1>4. CASE Wait \/ WaitCancelled
  BY <1>4 DEF Wait, WaitCancelled, Fail
<1>5. CASE DecodeFails \/ Accept \/ ReadAll \/ ReadAllFails \/ ReadLine \/ BodyEnds \/ BodyBreaks
           \/ CloseGathered
  BY <1>5 DEF DecodeFails, Accept, ReadAll, ReadAllFails, ReadLine, BodyEnds, BodyBreaks,
              CloseGathered, Fail
<1>6. CASE UNCHANGED callVars
  BY <1>6 DEF callVars
<1>7. QED
  BY <1>1, <1>2, <1>3, <1>4, <1>5, <1>6 DEF CallNext

LEMMA CallSpecInv == CallSpec => []CallInv
<1>1. CallInv /\ [CallNext]_callVars => CallInv'
  BY CallStepRecord, CallStepHosts, CallStepBody DEF CallInv, HostsInv
<1>2. QED
  BY <1>1, CallInitInv, PTL DEF CallSpec

\* A call that is over has left the record its outcome calls for, for any number
\* of lines, hosts and rounds.
THEOREM CallsTellOutcome == CallSpec => []RecordTellsOutcome
<1>1. CallInv => RecordTellsOutcome
  BY DEF CallInv, RecordInv
<1>2. QED
  BY <1>1, CallSpecInv, PTL

\* A call that gives up for the hosts' sake has asked them all, as often as the
\* configuration allows.
THEOREM CallsAskAllHosts == CallSpec => []AllHostsAsked
<1>1. CallInv => AllHostsAsked
  BY DEF CallInv, HostsInv
<1>2. QED
  BY <1>1, CallSpecInv, PTL

\* No request is made while the body of an earlier answer is open.
THEOREM CallsHoldOneBody == CallSpec => []OneBody
<1>1. CallInv => OneBody
  BY DEF CallInv, BodyInv
<1>2. QED
  BY <1>1, CallSpecInv, PTL

----------------------------------------------------------------------------
(* A stream.  What the client is sent comes from the attempt the handler   *)
(* is at: another is started only while nothing has been sent.  A stream   *)
(* whose upstream broke off stays recognisable until the server has dealt  *)
(* with it: the error is in the wrapper's hands, then in the handler's,    *)
(* then in the channel of errors, which the server does not leave unread   *)
(* while anything may still be put in.                                     *)

VoiceInv ==
  /\ answer.from \subseteq {handler.attempt}
  /\ answer.from # {} \/ handler.pc = "send" => handler.sentPayload
  /\ handler.pc = "retry" => ~handler.sentPayload /\ handler.attempt <= BootstrapRetries
  /\ server.pc \in {"call", "peek"} => answer.from = {}

\* The execution is cancelled by a client that leaves or by a server that is
\* done, and until then the error of an upstream is passed on.
ErrorInv ==
  /\ server.pc = "call" => handler.pc = "none" /\ handler.attempt = 1
                        /\ ~server.noErrs /\ ~errs.closed
  /\ leaving.execution => leaving.client \/ server.pc = "done"
  /\ \A a \in Attempts :
       /\ ~wrapper[a].forward => leaving.execution
       /\ wrapper[a].pc = "ended" => upstream[a].state \in {"broken", "ended"}
  /\ handler.pc \in {"read", "send"} /\ upstream[handler.attempt].state = "broken" =>
       leaving.execution \/
       (wrapper[handler.attempt].pc = "forward" /\ wrapper[handler.attempt].chunk = "error")
  /\ handler.pc \in {"closeErrs", "closeData", "ended"} =>
       leaving.execution \/ errs.pending \/ server.pc = "done" \/
       upstream[handler.attempt].state = "ended"
  /\ handler.pc \notin {"none", "closeData", "ended"} => ~errs.closed
  /\ server.noErrs => errs.closed /\ ~errs.pending
  /\ answer.end # "none" => server.pc = "done"

StreamInv == StreamTypeOK /\ VoiceInv /\ ErrorInv /\ CompleteMeansComplete

LEMMA AttemptsFact == Attempts \subseteq Nat /\ 1 \in Attempts
  BY StreamAssumption DEF Attempts

LEMMA StreamInitInv == StreamInit => StreamInv
<1> SUFFICES ASSUME StreamInit PROVE StreamInv
  OBVIOUS
<1> USE DEF StreamInit, IdleWrapper
<1>1. server.pc = "call" /\ server.noErrs = FALSE /\ server.noData = FALSE
      /\ server \in [pc : {"call", "peek", "forward", "done"}, first : {"peek", "forward"},
                     noErrs : BOOLEAN, noData : BOOLEAN]
  OBVIOUS
<1>2. StreamTypeOK
  BY <1>1, AttemptsFact, StreamAssumption DEF StreamTypeOK, Chunks
<1>3. VoiceInv /\ CompleteMeansComplete
  BY <1>1, AttemptsFact DEF VoiceInv, CompleteMeansComplete
<1>4. ErrorInv
  BY <1>1, AttemptsFact DEF ErrorInv
<1>5. QED
  BY <1>2, <1>3, <1>4 DEF StreamInv

\* The types of StreamTypeOK, named.
UpstreamState == [state : {"none", "open", "broken", "ended"}, sent : 0..ChunksPerAttempt]
WrapperState ==
  [pc : {"none", "read", "forward", "ended"}, chunk : Chunks \cup {"none"},
   failed : BOOLEAN, forward : BOOLEAN]
HandlerState ==
  [pc : {"none", "read", "send", "retry", "report", "closeErrs", "closeData", "ended"},
   attempt : Attempts, sentPayload : BOOLEAN]
ServerState ==
  [pc : {"call", "peek", "forward", "done"}, first : {"peek", "forward"},
   noErrs : BOOLEAN, noData : BOOLEAN]
AnswerState == [from : SUBSET Attempts, end : {"none", "done", "error", "gone"}]

GoroutinesOK ==
  /\ upstream \in [Attempts -> UpstreamState]
  /\ wrapper \in [Attempts -> WrapperState]
  /\ marked \in [Attempts -> {"none", "success", "failure"}]
OthersOK ==
  /\ handler \in HandlerState
  /\ errs \in [pending : BOOLEAN, closed : BOOLEAN]
  /\ server \in ServerState /\ answer \in AnswerState
  /\ leaving \in [client : BOOLEAN, execution : BOOLEAN]

LEMMA StreamTypes == StreamTypeOK <=> GoroutinesOK /\ OthersOK
  BY DEF StreamTypeOK, GoroutinesOK, OthersOK, UpstreamState, WrapperState, HandlerState,
         ServerState, AnswerState

LEMMA OpenedTypes ==
  ASSUME GoroutinesOK, NEW a \in Attempts, Opened(a), UNCHANGED marked
  PROVE  GoroutinesOK'
<1>1. [upstream[a] EXCEPT !.state = "open"] \in UpstreamState
  BY DEF GoroutinesOK, UpstreamState
<1>2. [wrapper[a] EXCEPT !.pc = "read"] \in WrapperState
  BY DEF GoroutinesOK, WrapperState
<1>3. /\ upstream' = [upstream EXCEPT ![a] = [@ EXCEPT !.state = "open"]]
      /\ wrapper' = [wrapper EXCEPT ![a] = [@ EXCEPT !.pc = "read"]]
  BY DEF Opened
<1>4. QED
  BY <1>1, <1>2, <1>3 DEF GoroutinesOK

LEMMA StreamStepGoroutines ==
  GoroutinesOK /\ OthersOK /\ VoiceInv /\ [StreamNext]_streamVars => GoroutinesOK'
<1> SUFFICES ASSUME GoroutinesOK, OthersOK, VoiceInv, [StreamNext]_streamVars PROVE GoroutinesOK'
  OBVIOUS
<1>1. CASE CallOpens
  BY <1>1, AttemptsFact, OpenedTypes DEF CallOpens
<1>2. CASE UNCHANGED <<upstream, wrapper, marked>>
  BY <1>2 DEF GoroutinesOK
<1>3. ASSUME NEW a \in Attempts, ReadChunk(a) PROVE GoroutinesOK'
  <2> DEFINE reads(chunk) == [wrapper[a] EXCEPT !.chunk = chunk,
                         !.pc = IF wrapper[a].forward THEN "forward" ELSE "read",
                         !.failed = @ \/ chunk = "error"]
  <2>1. PICK chunk \in Chunks :
          /\ chunk = "error" \/ upstream[a].sent < ChunksPerAttempt
          /\ upstream' = [upstream EXCEPT ![a] =
               IF chunk = "error" THEN [@ EXCEPT !.state = "broken"]
                                  ELSE [@ EXCEPT !.sent = upstream[a].sent + 1]]
          /\ wrapper' = [wrapper EXCEPT ![a].chunk = chunk,
                           ![a].pc = IF wrapper[a].forward THEN "forward" ELSE "read",
                           ![a].failed = @ \/ chunk = "error"]
          /\ marked' = [marked EXCEPT ![a] = IF chunk = "error" THEN "failure" ELSE @]
    BY <1>3 DEF ReadChunk
  <2>3. reads(chunk) \in WrapperState
    BY DEF GoroutinesOK, WrapperState
  <2>9. wrapper' = [wrapper EXCEPT ![a] = reads(chunk)]
    BY <2>1 DEF GoroutinesOK, WrapperState
  <2>5. marked' \in [Attempts -> {"none", "success", "failure"}]
    BY <2>1 DEF GoroutinesOK
  <2> HIDE DEF reads
  <2>6. upstream' \in [Attempts -> UpstreamState]
    <3>1. [upstream[a] EXCEPT !.state = "broken"] \in UpstreamState
      BY DEF GoroutinesOK, UpstreamState
    <3>2. chunk # "error" => [upstream[a] EXCEPT !.sent = upstream[a].sent + 1] \in UpstreamState
      BY <2>1, StreamAssumption DEF GoroutinesOK, UpstreamState
    <3>3. QED
      BY <2>1, <3>1, <3>2 DEF GoroutinesOK
  <2>7. wrapper' \in [Attempts -> WrapperState]
    BY <2>3, <2>9 DEF GoroutinesOK
  <2>8. QED
    BY <2>5, <2>6, <2>7 DEF GoroutinesOK
<1>4. ASSUME NEW a \in Attempts, UpstreamEnds(a) PROVE GoroutinesOK'
  BY <1>4 DEF UpstreamEnds, GoroutinesOK, UpstreamState
<1>5. ASSUME NEW a \in Attempts, StopForwarding(a) PROVE GoroutinesOK'
  <2>1. wrapper' = [wrapper EXCEPT ![a] =
                      [@ EXCEPT !.pc = "read", !.forward = FALSE, !.chunk = "none"]]
    BY <1>5 DEF StopForwarding
  <2>2. [wrapper[a] EXCEPT !.pc = "read", !.forward = FALSE, !.chunk = "none"] \in WrapperState
    BY DEF GoroutinesOK, WrapperState
  <2>3. QED
    BY <1>5, <2>1, <2>2 DEF StopForwarding, GoroutinesOK
<1>6. ASSUME NEW a \in Attempts, WrapperEnds(a) PROVE GoroutinesOK'
  <2>1. wrapper' = [wrapper EXCEPT ![a] = [@ EXCEPT !.pc = "ended", !.chunk = "none"]]
    BY <1>6 DEF WrapperEnds
  <2>2. [wrapper[a] EXCEPT !.pc = "ended", !.chunk = "none"] \in WrapperState
    BY DEF GoroutinesOK, WrapperState
  <2>3. QED
    BY <1>6, <2>1, <2>2 DEF WrapperEnds, GoroutinesOK
<1>7. CASE TakeChunk
  <2>1. PICK a \in Attempts : a = handler.attempt
    BY DEF OthersOK, HandlerState
  <2>2. wrapper' = [wrapper EXCEPT ![a] = [@ EXCEPT !.pc = "read", !.chunk = "none"]]
    BY <1>7, <2>1 DEF TakeChunk
  <2>3. [wrapper[a] EXCEPT !.pc = "read", !.chunk = "none"] \in WrapperState
    BY DEF GoroutinesOK, WrapperState
  <2>4. QED
    BY <1>7, <2>2, <2>3 DEF TakeChunk, GoroutinesOK
<1>8. CASE RetryOpens
  <2>1. handler.attempt + 1 \in Attempts
    BY <1>8, StreamAssumption DEF RetryOpens, VoiceInv, Attempts, OthersOK, HandlerState
  <2>2. QED
    BY <1>8, <2>1, OpenedTypes DEF RetryOpens
<1>9. CASE CallFails \/ ClientLeaves \/ CancelExecution
  BY <1>9, <1>2 DEF CallFails, ClientLeaves, CancelExecution
<1>10. CASE StreamEnds \/ RetryFails \/ HandlerLeaves \/ SendError \/ CloseErrs \/ CloseData
  BY <1>10, <1>2 DEF StreamEnds, RetryFails, HandlerLeaves, SendError, CloseErrs, CloseData
<1>11. CASE ServerStep
  BY <1>11, <1>2 DEF ServerStep, PassChunk, SeeClientLeave, PassError, DropErrs, PeekEnds,
                     ForwardEnds
<1>12. CASE UNCHANGED streamVars
  BY <1>12, <1>2 DEF streamVars
<1>13. QED
  BY <1>1, <1>3, <1>4, <1>5, <1>6, <1>7, <1>8, <1>9, <1>10, <1>11, <1>12
     DEF StreamNext, HandlerStep, WrapperStep

LEMMA StreamStepOthers == OthersOK /\ VoiceInv /\ [StreamNext]_streamVars => OthersOK'
<1> SUFFICES ASSUME OthersOK, VoiceInv, [StreamNext]_streamVars PROVE OthersOK'
  OBVIOUS
<1> USE DEF OthersOK
<1>0. ASSUME CallOpens PROVE OthersOK'
  <2>1. server' = [server EXCEPT !.pc = server.first] /\ server' \in ServerState
    BY <1>0 DEF CallOpens, ServerState
  <2>2. handler' \in HandlerState
    BY <1>0 DEF CallOpens, HandlerState
  <2>3. QED
    BY <1>0, <2>1, <2>2 DEF CallOpens
<1>1. CASE ClientLeaves \/ CancelExecution
  BY <1>1 DEF ClientLeaves, CancelExecution
<1>13. ASSUME CallFails PROVE OthersOK'
  <2>1. server' = [server EXCEPT !.pc = server.first, !.noData = TRUE] /\ server' \in ServerState
    BY <1>13 DEF CallFails, ServerState
  <2>2. QED
    BY <1>13, <2>1 DEF CallFails
<1>2. CASE UNCHANGED <<handler, errs, server, answer, leaving>>
  BY <1>2
<1>3. ASSUME NEW a \in Attempts, ReadChunk(a) \/ UpstreamEnds(a) \/ WrapperStep(a)
      PROVE  OthersOK'
  BY <1>3, <1>2 DEF ReadChunk, UpstreamEnds, WrapperStep, StopForwarding, WrapperEnds
<1>4. CASE TakeChunk
  BY <1>4 DEF TakeChunk, AfterChunk, HandlerState
<1>5. CASE StreamEnds \/ RetryFails \/ HandlerLeaves \/ SendError \/ CloseErrs \/ CloseData
  BY <1>5 DEF StreamEnds, RetryFails, HandlerLeaves, SendError, CloseErrs, CloseData, HandlerState
<1>6. CASE RetryOpens
  <2>1. handler.attempt + 1 \in Attempts
    BY <1>6, StreamAssumption DEF RetryOpens, VoiceInv, Attempts, HandlerState
  <2>2. QED
    BY <1>6, <2>1 DEF RetryOpens, HandlerState
<1>7. CASE PassChunk
  BY <1>7 DEF PassChunk, HandlerState, ServerState, AnswerState
<1>8. ASSUME NEW end \in {"done", "error", "gone"}, Answer(end), UNCHANGED handler,
             errs' \in [pending : BOOLEAN, closed : BOOLEAN]
      PROVE  OthersOK'
  BY <1>8 DEF Answer, ServerState, AnswerState
<1>9. CASE DropErrs
  BY <1>9 DEF DropErrs, ServerState
<1>10. CASE SeeClientLeave \/ PassError \/ PeekEnds \/ ForwardEnds
  BY <1>8, <1>10 DEF SeeClientLeave, PassError, PeekEnds, ForwardEnds
<1>11. CASE UNCHANGED streamVars
  BY <1>11 DEF streamVars
<1>12. QED
  BY <1>0, <1>1, <1>13, <1>3, <1>4, <1>5, <1>6, <1>7, <1>9, <1>10, <1>11
     DEF StreamNext, HandlerStep, ServerStep

LEMMA StreamStepVoice == StreamInv /\ [StreamNext]_streamVars => VoiceInv'
<1> SUFFICES ASSUME StreamInv, [StreamNext]_streamVars PROVE VoiceInv'
  OBVIOUS
<1>0. OthersOK /\ VoiceInv /\ ErrorInv
  BY StreamTypes DEF StreamInv
<1> USE <1>0 DEF VoiceInv
<1>1. CASE UNCHANGED <<handler, answer, server>>
  BY <1>1
<1>2. CASE CallOpens
  BY <1>2 DEF CallOpens, ErrorInv, OthersOK, HandlerState, ServerState
<1>3. CASE CallFails
  BY <1>3 DEF CallFails, OthersOK, ServerState
<1>4. CASE ClientLeaves \/ CancelExecution
  BY <1>4, <1>1 DEF ClientLeaves, CancelExecution
<1>5. ASSUME NEW a \in Attempts, ReadChunk(a) \/ UpstreamEnds(a) \/ WrapperStep(a)
      PROVE  VoiceInv'
  BY <1>5, <1>1 DEF ReadChunk, UpstreamEnds, WrapperStep, StopForwarding, WrapperEnds
<1>6. CASE TakeChunk
  <2>1. /\ handler'.attempt = handler.attempt
        /\ handler.sentPayload => handler'.sentPayload
        /\ handler'.pc = "send" => handler'.sentPayload
        /\ handler'.pc = "retry" => MayRetry /\ handler'.sentPayload = handler.sentPayload
    BY <1>6 DEF TakeChunk, AfterChunk, OthersOK, HandlerState
  <2>2. QED
    BY <1>6, <2>1 DEF TakeChunk, MayRetry
<1>7. CASE StreamEnds \/ RetryFails \/ HandlerLeaves \/ SendError \/ CloseErrs \/ CloseData
  BY <1>7 DEF StreamEnds, RetryFails, HandlerLeaves, SendError, CloseErrs, CloseData,
              OthersOK, HandlerState
<1>8. CASE RetryOpens
  BY <1>8 DEF RetryOpens, OthersOK, HandlerState
<1>9. CASE PassChunk
  BY <1>9 DEF PassChunk, OthersOK, HandlerState, ServerState, AnswerState
<1>10. ASSUME NEW end, Answer(end), UNCHANGED handler PROVE VoiceInv'
  BY <1>10 DEF Answer, OthersOK, ServerState, AnswerState
<1>11. CASE SeeClientLeave \/ PassError \/ PeekEnds \/ ForwardEnds
  BY <1>10, <1>11 DEF SeeClientLeave, PassError, PeekEnds, ForwardEnds
<1>12. CASE DropErrs
  BY <1>12 DEF DropErrs, OthersOK, ServerState
<1>13. CASE UNCHANGED streamVars
  BY <1>13 DEF streamVars
<1>14. QED
  BY <1>2, <1>3, <1>4, <1>5, <1>6, <1>7, <1>8, <1>9, <1>11, <1>12, <1>13
     DEF StreamNext, HandlerStep, ServerStep

\* An end the server sees for itself is the upstream's, or the client has left.
LEMMA DoneMeansEnded ==
  ASSUME StreamInv, PeekEnds \/ (ForwardEnds /\ ~ErrorReady), ~leaving.client
  PROVE  \A a \in answer.from : upstream[a].state = "ended"
<1>1. CASE PeekEnds
  BY <1>1 DEF PeekEnds, StreamInv, VoiceInv
<1>2. CASE ForwardEnds /\ ~ErrorReady
  <2>1. ~leaving.execution /\ ~errs.pending
    BY <1>2 DEF ForwardEnds, ErrorReady, StreamInv, ErrorInv, StreamTypeOK
  <2>2. upstream[handler.attempt].state = "ended"
    BY <1>2, <2>1 DEF ForwardEnds, DataClosed, StreamInv, ErrorInv
  <2>3. QED
    BY <2>2 DEF StreamInv, VoiceInv
<1>3. QED
  BY <1>1, <1>2

LEMMA StreamStepComplete == StreamInv /\ [StreamNext]_streamVars => CompleteMeansComplete'
<1> SUFFICES ASSUME StreamInv, [StreamNext]_streamVars PROVE CompleteMeansComplete'
  OBVIOUS
<1>0. GoroutinesOK /\ OthersOK /\ VoiceInv /\ ErrorInv /\ CompleteMeansComplete
  BY StreamTypes DEF StreamInv
<1> USE <1>0 DEF CompleteMeansComplete
<1>1. CASE UNCHANGED <<answer, leaving, upstream>>
  BY <1>1
<1>2. CASE CallOpens
  BY <1>2 DEF CallOpens, ErrorInv
<1>3. CASE ClientLeaves \/ CancelExecution
  BY <1>3 DEF ClientLeaves, CancelExecution, OthersOK
<1>4. ASSUME NEW a \in Attempts, ReadChunk(a) \/ UpstreamEnds(a)
      PROVE  CompleteMeansComplete'
  <2>1. upstream[a].state = "open" /\ UNCHANGED <<answer, leaving>>
    BY <1>4 DEF ReadChunk, UpstreamEnds
  <2>2. \A b \in Attempts \ {a} : upstream'[b] = upstream[b]
    BY <1>4 DEF ReadChunk, UpstreamEnds, GoroutinesOK
  <2>3. answer.from \subseteq Attempts
    BY DEF OthersOK, AnswerState
  <2>4. QED
    BY <2>1, <2>2, <2>3
<1>5. ASSUME NEW a \in Attempts, WrapperStep(a)
      PROVE  CompleteMeansComplete'
  BY <1>5, <1>1 DEF WrapperStep, StopForwarding, WrapperEnds
<1>6. CASE RetryOpens
  BY <1>6 DEF RetryOpens, VoiceInv, ErrorInv
<1>7. CASE TakeChunk \/ StreamEnds \/ RetryFails \/ HandlerLeaves \/ SendError \/ CloseErrs
           \/ CloseData \/ DropErrs \/ CallFails
  BY <1>7, <1>1 DEF TakeChunk, StreamEnds, RetryFails, HandlerLeaves, SendError, CloseErrs,
                    CloseData, DropErrs, CallFails
<1>8. CASE PassChunk
  BY <1>8 DEF PassChunk, ErrorInv, OthersOK, AnswerState
<1>9. ASSUME NEW end, Answer(end), UNCHANGED upstream, end # "done" PROVE CompleteMeansComplete'
  BY <1>9 DEF Answer, OthersOK, AnswerState
<1>10. ASSUME NEW end, Answer(end), UNCHANGED upstream, ~leaving.client =>
              \A a \in answer.from : upstream[a].state = "ended"
       PROVE CompleteMeansComplete'
  BY <1>10 DEF Answer, OthersOK, AnswerState
<1>11. CASE SeeClientLeave \/ PassError
  BY <1>9, <1>11 DEF SeeClientLeave, PassError
<1>12. CASE PeekEnds \/ (ForwardEnds /\ ~ErrorReady)
  BY <1>10, <1>12, DoneMeansEnded DEF PeekEnds, ForwardEnds
<1>13. CASE ForwardEnds /\ ErrorReady
  BY <1>9, <1>13 DEF ForwardEnds
<1>14. CASE UNCHANGED streamVars
  BY <1>14 DEF streamVars
<1>15. QED
  BY <1>2, <1>3, <1>4, <1>5, <1>6, <1>7, <1>8, <1>11, <1>12, <1>13, <1>14
     DEF StreamNext, HandlerStep, ServerStep

LEMMA StreamStepError == StreamInv /\ [StreamNext]_streamVars => ErrorInv'
<1> SUFFICES ASSUME StreamInv, [StreamNext]_streamVars PROVE ErrorInv'
  OBVIOUS
<1>0. GoroutinesOK /\ OthersOK /\ VoiceInv /\ ErrorInv /\ handler.attempt \in Attempts
  BY StreamTypes DEF StreamInv, OthersOK, HandlerState
<1>1. CASE CallOpens
  <2>1. /\ upstream'[1].state = "open" /\ wrapper'[1].pc = "read"
        /\ wrapper'[1].forward = wrapper[1].forward
        /\ \A b \in Attempts \ {1} : wrapper'[b] = wrapper[b] /\ upstream'[b] = upstream[b]
    BY <1>0, <1>1, AttemptsFact DEF CallOpens, Opened, GoroutinesOK, UpstreamState, WrapperState
  <2>2. handler'.pc = "read" /\ handler'.attempt = 1
    BY <1>0, <1>1 DEF CallOpens, ErrorInv, OthersOK, HandlerState
  <2>3. server'.pc \in {"peek", "forward"} /\ server'.noErrs = server.noErrs
    BY <1>0, <1>1 DEF CallOpens, OthersOK, ServerState
  <2>4. QED
    BY <1>0, <1>1, <2>1, <2>2, <2>3 DEF CallOpens, ErrorInv
<1>2. CASE CallFails
  <2>1. server'.pc \in {"peek", "forward"} /\ server'.noErrs = server.noErrs
    BY <1>0, <1>2 DEF CallFails, OthersOK, ServerState
  <2>2. QED
    BY <1>0, <1>2, <2>1 DEF CallFails, ErrorInv
<1>3. CASE ClientLeaves \/ CancelExecution
  BY <1>0, <1>3 DEF ClientLeaves, CancelExecution, ErrorInv, OthersOK
<1>4. ASSUME NEW a \in Attempts, ReadChunk(a) PROVE ErrorInv'
  <2>1. PICK chunk \in Chunks :
          /\ upstream' = [upstream EXCEPT ![a] =
               IF chunk = "error" THEN [@ EXCEPT !.state = "broken"]
                                  ELSE [@ EXCEPT !.sent = upstream[a].sent + 1]]
          /\ wrapper' = [wrapper EXCEPT ![a].chunk = chunk,
                           ![a].pc = IF wrapper[a].forward THEN "forward" ELSE "read",
                           ![a].failed = @ \/ chunk = "error"]
    BY <1>4 DEF ReadChunk
  <2>2. \A b \in Attempts \ {a} : wrapper'[b] = wrapper[b] /\ upstream'[b] = upstream[b]
    BY <1>0, <2>1 DEF GoroutinesOK
  <2>3. /\ wrapper'[a].forward = wrapper[a].forward /\ wrapper'[a].chunk = chunk
        /\ wrapper'[a].pc = IF wrapper[a].forward THEN "forward" ELSE "read"
    BY <1>0, <2>1 DEF GoroutinesOK, WrapperState
  <2>4. upstream'[a].state = IF chunk = "error" THEN "broken" ELSE upstream[a].state
    BY <1>0, <2>1 DEF GoroutinesOK, UpstreamState
  <2>5. UNCHANGED <<handler, errs, server, answer, leaving>> /\ upstream[a].state = "open"
    BY <1>4 DEF ReadChunk
  <2>6. QED
    BY <1>0, <2>2, <2>3, <2>4, <2>5 DEF ErrorInv
<1>5. ASSUME NEW a \in Attempts, UpstreamEnds(a) PROVE ErrorInv'
  <2>1. \A b \in Attempts \ {a} : upstream'[b] = upstream[b]
    BY <1>0, <1>5 DEF UpstreamEnds, GoroutinesOK
  <2>2. upstream'[a].state = "ended"
    BY <1>0, <1>5 DEF UpstreamEnds, GoroutinesOK, UpstreamState
  <2>3. QED
    BY <1>0, <1>5, <2>1, <2>2 DEF UpstreamEnds, ErrorInv
<1>6. ASSUME NEW a \in Attempts, StopForwarding(a) PROVE ErrorInv'
  <2>1. \A b \in Attempts \ {a} : wrapper'[b] = wrapper[b]
    BY <1>0, <1>6 DEF StopForwarding, GoroutinesOK
  <2>2. wrapper'[a].pc = "read"
    BY <1>0, <1>6 DEF StopForwarding, GoroutinesOK, WrapperState
  <2>3. QED
    BY <1>0, <1>6, <2>1, <2>2 DEF StopForwarding, ErrorInv
<1>7. ASSUME NEW a \in Attempts, WrapperEnds(a) PROVE ErrorInv'
  <2>1. \A b \in Attempts \ {a} : wrapper'[b] = wrapper[b]
    BY <1>0, <1>7 DEF WrapperEnds, GoroutinesOK
  <2>2. wrapper'[a].pc = "ended" /\ wrapper'[a].forward = wrapper[a].forward
    BY <1>0, <1>7 DEF WrapperEnds, GoroutinesOK, WrapperState
  <2>3. wrapper[a].pc = "read" /\ upstream[a].state \in {"broken", "ended"}
        /\ UNCHANGED <<upstream, handler, errs, server, answer, leaving>>
    BY <1>7 DEF WrapperEnds
  <2>4. handler.attempt = a /\ handler.pc \in {"read", "send"} /\ upstream[a].state = "broken" =>
          leaving.execution
    BY <1>0, <2>3 DEF ErrorInv
  <2>5. QED
    BY <1>0, <2>1, <2>2, <2>3, <2>4 DEF ErrorInv
<1>8. CASE TakeChunk
  <2>1. PICK a \in Attempts : a = handler.attempt
    BY <1>0
  <2>2. \A b \in Attempts \ {a} : wrapper'[b] = wrapper[b]
    BY <1>0, <1>8, <2>1 DEF TakeChunk, GoroutinesOK
  <2>3. wrapper'[a].pc = "read" /\ wrapper'[a].forward = wrapper[a].forward
    BY <1>0, <1>8, <2>1 DEF TakeChunk, GoroutinesOK, WrapperState
  <2>4. /\ handler'.attempt = a
        /\ handler'.pc \in {"read", "send", "report", "retry"}
        /\ handler'.pc \in {"read", "send"} => wrapper[a].chunk # "error"
    BY <1>0, <1>8, <2>1 DEF TakeChunk, AfterChunk, OthersOK, HandlerState
  <2>5. handler.pc = "read" /\ UNCHANGED <<upstream, errs, server, answer, leaving>>
    BY <1>8 DEF TakeChunk
  <2>6. QED
    BY <1>0, <2>1, <2>2, <2>3, <2>4, <2>5 DEF ErrorInv
<1>9. CASE StreamEnds \/ HandlerLeaves
  BY <1>0, <1>9 DEF StreamEnds, HandlerLeaves, ErrorInv, OthersOK, HandlerState
<1>10. CASE RetryOpens
  <2>1. PICK a \in Attempts : a = handler.attempt + 1
    BY <1>0, <1>10, StreamAssumption DEF RetryOpens, VoiceInv, Attempts
  <2>2. /\ upstream'[a].state = "open" /\ wrapper'[a].pc = "read"
        /\ wrapper'[a].forward = wrapper[a].forward
        /\ \A b \in Attempts \ {a} : wrapper'[b] = wrapper[b] /\ upstream'[b] = upstream[b]
    BY <1>0, <1>10, <2>1 DEF RetryOpens, Opened, GoroutinesOK, UpstreamState, WrapperState
  <2>3. handler'.pc = "read" /\ handler'.attempt = a
    BY <1>0, <1>10, <2>1 DEF RetryOpens, OthersOK, HandlerState
  <2>4. QED
    BY <1>0, <1>10, <2>2, <2>3 DEF RetryOpens, ErrorInv
<1>11. CASE RetryFails \/ CloseErrs \/ CloseData
  BY <1>0, <1>11 DEF RetryFails, CloseErrs, CloseData, ErrorInv, OthersOK, HandlerState
<1>12. CASE SendError
  BY <1>0, <1>12 DEF SendError, ErrorInv, OthersOK, HandlerState
<1>13. CASE PassChunk
  BY <1>0, <1>13 DEF PassChunk, ErrorInv, OthersOK, HandlerState, ServerState, AnswerState
<1>14. ASSUME NEW end, Answer(end), UNCHANGED <<upstream, wrapper, handler>>,
              server.pc # "call", errs'.closed = errs.closed,
              errs'.pending => errs.pending
       PROVE  ErrorInv'
  BY <1>0, <1>14 DEF Answer, ErrorInv, OthersOK, ServerState, AnswerState
<1>15. CASE SeeClientLeave \/ PassError \/ PeekEnds \/ ForwardEnds
  BY <1>0, <1>14, <1>15 DEF SeeClientLeave, PassError, PeekEnds, ForwardEnds, OthersOK
<1>16. CASE DropErrs
  BY <1>0, <1>16 DEF DropErrs, ErrorInv, OthersOK, ServerState
<1>17. CASE UNCHANGED streamVars
  BY <1>0, <1>17 DEF streamVars, ErrorInv
<1>18. QED
  BY <1>1, <1>2, <1>3, <1>4, <1>5, <1>6, <1>7, <1>8, <1>9, <1>10, <1>11, <1>12, <1>13, <1>15,
     <1>16, <1>17 DEF StreamNext, HandlerStep, ServerStep, WrapperStep

LEMMA StreamSpecInv == StreamSpec => []StreamInv
<1>1. StreamInv /\ [StreamNext]_streamVars => StreamInv'
  <2> SUFFICES ASSUME StreamInv, [StreamNext]_streamVars PROVE StreamInv'
    OBVIOUS
  <2>1. GoroutinesOK' /\ OthersOK'
    BY StreamTypes, StreamStepGoroutines, StreamStepOthers DEF StreamInv
  <2>2. StreamTypeOK'
    BY <2>1 DEF StreamTypeOK, GoroutinesOK, OthersOK, UpstreamState, WrapperState, HandlerState,
                ServerState, AnswerState
  <2>3. QED
    BY <2>2, StreamStepVoice, StreamStepError, StreamStepComplete DEF StreamInv
<1>2. QED
  BY <1>1, StreamInitInv, PTL DEF StreamSpec

\* Whatever the goroutines do in whatever order, and however many times an
\* attempt is started anew, a client that stays is sent the payload of one
\* attempt, and is told that it was complete only if it was.
THEOREM ClientsNotMisled == StreamSpec => []ClientNotMisled
<1>1. StreamInv => ClientNotMisled
  <2> SUFFICES ASSUME StreamInv PROVE OneVoice
    BY DEF ClientNotMisled, StreamInv
  <2>1. answer.from = {} \/ answer.from = {handler.attempt}
    BY DEF StreamInv, VoiceInv
  <2>2. Cardinality({}) = 0 /\ Cardinality({handler.attempt}) = 1
    BY FS_EmptySet, FS_Singleton
  <2>3. QED
    BY <2>1, <2>2 DEF OneVoice
<1>2. QED
  BY <1>1, StreamSpecInv, PTL
=============================================================================
