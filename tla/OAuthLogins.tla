----------------------------- MODULE OAuthLogins -----------------------------
(***************************************************************************)
(* Logins started through the management API (auth_files.go Request*Token, *)
(* oauth_sessions.go, oauth_callback.go).  A request registers a session,  *)
(* for the web console starts a forwarder on the port the provider         *)
(* redirects to, and leaves a goroutine behind.  The callback arrives at   *)
(* another handler, which writes a file; the goroutine polls for the file, *)
(* exchanges the code and saves the token.  The console polls              *)
(* GetAuthStatus.                                                          *)
(*                                                                         *)
(* Logins of one provider meet in its port and its sessions; those of      *)
(* different providers do not, so a behaviour follows one provider.        *)
(***************************************************************************)
CONSTANTS Logins,      \* requests for a login of the provider
          Callbacks,   \* requests that bring a callback
          None

ASSUME LoginAssumption == None \notin Logins

VARIABLES provider,    \* what its Request*Token does
          login,       \* the request and its goroutine
          sessions,    \* oauthSessions, as GetOAuthSession finds them
          forwarders,  \* callbackForwarders[port]: whose it is
          listening,   \* whose server has the port
          callback,    \* handlers that write a callback file
          file,        \* login -> its callback file
          saved,       \* logins whose token has been saved
          replaced,    \* history: logins whose forwarder a later one stopped
          expired      \* history: logins whose session outlived its 10 minutes

loginVars == <<provider, login, sessions, forwarders, listening, callback, file, saved,
               replaced, expired>>
----------------------------------------------------------------------------
(* The providers.  All but Qwen wait for a callback; Qwen polls a device   *)
(* flow instead.  Some check the state in the callback, some the code; and *)
(* all but Qwen end every session of the provider with their own.          *)

Web(checksState, needsCode) ==
  [device |-> FALSE, checksState |-> checksState, needsCode |-> needsCode, endsAll |-> TRUE]

Anthropic   == Web(TRUE, FALSE)
GeminiCLI   == Web(FALSE, TRUE)
Codex       == Web(TRUE, FALSE)
Antigravity == Web(FALSE, TRUE)   \* a state that is given must match: it always does
IFlow       == Web(TRUE, TRUE)
Qwen        == [device |-> TRUE, checksState |-> FALSE, needsCode |-> FALSE, endsAll |-> FALSE]

Providers == {Anthropic, GeminiCLI, Codex, Antigravity, IFlow, Qwen}

CallbackContents == {"code", "codeless", "error"}

LoginState ==
  [ pc     : {"new", "take", "unseat", "listen", "enter", "refused", "poll", "read", "remove",
              "fail", "exchange", "complete", "endAll", "leave", "stop", "ended"},
    web    : BOOLEAN,                 \* is_webui: it has a forwarder
    late   : BOOLEAN,                 \* its deadline has passed
    former : Logins \cup {None},      \* whose forwarder it has to stop
    got    : CallbackContents \cup {"none", "torn"} ]

CallbackState ==
  [ pc      : {"idle", "open", "write", "done"},
    for     : Logins \cup {None},
    content : CallbackContents \cup {"none"} ]

LoginTypeOK ==
  /\ provider \in Providers
  /\ login \in [Logins -> LoginState]
  /\ sessions \in [Logins -> {"unknown", "pending", "error"}]
  /\ forwarders \in Logins \cup {None} /\ listening \in Logins \cup {None}
  /\ callback \in [Callbacks -> CallbackState]
  /\ file \in [Logins -> CallbackContents \cup {"none", "torn"}]
  /\ saved \subseteq Logins /\ replaced \subseteq Logins /\ expired \subseteq Logins

IdleCallback == [pc |-> "idle", for |-> None, content |-> "none"]

LoginInit ==
  /\ provider \in Providers
  /\ login = [f \in Logins |-> [pc |-> "new", web |-> FALSE, late |-> FALSE, former |-> None,
                                got |-> "none"]]
  /\ sessions = [f \in Logins |-> "unknown"]
  /\ forwarders = None /\ listening = None
  /\ callback = [c \in Callbacks |-> IdleCallback]
  /\ file = [f \in Logins |-> "none"]
  /\ saved = {} /\ replaced = {} /\ expired = {}

LoginGoes(f, pc) == login' = [login EXCEPT ![f].pc = pc]
----------------------------------------------------------------------------
(* The request: Register, and startCallbackForwarder.                      *)

BeginLogin(f) ==
  /\ login[f].pc = "new"
  /\ sessions' = [sessions EXCEPT ![f] = "pending"]
  /\ \E web \in IF provider.device THEN {FALSE} ELSE BOOLEAN :
       login' = [login EXCEPT ![f].web = web,
                   ![f].pc = IF provider.device THEN "exchange" ELSE IF web THEN "take" ELSE "poll"]
  /\ UNCHANGED <<provider, forwarders, listening, callback, file, saved, replaced, expired>>

TakeForwarder(f) ==
  /\ login[f].pc = "take"
  /\ forwarders' = None
  /\ login' = [login EXCEPT ![f].former = forwarders,
                            ![f].pc = IF forwarders = None THEN "listen" ELSE "unseat"]
  /\ UNCHANGED <<provider, sessions, listening, callback, file, saved, replaced, expired>>

StopFormer(f) ==
  /\ login[f].pc = "unseat"
  /\ listening' = IF listening = login[f].former THEN None ELSE listening
  /\ replaced' = replaced \cup {login[f].former}
  /\ login' = [login EXCEPT ![f].pc = "listen", ![f].former = None]
  /\ UNCHANGED <<provider, sessions, forwarders, callback, file, saved, expired>>

ListenOnPort(f) ==
  /\ login[f].pc = "listen" /\ listening = None
  /\ listening' = f
  /\ LoginGoes(f, "enter")
  /\ UNCHANGED <<provider, sessions, forwarders, callback, file, saved, replaced, expired>>

\* The port is taken, by another login or another program: the request
\* fails and its session is left behind.
ListenFails(f) ==
  /\ login[f].pc = "listen"
  /\ LoginGoes(f, "refused")
  /\ UNCHANGED <<provider, sessions, forwarders, listening, callback, file, saved, replaced, expired>>

EnterForwarder(f) ==
  /\ login[f].pc = "enter"
  /\ forwarders' = f
  /\ LoginGoes(f, "poll")
  /\ UNCHANGED <<provider, sessions, listening, callback, file, saved, replaced, expired>>
----------------------------------------------------------------------------
(* The goroutine: wait for the callback file.                              *)

\* Faulty variant: there is no deadline.
PollOnAndOn(f) ==
  /\ login[f].pc = "poll"
  /\ LoginGoes(f, IF sessions[f] # "pending" THEN "leave" ELSE "read")
  /\ UNCHANGED <<provider, sessions, forwarders, listening, callback, file, saved, replaced, expired>>

PollSession(f) ==
  /\ login[f].pc = "poll"
  /\ LoginGoes(f, IF sessions[f] # "pending" THEN "leave" ELSE IF login[f].late THEN "fail" ELSE "read")
  /\ UNCHANGED <<provider, sessions, forwarders, listening, callback, file, saved, replaced, expired>>

ReadCallbackFile(f) ==
  /\ login[f].pc = "read"
  /\ login' = [login EXCEPT ![f].pc = IF file[f] = "none" THEN "poll" ELSE "remove",
                            ![f].got = file[f]]
  /\ UNCHANGED <<provider, sessions, forwarders, listening, callback, file, saved, replaced, expired>>

\* A file read while it is being written is empty: no state, no code.
Acceptable(got) ==
  CASE got = "error"    -> FALSE
    [] got = "torn"     -> ~provider.checksState /\ ~provider.needsCode
    [] got = "codeless" -> ~provider.needsCode
    [] OTHER            -> TRUE

\* A handler that still writes it writes to a file without a name.
RemoveCallbackFile(f) ==
  /\ login[f].pc = "remove"
  /\ file' = [file EXCEPT ![f] = "none"]
  /\ callback' = [c \in Callbacks |-> IF callback[c].pc = "write" /\ callback[c].for = f
                                        THEN [callback[c] EXCEPT !.pc = "done"] ELSE callback[c]]
  /\ LoginGoes(f, IF Acceptable(login[f].got) THEN "exchange" ELSE "fail")
  /\ UNCHANGED <<provider, sessions, forwarders, listening, saved, replaced, expired>>

\* SetError: for a session that is still there.
FailLogin(f) ==
  /\ login[f].pc = "fail"
  /\ sessions' = [sessions EXCEPT ![f] = IF @ = "unknown" THEN @ ELSE "error"]
  /\ LoginGoes(f, "leave")
  /\ UNCHANGED <<provider, forwarders, listening, callback, file, saved, replaced, expired>>
----------------------------------------------------------------------------
(* Exchange, save, complete.                                               *)

\* Faulty variant: a failure to save is only logged.
ExchangeFailsQuietly(f) ==
  /\ login[f].pc = "exchange"
  /\ \E pc \in {"fail", "complete"} : LoginGoes(f, pc)
  /\ UNCHANGED <<provider, sessions, forwarders, listening, callback, file, saved, replaced, expired>>

ExchangeFails(f) ==
  /\ login[f].pc = "exchange"
  /\ LoginGoes(f, "fail")
  /\ UNCHANGED <<provider, sessions, forwarders, listening, callback, file, saved, replaced, expired>>

\* saveTokenRecord.  The provider gives no token for a missing code.
SaveToken(f) ==
  /\ login[f].pc = "exchange" /\ login[f].got # "codeless"
  /\ saved' = saved \cup {f}
  /\ LoginGoes(f, "complete")
  /\ UNCHANGED <<provider, sessions, forwarders, listening, callback, file, replaced, expired>>

CompleteLogin(f) ==
  /\ login[f].pc = "complete"
  /\ sessions' = [sessions EXCEPT ![f] = "unknown"]
  /\ LoginGoes(f, IF provider.endsAll THEN "endAll" ELSE "leave")
  /\ UNCHANGED <<provider, forwarders, listening, callback, file, saved, replaced, expired>>

CompleteProvider(f) ==
  /\ login[f].pc = "endAll"
  /\ sessions' = [g \in Logins |-> "unknown"]
  /\ LoginGoes(f, "leave")
  /\ UNCHANGED <<provider, forwarders, listening, callback, file, saved, replaced, expired>>

\* stopCallbackForwarderInstance
LeavePort(f) ==
  /\ login[f].pc = "leave"
  /\ forwarders' = IF forwarders = f THEN None ELSE forwarders
  /\ login' = [login EXCEPT ![f] = [@ EXCEPT !.pc = IF login[f].web THEN "stop" ELSE "ended",
                                             !.late = FALSE, !.got = "none"]]
  /\ UNCHANGED <<provider, sessions, listening, callback, file, saved, replaced, expired>>

StopForwarder(f) ==
  /\ login[f].pc = "stop"
  /\ listening' = IF listening = f THEN None ELSE listening
  /\ LoginGoes(f, "ended")
  /\ UNCHANGED <<provider, sessions, forwarders, callback, file, saved, replaced, expired>>
----------------------------------------------------------------------------
(* Callbacks: WriteOAuthCallbackFileForPendingSession.  An unknown state,  *)
(* or one that is not pending, is turned away.                             *)

BringCallback(c) ==
  /\ callback[c].pc = "idle" /\ ~provider.device
  /\ \E f \in Logins, content \in CallbackContents :
       /\ sessions[f] = "pending"
       /\ callback' = [callback EXCEPT ![c] = [pc |-> "open", for |-> f, content |-> content]]
  /\ UNCHANGED <<provider, login, sessions, forwarders, listening, file, saved, replaced, expired>>

\* os.WriteFile makes an empty file, or empties the one there, ...
OpenCallbackFile(c) ==
  /\ callback[c].pc = "open"
  /\ file' = [file EXCEPT ![callback[c].for] = "torn"]
  /\ callback' = [callback EXCEPT ![c].pc = "write"]
  /\ UNCHANGED <<provider, login, sessions, forwarders, listening, saved, replaced, expired>>

\* ... and then writes it.
WriteCallbackFile(c) ==
  /\ callback[c].pc = "write"
  /\ file' = [file EXCEPT ![callback[c].for] = callback[c].content]
  /\ callback' = [callback EXCEPT ![c].pc = "done"]
  /\ UNCHANGED <<provider, login, sessions, forwarders, listening, saved, replaced, expired>>
----------------------------------------------------------------------------
(* Time: 5 minutes for the callback, 10 for a session.                     *)

Waiting(f) == login[f].pc \in {"poll", "read"}

Deadline(f) ==
  /\ Waiting(f) /\ ~login[f].late
  /\ login' = [login EXCEPT ![f].late = TRUE]
  /\ UNCHANGED <<provider, sessions, forwarders, listening, callback, file, saved, replaced, expired>>

\* A login that waits is given up long before; what takes minutes is the
\* exchange, and what comes after.
Expire(f) ==
  /\ sessions[f] # "unknown"
  /\ login[f].pc \in {"refused", "exchange", "ended"}
  /\ sessions' = [sessions EXCEPT ![f] = "unknown"]
  /\ expired' = expired \cup {f}
  /\ UNCHANGED <<provider, login, forwarders, listening, callback, file, saved, replaced>>
----------------------------------------------------------------------------
LoginStep(f) ==
  \/ TakeForwarder(f) \/ StopFormer(f) \/ ListenOnPort(f) \/ ListenFails(f) \/ EnterForwarder(f)
  \/ PollSession(f) \/ ReadCallbackFile(f) \/ RemoveCallbackFile(f) \/ FailLogin(f)
  \/ CompleteLogin(f) \/ CompleteProvider(f) \/ LeavePort(f) \/ StopForwarder(f)

LoginNext ==
  \/ \E f \in Logins :
       \/ BeginLogin(f) \/ LoginStep(f) \/ ExchangeFails(f) \/ SaveToken(f) \/ Deadline(f) \/ Expire(f)
  \/ \E c \in Callbacks : BringCallback(c) \/ OpenCallbackFile(c) \/ WriteCallbackFile(c)

LoginSpec == LoginInit /\ [][LoginNext]_loginVars

\* Goroutines run and five minutes pass.  Nobody need log in, and a provider
\* need not answer the exchange.
LoginFairness ==
  \A f \in Logins : WF_loginVars(LoginStep(f)) /\ WF_loginVars(Deadline(f))

FairLoginSpec == LoginSpec /\ LoginFairness
----------------------------------------------------------------------------
(* Properties.                                                             *)

(***************************************************************************)
(* What GetAuthStatus tells the console: an error means that no token was  *)
(* saved by this login, and "ok", which any unknown state gets, that this  *)
(* login or another of the provider saved one, for as long as sessions do  *)
(* not expire.                                                             *)
(***************************************************************************)
LoginStatusTrue ==
  \A f \in Logins :
    /\ sessions[f] = "error" => f \notin saved
    /\ (sessions[f] = "unknown" /\ login[f].pc # "new" /\ f \notin expired) => saved # {}

(***************************************************************************)
(* The console's login that waits has its forwarder on the port, unless a  *)
(* later login has taken the port over: none that ends, fails to start or  *)
(* is replaced shuts the forwarder of another.                             *)
(***************************************************************************)
ForwarderKept ==
  \A f \in Logins : (Waiting(f) /\ login[f].web) => (listening = f \/ f \in replaced)

\* Logins that share a provider's sessions and a callback port do not disturb
\* each other.
LoginsUndisturbed == LoginStatusTrue /\ ForwarderKept

(***************************************************************************)
(* A login that waits for its callback gets it or ends, and leaves the     *)
(* port to others.                                                         *)
(***************************************************************************)
WaitingEnds ==
  \A f \in Logins :
    Waiting(f) ~> (login[f].pc = "exchange" \/ (login[f].pc = "ended" /\ listening # f))
=============================================================================
