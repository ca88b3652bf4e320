---------------------------- MODULE TokenKeeping ----------------------------
(***************************************************************************)
(* Where the tokens of one credential are kept: in the manager's memory,   *)
(* in its file of the auth directory, and in what the token store mirrors  *)
(* the directory to, an object bucket, a table or a git remote.  Whatever  *)
(* updates the credential saves it through the store; the watcher follows  *)
(* the file, brings it back to memory and has the store sync it.           *)
(*                                                                         *)
(* Providers rotate refresh tokens: one is good for a single refresh, so a *)
(* copy that goes back to an earlier token has lost the account.           *)
(***************************************************************************)
EXTENDS Naturals, Integers, FiniteSets

CONSTANTS TokenLimit,     \* bound: tokens the provider issues
          UpdateLimit,    \* bound: updates of the credential
          FailureLimit,   \* bound: calls of the store or the provider that fail
          CrashLimit      \* bound: crashes

ASSUME TokenAssumption == TokenLimit \in Nat \ {0} /\ {UpdateLimit, FailureLimit, CrashLimit} \subseteq Nat

VARIABLES
          store,      \* the token store
          habit,      \* how the credential's executor refreshes
          issued,     \* tokens the provider has issued
          spent,      \* those that were used for a refresh
          managed,    \* the credential in Manager.auths
          authFile,   \* its file
          head,       \* the file in the git store's last commit
          remote,     \* what the store mirrored it to
          updater,    \* those that update the credential
          watch,      \* the watcher: notice, seen content, what waits to be applied, sync
          kept,       \* history: the content the last update that ended well left
          crossed,    \* history: whether an update failed or met another, or a crash cut one
          failed,     \* history: remote calls that failed since the file last changed
          dropped,    \* history: the provider's answer with a new token was lost
          updates, failures, crashes     \* counters for the bounds

tokenVars == <<store, habit, issued, spent, managed, authFile, head, remote, updater, watch, kept,
               crossed, failed, dropped, updates, failures, crashes>>
----------------------------------------------------------------------------
Stores == {"file", "object", "postgres", "git"}

\* What the executors' Refresh does: how often it asks; whether the token it used is then spent;
\* whether the new one is thrown away if what it asks for next does not come.
Habit(attempts, rotates, info) == [attempts |-> attempts, rotates |-> rotates, info |-> info]

CodexRefresh       == Habit(3, TRUE, FALSE)
ClaudeRefresh      == Habit(1, TRUE, FALSE)
QwenRefresh        == Habit(1, TRUE, FALSE)
IFlowRefresh       == Habit(1, TRUE, TRUE)     \* doTokenRequest: the user's API key
IFlowCookieRefresh == Habit(1, FALSE, FALSE)
AntigravityRefresh == Habit(1, FALSE, FALSE)   \* goes on without a project

Habits == {CodexRefresh, ClaudeRefresh, QwenRefresh, IFlowRefresh, IFlowCookieRefresh,
           AntigravityRefresh}

Kinds == {"refresh", "result", "status", "login", "delete"}

Content(token, off) == [token |-> token, off |-> off]
Missing == Content(-1, FALSE)
Torn    == Content(0, FALSE)     \* truncated and not yet filled: an empty file
Contents == [token : -1..TokenLimit, off : BOOLEAN]

Exists(c) == c.token # -1
Full(c)   == c.token >= 1

Rest == [pc |-> "idle", copy |-> Missing, left |-> 0]
Following == [notice |-> FALSE, seen |-> Missing, apply |-> Missing, applying |-> FALSE,
              sync |-> FALSE]

Updating ==
  [ pc   : {"idle", "ask", "info", "adopt", "save", "lock", "fill", "upload", "delete", "disable"},
    copy : Contents,       \* what it saves, or refreshes
    left : 0..3 ]          \* attempts of a refresh

Watch ==
  [ notice   : BOOLEAN,                      \* an event of the file waits
    seen     : Contents,
    apply    : Contents, applying : BOOLEAN, \* the update on its way to the manager
    sync     : BOOLEAN ]                     \* persistAuthAsync is to run

TokenTypeOK ==
  /\ store \in Stores /\ habit \in Habits
  /\ issued \in 1..TokenLimit /\ spent \subseteq 1..issued
  /\ {managed, authFile, head, remote, kept} \subseteq Contents
  /\ updater \in [Kinds -> Updating] /\ watch \in Watch
  /\ crossed \in {"no", "update", "crash"} /\ dropped \in BOOLEAN /\ failed \in 0..2
  /\ updates \in 0..UpdateLimit /\ failures \in 0..FailureLimit /\ crashes \in 0..CrashLimit

TokenInit ==
  /\ store \in Stores /\ habit \in Habits
  /\ issued = 1 /\ spent = {}
  /\ LET c == Content(1, FALSE) IN
       /\ managed = c /\ authFile = c /\ kept = c
       /\ remote = (IF store = "file" THEN Missing ELSE c)
       /\ head = (IF store = "git" THEN c ELSE Missing)
       /\ watch = [Following EXCEPT !.seen = c]
  /\ updater = [k \in Kinds |-> Rest]
  /\ crossed = "no" /\ dropped = FALSE /\ failed = 0
  /\ updates = 0 /\ failures = 0 /\ crashes = 0

StoreLocked   == \E k \in Kinds : updater[k].pc \in {"fill", "upload"}    \* s.mu
ManagerLocked == updater["result"].pc # "idle"    \* MarkResult saves while it holds m.mu

NotUpdating(k) == updater[k].pc = "idle"
Watching == watch.notice \/ watch.applying \/ watch.sync
Quiet == ~Watching /\ \A k \in Kinds : NotUpdating(k)

Goes(k, pc) == updater' = [updater EXCEPT ![k].pc = pc]
Rests(k) == updater' = [updater EXCEPT ![k] = Rest]

\* The file changes: the watcher hears of it.
FileBecomes(c) ==
  /\ authFile' = c
  /\ watch' = [watch EXCEPT !.notice = TRUE]
  /\ failed' = 0
FileStays == UNCHANGED <<authFile, watch>>

\* A remote call, which may fail.
MayFail(fails) ==
  /\ fails => failures < FailureLimit
  /\ failures' = failures + (IF fails THEN 1 ELSE 0)
MirrorTried(fails) ==
  /\ MayFail(fails)
  /\ failed' = (IF fails /\ failed < 2 THEN failed + 1 ELSE failed)

\* An update ends, and left this content if no other was under way.
Leaves(c) == kept' = c

Begins(k) ==
  /\ NotUpdating(k) /\ updates < UpdateLimit
  /\ updates' = updates + 1
  /\ crossed' = (IF Quiet \/ crossed # "no" THEN crossed ELSE "update")
----------------------------------------------------------------------------
(* Updates: the background refresh, a request's result, a status set by    *)
(* the console, a login.                                                   *)

\* markRefreshPending and the clone of refreshAuth.
RefreshBegins ==
  /\ Begins("refresh") /\ ~ManagerLocked
  /\ Full(managed) /\ ~managed.off
  /\ updater' = [updater EXCEPT !["refresh"] =
                   [pc |-> "ask", copy |-> managed, left |-> habit.attempts]]
  /\ UNCHANGED <<store, habit, issued, spent, managed, authFile, head, remote, watch, kept, failed,
                 dropped, failures, crashes>>

\* RefreshTokens: the request fails before it arrives, its answer is lost, it is refused, or
\* it brings a new token.  To ask again for what was refused changes nothing.
AsksForToken ==
  LET u == updater["refresh"] IN
  /\ u.pc = "ask"
  /\ \/ /\ u.copy.token \notin spent /\ issued < TokenLimit
        /\ issued' = issued + 1
        /\ spent' = (IF habit.rotates THEN spent \cup {u.copy.token} ELSE spent)
        /\ \/ /\ updater' = [updater EXCEPT !["refresh"] =
                               [pc |-> IF habit.info THEN "info" ELSE "adopt", left |-> 0,
                                copy |-> [u.copy EXCEPT !.token = issued']]]
              /\ UNCHANGED <<dropped, failures>>
           \/ /\ MayFail(TRUE)
              /\ dropped' = TRUE
              /\ updater' = [updater EXCEPT !["refresh"] =
                               IF u.left = 1 THEN Rest ELSE [u EXCEPT !.left = @ - 1]]
     \/ /\ MayFail(TRUE)
        /\ updater' = [updater EXCEPT !["refresh"] =
                         IF u.left = 1 THEN Rest ELSE [u EXCEPT !.left = @ - 1]]
        /\ UNCHANGED <<issued, spent, dropped>>
     \/ /\ u.copy.token \in spent \/ issued = TokenLimit
        /\ Rests("refresh")
        /\ UNCHANGED <<issued, spent, dropped, failures>>
  /\ UNCHANGED <<store, habit, managed, authFile, head, remote, watch, kept, crossed, failed,
                 updates, crashes>>

\* doTokenRequest of iflow: without the user's API key the new tokens are thrown away.
AsksForUserInfo ==
  /\ updater["refresh"].pc = "info"
  /\ \E fails \in BOOLEAN :
       /\ MayFail(fails)
       /\ IF fails THEN dropped' = TRUE /\ Rests("refresh")
                   ELSE Goes("refresh", "adopt") /\ UNCHANGED dropped
  /\ UNCHANGED <<store, habit, issued, spent, managed, authFile, head, remote, watch, kept, crossed,
                 failed, updates, crashes>>

\* Update: the clone replaces the credential; it is persisted without m.mu.
RefreshAdopted ==
  /\ updater["refresh"].pc = "adopt" /\ ~ManagerLocked
  /\ managed' = updater["refresh"].copy
  /\ Goes("refresh", "save")
  /\ UNCHANGED <<store, habit, issued, spent, authFile, head, remote, watch, kept, crossed, failed,
                 dropped, updates, failures, crashes>>

\* MarkResult persists what is in memory.
ResultMarked ==
  /\ Begins("result") /\ ~ManagerLocked
  /\ Full(managed)
  /\ updater' = [updater EXCEPT !["result"] = [pc |-> "save", copy |-> managed, left |-> 0]]
  /\ UNCHANGED <<store, habit, issued, spent, managed, authFile, head, remote, watch, kept, failed,
                 dropped, failures, crashes>>

\* PatchAuthFileStatus: GetByID and Update.
StatusSet ==
  /\ Begins("status") /\ ~ManagerLocked
  /\ Full(managed)
  /\ \E off \in BOOLEAN : managed' = [managed EXCEPT !.off = off]
  /\ updater' = [updater EXCEPT !["status"] = [pc |-> "save", copy |-> managed', left |-> 0]]
  /\ UNCHANGED <<store, habit, issued, spent, authFile, head, remote, watch, kept, failed, dropped,
                 failures, crashes>>

\* A login has a token of its own: the store alone takes it, the watcher brings it to memory.
LoginSaves ==
  /\ Begins("login") /\ issued < TokenLimit
  /\ issued' = issued + 1
  /\ updater' = [updater EXCEPT !["login"] =
                   [pc |-> "save", copy |-> Content(issued', FALSE), left |-> 0]]
  /\ UNCHANGED <<store, habit, spent, managed, authFile, head, remote, watch, kept, failed, dropped,
                 failures, crashes>>
----------------------------------------------------------------------------
(* Save.                                                                   *)

\* EnsureRepository: the git store first clones or pulls, which may fail.  Local changes win,
\* so a pull brings nothing that was not pushed from here.
RepositoryReady(ready) ==
  /\ ~ready => store = "git"
  /\ IF ready THEN UNCHANGED <<failed, failures>> ELSE MirrorTried(TRUE)

\* A disabled credential whose file is gone is not written again.
SaveLooks(k) ==
  LET gone == updater[k].copy.off /\ ~Exists(authFile) IN
  /\ updater[k].pc = "save"
  /\ \E ready \in BOOLEAN :
       /\ gone => ready
       /\ RepositoryReady(ready)
       /\ IF gone \/ ~ready THEN Rests(k) ELSE Goes(k, "lock")
       /\ crossed' = (IF ~ready /\ crossed = "no" THEN "update" ELSE crossed)
  /\ UNCHANGED <<store, habit, issued, spent, managed, authFile, head, remote, watch, kept,
                 dropped, updates, crashes>>

\* What Save writes: a login's token storage, or the metadata.  Only the file store puts the
\* disabled flag into the metadata; elsewhere it keeps what the file had.
Written(k) ==
  IF store = "file" /\ k # "login" THEN updater[k].copy ELSE [updater[k].copy EXCEPT !.off = FALSE]

\* jsonEqual: what is there already is not written, and not uploaded, again.
NothingNew(k) == k # "login" /\ authFile = Written(k)

SaveUnneeded(k) ==
  /\ updater[k].pc = "lock" /\ ~StoreLocked
  /\ NothingNew(k)
  /\ Leaves(authFile) /\ Rests(k)
  /\ UNCHANGED <<store, habit, issued, spent, managed, authFile, head, remote, watch, crossed,
                 failed, dropped, updates, failures, crashes>>

\* FileTokenStore.Save writes in place: it truncates, then writes.
FileTruncated(k) ==
  /\ updater[k].pc = "lock" /\ ~StoreLocked
  /\ store = "file" /\ ~NothingNew(k)
  /\ FileBecomes(Torn) /\ Goes(k, "fill")
  /\ UNCHANGED <<store, habit, issued, spent, managed, head, remote, kept, crossed, dropped,
                 updates, failures, crashes>>

\* SaveTokenToFile, for every store: os.Create, then the encoder.
StorageTruncated(k) ==
  /\ updater[k].pc = "lock" /\ ~StoreLocked
  /\ store # "file" /\ k = "login"
  /\ FileBecomes(Torn) /\ Goes(k, "fill")
  /\ UNCHANGED <<store, habit, issued, spent, managed, head, remote, kept, crossed, dropped,
                 updates, failures, crashes>>

\* What was unlinked in between stays gone: the bytes go to the old inode.
Filled(k) ==
  /\ updater[k].pc = "fill"
  /\ IF Exists(authFile) THEN FileBecomes(Written(k)) ELSE FileStays /\ UNCHANGED failed
  /\ IF store = "file" THEN Leaves(Written(k)) /\ Rests(k) ELSE UNCHANGED kept /\ Goes(k, "upload")
  /\ UNCHANGED <<store, habit, issued, spent, managed, head, remote, crossed, dropped, updates,
                 failures, crashes>>

\* The mirrored stores write a temporary file and rename it.
Renamed(k) ==
  /\ updater[k].pc = "lock" /\ ~StoreLocked
  /\ k # "login" /\ ~NothingNew(k)
  /\ FileBecomes(Written(k)) /\ Goes(k, "upload")
  /\ UNCHANGED <<store, habit, issued, spent, managed, head, remote, kept, crossed, dropped,
                 updates, failures, crashes>>

ObjectStoreWrites(k)   == store = "object" /\ Renamed(k)
PostgresStoreWrites(k) == store = "postgres" /\ Renamed(k)
GitStoreWrites(k)      == store = "git" /\ Renamed(k)

----------------------------------------------------------------------------
(* The mirrors.  Each reads the file again.                                *)

Mirrored == IF Full(authFile) THEN authFile ELSE Missing

\* uploadAuth and deleteAuthObject: a missing or empty file removes the object.
ObjectUpload(fails) ==
  /\ store = "object" /\ MirrorTried(fails)
  /\ remote' = (IF fails THEN remote ELSE Mirrored)
  /\ UNCHANGED head

\* upsertAuthRecord: a missing file is an error.
RecordUpsert(fails) ==
  /\ store = "postgres"
  /\ ~Exists(authFile) => fails
  /\ IF Exists(authFile) THEN MirrorTried(fails) ELSE UNCHANGED <<failed, failures>>
  /\ remote' = (IF fails THEN remote ELSE Mirrored)
  /\ UNCHANGED head

\* A mirror that is told only of files that exist keeps what was deleted.
RecordSyncOfFiles(fails) ==
  /\ store = "postgres" /\ (Exists(authFile) => MirrorTried(fails))
  /\ (~Exists(authFile) => UNCHANGED <<failed, failures>>)
  /\ remote' = (IF fails \/ ~Exists(authFile) THEN remote ELSE Mirrored)
  /\ UNCHANGED head

\* syncAuthFile: a missing file removes the record.
RecordSync(fails) ==
  /\ store = "postgres" /\ MirrorTried(fails)
  /\ remote' = (IF fails THEN remote ELSE Mirrored)
  /\ UNCHANGED head

\* commitAndPushLocked: what is committed already is not pushed again.
CommitAndPush(fails) ==
  /\ store = "git"
  /\ head' = authFile
  /\ IF authFile = head THEN ~fails /\ UNCHANGED <<remote, failed, failures>>
                    ELSE /\ MirrorTried(fails)
                         /\ remote' = (IF fails THEN remote ELSE authFile)

\* The rest of a mirrored Save.
Uploaded(k) ==
  /\ updater[k].pc = "upload"
  /\ \E fails \in BOOLEAN :
       /\ ObjectUpload(fails) \/ RecordUpsert(fails) \/ CommitAndPush(fails)
       /\ Leaves(Written(k))
  /\ Rests(k)
  /\ UNCHANGED <<store, habit, issued, spent, managed, authFile, watch, crossed, dropped, updates,
                 crashes>>
----------------------------------------------------------------------------
(* DeleteAuthFile: the file, the store's record, then the manager's        *)
(* credential.                                                             *)

FileRemoved ==
  /\ Begins("delete") /\ Exists(authFile)
  /\ FileBecomes(Missing) /\ Leaves(Missing)
  /\ Goes("delete", "delete")
  /\ UNCHANGED <<store, habit, issued, spent, managed, head, remote, dropped, failures, crashes>>

\* Delete of each store removes the file once more if it is back.
FileDelete(fails) == store = "file" /\ ~fails /\ UNCHANGED <<head, remote, failed, failures>>

\* deleteAuthObject.
ObjectDelete(fails) ==
  /\ store = "object" /\ ~StoreLocked /\ MirrorTried(fails)
  /\ remote' = (IF fails THEN remote ELSE Missing)
  /\ UNCHANGED head

\* deleteAuthRecord.
PostgresDelete(fails) ==
  /\ store = "postgres" /\ ~StoreLocked /\ MirrorTried(fails)
  /\ remote' = (IF fails THEN remote ELSE Missing)
  /\ UNCHANGED head

\* Only what this call itself removed is committed; else that is left to the watcher.
GitDelete(fails) ==
  /\ store = "git" /\ ~StoreLocked
  /\ IF Exists(authFile)
     THEN /\ MirrorTried(fails)
          /\ head' = Missing
          /\ remote' = (IF fails THEN remote ELSE Missing)
     ELSE ~fails /\ UNCHANGED <<head, remote, failed, failures>>

RecordDeleted ==
  /\ updater["delete"].pc = "delete"
  /\ \/ /\ RepositoryReady(FALSE) /\ Rests("delete")
        /\ UNCHANGED <<authFile, watch, head, remote>>
     \/ /\ IF Exists(authFile)
           THEN authFile' = Missing /\ watch' = [watch EXCEPT !.notice = TRUE]
           ELSE FileStays
        /\ \E fails \in BOOLEAN :
             /\ \/ FileDelete(fails) \/ ObjectDelete(fails)
                \/ PostgresDelete(fails) \/ GitDelete(fails)
             /\ IF fails THEN Rests("delete") ELSE Goes("delete", "disable")
  /\ UNCHANGED <<store, habit, issued, spent, managed, kept, crossed, dropped, updates, crashes>>

\* disableAuth: Update, which saves.
CredentialDisabled ==
  /\ updater["delete"].pc = "disable" /\ ~ManagerLocked
  /\ managed' = [managed EXCEPT !.off = TRUE]
  /\ updater' = [updater EXCEPT !["delete"] = [pc |-> "save", copy |-> managed', left |-> 0]]
  /\ UNCHANGED <<store, habit, issued, spent, authFile, head, remote, watch, kept, crossed, failed,
                 dropped, updates, failures, crashes>>
----------------------------------------------------------------------------
(* The watcher.                                                            *)

\* addOrUpdateClient and removeClient: an empty file, and one it has seen, are passed over.
FileFollowed ==
  /\ watch.notice
  /\ IF authFile = Torn \/ authFile = watch.seen
     THEN watch' = [watch EXCEPT !.notice = FALSE]
     ELSE watch' = [notice |-> FALSE, seen |-> authFile, apply |-> authFile, applying |-> TRUE,
                    sync |-> store # "file"]
  /\ UNCHANGED <<store, habit, issued, spent, managed, authFile, head, remote, updater, kept,
                 crossed, failed, dropped, updates, failures, crashes>>

\* The update it sent reaches the manager, which does not persist it.
FileApplied ==
  /\ watch.applying /\ ~ManagerLocked
  /\ managed' = (IF Exists(watch.apply) THEN watch.apply ELSE [managed EXCEPT !.off = TRUE])
  /\ watch' = [watch EXCEPT !.applying = FALSE, !.apply = Missing]
  /\ UNCHANGED <<store, habit, issued, spent, authFile, head, remote, updater, kept, crossed,
                 failed, dropped, updates, failures, crashes>>

\* persistAuthAsync: PersistAuthFiles, once.
FileSynced ==
  /\ watch.sync /\ ~StoreLocked
  /\ watch' = [watch EXCEPT !.sync = FALSE]
  /\ \E fails \in BOOLEAN : ObjectUpload(fails) \/ RecordSync(fails) \/ CommitAndPush(fails)
  /\ UNCHANGED <<store, habit, issued, spent, managed, authFile, updater, kept, crossed, dropped,
                 updates, crashes>>
----------------------------------------------------------------------------
(* A crash, and the start after it.                                        *)

\* syncAuthFromBucket overwrites what the bucket has and leaves the rest.
FromBucket(local) == IF Exists(remote) THEN remote ELSE local
\* syncAuthFromDatabase empties the directory first.
FromDatabase(local) == remote
\* EnsureRepository keeps the working tree: only a lost one is cloned.
FromRepository(local, lost) == IF lost THEN remote ELSE local

\* readAuthFile: an empty file is no credential.
Listed(c) == IF Full(c) THEN c ELSE Content(0, TRUE)

\* Load lists the directory; the watcher starts from it.
Restarts(lost) ==
  LET local  == IF lost THEN Missing ELSE authFile
      loaded == CASE store = "file"     -> local
                  [] store = "object"   -> FromBucket(local)
                  [] store = "postgres" -> FromDatabase(local)
                  [] store = "git"      -> FromRepository(local, lost) IN
  /\ crashes < CrashLimit
  /\ lost => store # "file"
  /\ authFile' = loaded
  /\ head' = (IF store = "git" THEN IF lost THEN remote ELSE head ELSE Missing)
  /\ managed' = Listed(loaded)
  /\ watch' = [Following EXCEPT !.seen = IF Full(loaded) THEN loaded ELSE Missing]
  /\ updater' = [k \in Kinds |-> Rest]
  /\ crashes' = crashes + 1
  \* What was under way, or had failed, excuses what comes after.
  /\ crossed' = (IF Quiet /\ failed = 0 THEN crossed ELSE "crash")
  /\ failed' = (IF Quiet /\ failed = 0 THEN 0 ELSE 2)
  /\ UNCHANGED <<store, habit, issued, spent, remote, kept, dropped, updates, failures>>

TokenNext ==
  \/ RefreshBegins \/ AsksForToken \/ AsksForUserInfo \/ RefreshAdopted
  \/ ResultMarked \/ StatusSet \/ LoginSaves
  \/ \E k \in Kinds : \/ SaveLooks(k) \/ SaveUnneeded(k)
                      \/ FileTruncated(k) \/ StorageTruncated(k) \/ Filled(k)
                      \/ ObjectStoreWrites(k) \/ PostgresStoreWrites(k) \/ GitStoreWrites(k)
                      \/ Uploaded(k)
  \/ FileRemoved \/ RecordDeleted \/ CredentialDisabled
  \/ FileFollowed \/ FileApplied \/ FileSynced
  \/ \E lost \in BOOLEAN : Restarts(lost)

TokenSpec == TokenInit /\ [][TokenNext]_tokenVars
----------------------------------------------------------------------------
\* Once everything has settled, updates that did not cross each other left on disk what the
\* last of them saved: no token goes back to an earlier one and a deleted credential stays
\* deleted, through crashes and the loss of the mirrored directory.
LastUpdateKept == Quiet /\ crossed = "no" => authFile.token = kept.token

\* The kept token is one the provider still takes, unless its answer was lost.
KeptTokenGood == Quiet /\ crossed = "no" /\ ~dropped => authFile.token \notin spent

\* The mirror has what the disk has, whatever updates crossed; for the git store, which leaves
\* deletions to the watcher, when none did; and where the watcher's sync tries again, also
\* after a call that failed.
MirrorAgrees ==
  Quiet /\ store # "file" /\ crossed # "crash"
        /\ (failed = 0 \/ (failed = 1 /\ store # "git"))
        /\ (crossed = "no" \/ (failed = 0 /\ store # "git"))
    => remote = Mirrored

\* What Save, Delete, refresh and the watcher's sync together promise of the credential.
TokensKept == LastUpdateKept /\ KeptTokenGood /\ MirrorAgrees
=============================================================================
