------------------------------ MODULE FileWatch ------------------------------
(***************************************************************************)
(* How the watcher finds out that a file changed (internal/watcher:        *)
(* events.go, clients.go, config_reload.go).  Three kinds of goroutines    *)
(* read the disk and the caches:                                           *)
(*                                                                         *)
(*   Main     the one of Start, which scans everything once;               *)
(*   Events   handles one file event after the other;                      *)
(*   the reloaders, started by the timer that config events set.           *)
(*                                                                         *)
(* All of them end in refreshAuthState, which reads the loaded             *)
(* configuration, then the files, and then replaces currentAuths.  What    *)
(* AuthDispatch does in more detail (the diff and the way to the consumer) *)
(* is here one step.  An auth is as good as the content of its file; the   *)
(* configuration is one more source of auths, under its own file.          *)
(*                                                                         *)
(* Of the auth directory fsnotify tells what becomes of each name, of the  *)
(* configuration what becomes of the very file that was there at the start *)
(* (inotify): it is lost from sight when another takes its place.  The     *)
(* configuration lies outside the auth directory, and has it as auth-dir   *)
(* whenever it holds anything.                                             *)
(***************************************************************************)
EXTENDS Naturals, Sequences

CONSTANTS AuthFiles, Config,     \* files of the auth directory; config.yaml
          Versions,              \* contents of a file
          Absent, Empty, Broken, \* no file; nothing in it; unparsable
          Unset,                 \* no hash
          Main, Events, Reloaders,
          ChangeLimit            \* bound: changes made on disk

Readings == Versions \cup {Broken}   \* contents that are not empty
Files == AuthFiles \cup {Config}
Goroutines == {Main, Events} \cup Reloaders

ASSUME WatchAssumption ==
  /\ Config \notin AuthFiles /\ Main # Events /\ Reloaders \cap {Main, Events} = {}
  /\ {Absent, Empty, Broken, Unset} \cap Versions = {}
  /\ Absent # Empty /\ Absent # Broken /\ Empty # Broken /\ Unset # Broken
  /\ ChangeLimit \in Nat

VARIABLES disk,        \* file -> what it holds
          watched,     \* the file that fsnotify watches is still config.yaml
          events,      \* fsnotify events not handled yet
          hashes,      \* lastAuthHashes
          config,      \* Watcher.config, as the version it was loaded from
          configHash,  \* lastConfigHash
          known,       \* currentAuths: file -> version its auth was made of
          removedAt,   \* lastRemoveTimes: files removed less than a second ago
          timer,       \* configReloadTimer is set
          work,        \* what each goroutine is doing
          changes, pace, touched    \* history, see Change

watchVars == <<disk, watched, events, hashes, config, configHash, known, removedAt, timer, work,
               changes, pace, touched>>
----------------------------------------------------------------------------
Readable(f) == IF disk[f] \in Versions THEN disk[f] ELSE Absent
Found == {k \in [Files -> Versions \cup {Absent, Empty}] : \A f \in AuthFiles : k[f] # Empty}
NothingRead == [f \in Files |-> Absent]

Work ==
  [ pc    : {"idle", "rescan", "settle", "add", "store", "remove", "check", "load",
             "config", "files", "replace", "rehash"},
    file  : Files,
    read  : Readings \cup {Unset},   \* hash of the content just read
    found : Found ]                  \* the snapshot

Idle == [pc |-> "idle", file |-> Config, read |-> Unset, found |-> NothingRead]

WatchTypeOK ==
  /\ disk \in [Files -> Readings \cup {Absent, Empty}] /\ watched \in BOOLEAN
  /\ events \in Seq([file : Files, op : {"write", "remove", "rename"}])
  /\ hashes \in [AuthFiles -> Readings \cup {Unset}]
  /\ config \in Versions \cup {Empty}
  /\ configHash \in Readings \cup {Unset}
  /\ known \in Found
  /\ removedAt \subseteq AuthFiles
  /\ timer \in BOOLEAN
  /\ work \in [Goroutines -> Work]
  /\ changes \in 0..ChangeLimit /\ pace \in {"slow", "quick", "hasty"} /\ touched \in Files

\* The service has loaded the configuration; Start begins to scan.
WatchInit ==
  /\ disk \in [Files -> Versions \cup {Absent}] /\ disk[Config] # Absent
  /\ watched = TRUE /\ events = <<>>
  /\ hashes = [f \in AuthFiles |-> Unset]
  /\ config = disk[Config] /\ configHash = Unset
  /\ known = NothingRead
  /\ removedAt = {} /\ timer = FALSE
  /\ work = [g \in Goroutines |-> IF g = Main THEN [Idle EXCEPT !.pc = "rescan"] ELSE Idle]
  /\ changes = 0 /\ pace = "slow" /\ touched = Config

\* Nothing is under way and nothing is due.
AtRest == events = <<>> /\ ~timer /\ \A g \in Goroutines : work[g].pc = "idle"

Becomes(g, w) == work' = [work EXCEPT ![g] = w]
WorkGoes(g, from, to) == work[g].pc = from /\ Becomes(g, [work[g] EXCEPT !.pc = to])
----------------------------------------------------------------------------
(* The disk: other programs, the management API and token refreshes.       *)
(*                                                                         *)
(* pace tells how the changes came.  They are slow if each waits until the *)
(* watcher has dealt with the one before, until the debounce window of its *)
(* file is over, and until no other file is left truncated; quick if they  *)
(* only wait for the watcher; hasty otherwise.  Writing, from an empty or  *)
(* half written file on, what the last change removed or truncated does    *)
(* not count as another change.                                            *)

CutShort(f) == disk[f] \in {Empty, Broken}

Completes(f, content, op) ==
  /\ f = touched /\ op = "write"
  /\ disk[f] \in {Absent, Empty} \/ (disk[f] = Broken /\ content # Empty)

PaceOf(f, content, op) ==
  IF Completes(f, content, op) THEN pace
  ELSE IF ~AtRest \/ pace = "hasty" THEN "hasty"
  ELSE IF f \in removedAt \/ (\E g \in Files \ {f} : CutShort(g)) THEN "quick"
  ELSE pace

\* A configuration that is not watched any more changes without an event.
Change(f, content, op) ==
  /\ changes < ChangeLimit /\ changes' = changes + 1
  /\ disk' = [disk EXCEPT ![f] = content]
  /\ watched' = (watched /\ (f = Config => op = "write"))
  /\ events' = IF f = Config /\ ~watched THEN events ELSE Append(events, [file |-> f, op |-> op])
  /\ touched' = f /\ pace' = PaceOf(f, content, op)
  /\ UNCHANGED <<hashes, config, configHash, known, removedAt, timer, work>>

\* Written in place (truncated first, or not); an auth file also by moving
\* another to its place.
WriteFile(f) == \E content \in Readings \cup {Empty} : Change(f, content, "write")

RemoveFile(f) == disk[f] # Absent /\ Change(f, Absent, "remove")

\* Replaced in a way that surfaces as the old file's removal, as when another
\* file is moved to the place of the configuration.
ReplaceFile(f) == disk[f] # Absent /\ \E content \in Versions : Change(f, content, "remove")

\* The configuration is moved away (an auth file that is counts as removed).
MoveConfig == disk[Config] # Absent /\ Change(Config, Absent, "rename")
----------------------------------------------------------------------------
(* handleEvent.                                                            *)

TakeEvent ==
  /\ work[Events].pc = "idle" /\ events # <<>>
  /\ events' = Tail(events)

\* scheduleConfigReload: a timer that is set is set anew.  A removal is not
\* among the configOps.
ConfigEvent ==
  /\ TakeEvent /\ Head(events).file = Config
  /\ timer' = (timer \/ Head(events).op # "remove")
  /\ UNCHANGED <<disk, watched, hashes, config, configHash, known, removedAt, work, changes, pace, touched>>

\* authFileUnchanged
Unchanged(f) == disk[f] \in Readings /\ hashes[f] = disk[f]

WriteEvent ==
  /\ TakeEvent
  /\ LET e == Head(events)
     IN /\ e.file # Config /\ e.op = "write"
        /\ Becomes(Events, IF Unchanged(e.file) THEN Idle
                           ELSE [Idle EXCEPT !.pc = "add", !.file = e.file])
  /\ UNCHANGED <<disk, watched, hashes, config, configHash, known, removedAt, timer, changes, pace, touched>>

\* shouldDebounceRemove: the second removal within the window is skipped.
RemoveEvent ==
  /\ TakeEvent
  /\ LET e == Head(events)
     IN /\ e.file # Config /\ e.op = "remove"
        /\ Becomes(Events, IF e.file \in removedAt THEN Idle
                           ELSE [Idle EXCEPT !.pc = "settle", !.file = e.file])
        /\ removedAt' = removedAt \cup {e.file}
  /\ UNCHANGED <<disk, watched, hashes, config, configHash, known, timer, changes, pace, touched>>

\* After replaceCheckDelay: the file is there again, or was never known, or
\* is gone.
Settle ==
  /\ work[Events].pc = "settle"
  /\ LET f == work[Events].file
     IN Becomes(Events,
          IF disk[f] # Absent
            THEN IF Unchanged(f) THEN Idle ELSE [work[Events] EXCEPT !.pc = "add"]
            ELSE IF hashes[f] = Unset THEN Idle ELSE [work[Events] EXCEPT !.pc = "remove"])
  /\ UNCHANGED <<disk, watched, events, hashes, config, configHash, known, removedAt, timer, changes,
                 pace, touched>>

\* addOrUpdateClient: read and parse ...
AddRead ==
  /\ work[Events].pc = "add"
  /\ LET f == work[Events].file
     IN Becomes(Events, IF disk[f] \in Versions
                          THEN [work[Events] EXCEPT !.pc = "store", !.read = disk[f]] ELSE Idle)
  /\ UNCHANGED <<disk, watched, events, hashes, config, configHash, known, removedAt, timer, changes,
                 pace, touched>>

\* ... compare with the hash, and store the new one.
AddStore ==
  /\ work[Events].pc = "store"
  /\ LET f == work[Events].file
         h == work[Events].read
     IN /\ hashes' = [hashes EXCEPT ![f] = h]
        /\ Becomes(Events, IF hashes[f] = h THEN Idle ELSE [Idle EXCEPT !.pc = "config"])
  /\ UNCHANGED <<disk, watched, events, config, configHash, known, removedAt, timer, changes, pace, touched>>

\* Faulty variant: the hash of a removed file is kept.
RemoveKeepingHash == WorkGoes(Events, "remove", "config")
  /\ UNCHANGED <<disk, watched, events, hashes, config, configHash, known, removedAt, timer, changes,
                 pace, touched>>

\* removeClient
RemoveClient ==
  /\ WorkGoes(Events, "remove", "config")
  /\ hashes' = [hashes EXCEPT ![work[Events].file] = Unset]
  /\ UNCHANGED <<disk, watched, events, config, configHash, known, removedAt, timer, changes, pace, touched>>

EventStep ==
  \/ ConfigEvent \/ WriteEvent \/ RemoveEvent \/ Settle
  \/ AddRead \/ AddStore \/ RemoveClient
----------------------------------------------------------------------------
(* Start and the reload of the configuration.                              *)

\* reloadClients with a rescan: hashes of all files, under the lock.  An empty
\* configuration has no auth-dir to scan.
Rescan(g) ==
  /\ WorkGoes(g, "rescan", "config")
  /\ hashes' = [f \in AuthFiles |->
                  IF config # Empty /\ disk[f] \in Readings THEN disk[f] ELSE Unset]
  /\ UNCHANGED <<disk, watched, events, config, configHash, known, removedAt, timer, changes, pace, touched>>

\* The timer expires and starts a goroutine.
TimerFires(r) ==
  /\ timer /\ timer' = FALSE
  /\ WorkGoes(r, "idle", "check")
  /\ UNCHANGED <<disk, watched, events, hashes, config, configHash, known, removedAt, changes, pace, touched>>

\* reloadConfigIfChanged: compare the file, unless it is empty, with the hash of
\* the last reload.
CheckConfig(r) ==
  /\ work[r].pc = "check"
  /\ Becomes(r, IF disk[Config] \in Readings /\ disk[Config] # configHash
                  THEN [work[r] EXCEPT !.pc = "load", !.read = disk[Config]] ELSE Idle)
  /\ UNCHANGED <<disk, watched, events, hashes, config, configHash, known, removedAt, timer, changes,
                 pace, touched>>

\* reloadConfig reads the file a second time; one that is empty by now is a
\* configuration with nothing set, whose auth-dir differs from any other's.
LoadConfig(r) ==
  /\ work[r].pc = "load"
  /\ \/ /\ disk[Config] \in Versions \cup {Empty}
        /\ config' = disk[Config]
        /\ Becomes(r, [work[r] EXCEPT !.pc = IF Empty \in {config, config'} /\ config # config'
                                               THEN "rescan" ELSE "config"])
     \/ /\ disk[Config] \notin Versions \cup {Empty}
        /\ Becomes(r, Idle)
        /\ UNCHANGED config
  /\ UNCHANGED <<disk, watched, events, hashes, configHash, known, removedAt, timer, changes, pace, touched>>

\* After the clients are reloaded the file is read a third time, and its hash
\* stored as that of the last reload.
RehashConfig(r) ==
  /\ work[r].pc = "rehash"
  /\ Becomes(r, Idle)
  /\ configHash' = IF disk[Config] \in Readings THEN disk[Config] ELSE work[r].read
  /\ UNCHANGED <<disk, watched, events, hashes, config, known, removedAt, timer, changes, pace, touched>>

ReloadStep(r) ==
  TimerFires(r) \/ CheckConfig(r) \/ LoadConfig(r) \/ Rescan(r) \/ RehashConfig(r)
----------------------------------------------------------------------------
(* refreshAuthState, by any of them.                                       *)

\* SnapshotCoreAuths takes the configuration ...
SnapshotConfig(g) ==
  /\ work[g].pc = "config"
  /\ Becomes(g, [work[g] EXCEPT !.pc = "files", !.found = [NothingRead EXCEPT ![Config] = config]])
  /\ UNCHANGED <<disk, watched, events, hashes, config, configHash, known, removedAt, timer, changes,
                 pace, touched>>

\* ... and reads the files; one that cannot be parsed has no auth.
SnapshotFiles(g) ==
  /\ work[g].pc = "files"
  /\ Becomes(g, [work[g] EXCEPT !.pc = "replace",
                   !.found = [f \in Files |-> IF f = Config THEN @[f] ELSE Readable(f)]])
  /\ UNCHANGED <<disk, watched, events, hashes, config, configHash, known, removedAt, timer, changes,
                 pace, touched>>

ReplaceKnown(g) ==
  /\ work[g].pc = "replace"
  /\ known' = work[g].found
  /\ Becomes(g, IF g \in Reloaders THEN [work[g] EXCEPT !.pc = "rehash", !.found = NothingRead]
                ELSE Idle)
  /\ UNCHANGED <<disk, watched, events, hashes, config, configHash, removedAt, timer, changes, pace, touched>>

RefreshAuthState(g) == SnapshotConfig(g) \/ SnapshotFiles(g) \/ ReplaceKnown(g)

\* A second has passed since the removal of f.
WindowPasses(f) ==
  /\ f \in removedAt /\ removedAt' = removedAt \ {f}
  /\ UNCHANGED <<disk, watched, events, hashes, config, configHash, known, timer, work, changes, pace, touched>>
----------------------------------------------------------------------------
WatchNext ==
  \/ \E f \in Files : WriteFile(f) \/ RemoveFile(f) \/ ReplaceFile(f)
  \/ MoveConfig
  \/ \E f \in AuthFiles : WindowPasses(f)
  \/ EventStep \/ Rescan(Main)
  \/ \E r \in Reloaders : ReloadStep(r)
  \/ \E g \in Goroutines : RefreshAuthState(g)

WatchSpec == WatchInit /\ [][WatchNext]_watchVars
----------------------------------------------------------------------------
(* Properties.                                                             *)

\* The watcher knows what is on disk, apart from files it cannot read, and from
\* a configuration that has been removed, replaced or moved away since the start.
PickedUp ==
  \A f \in Files : (f = Config => watched) /\ ~CutShort(f) => known[f] = disk[f]

\* A file written, truncated and rewritten, or, in the auth directory, removed or
\* replaced by a removal and a new file is picked up, if it was not removed within
\* the second before and no other file is left truncated meanwhile (events.go
\* handleEvent, clients.go).  Hashes, checks for reappearance and the debounced
\* reload lose none of these, nor does a configuration out of sight disturb them.
SlowChangesPickedUp == AtRest /\ pace = "slow" => PickedUp
=============================================================================
