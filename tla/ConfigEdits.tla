---------------------------- MODULE ConfigEdits ----------------------------
(***************************************************************************)
(* Edits of the configuration through the management API while the watcher *)
(* reloads it.  A handler changes a section of the configuration in use,   *)
(* under no lock: it reads the section and later assigns what it made of   *)
(* it.  Then it saves the configuration in use by then; the watcher reads  *)
(* the file into an object of its own and puts it in use when its reload   *)
(* is done.  Saving truncates the file before it writes it.                *)
(*                                                                         *)
(* A configuration is what it holds: the members that were there (Base)    *)
(* and one for each edit made.  How one is written to the file, and read   *)
(* back, is in ConfigFile; what starts a reload is in FileWatch.           *)
(***************************************************************************)
EXTENDS Naturals, FiniteSets

CONSTANTS SectionEdits, \* for each section of the configuration, the requests that edit it
          Uploads,      \* requests that put a whole config.yaml
          Base

VARIABLES memory,      \* the configuration in use, Handler.cfg
          onDisk,      \* config.yaml: what it holds, or Truncated
          lock,        \* Handler.mu: who holds it
          edits,       \* requests
          reload,      \* the watcher's goroutine
          scheduled,   \* configReloadTimer is set
          lastHash,    \* lastConfigHash, as what it was taken of
          wanted,      \* history: what the edits made so far amount to
          met          \* history: requests have met a reload, an upload, or each other

editVars == <<memory, onDisk, lock, edits, reload, scheduled, lastHash, wanted, met>>
----------------------------------------------------------------------------
Editors == UNION SectionEdits
SectionOf(q) == UNION {s \in SectionEdits : q \in s}
Requests == Editors \cup Uploads
Configs == SUBSET ({Base} \cup Requests)
Truncated == {"truncated"}
Nobody == "nobody"

\* A request edits one section or is an upload; the marks are no requests.
ASSUME EditsAssumption ==
  /\ \A s, t \in SectionEdits : s = t \/ s \cap t = {}
  /\ Editors \cap Uploads = {}
  /\ Nobody \notin Requests /\ Base \notin Requests
  /\ Truncated \cap ({Base} \cup Requests) = {}

EditState ==
  [ pc    : {"start", "picked", "read", "applied", "truncate", "write", "load", "swap", "done"},
    stale : BOOLEAN,       \* it has picked from an object no longer in use
    seen  : Configs,       \* what its section held when it read it
    saves : Configs ]

ReloadState ==
  [pc : {"idle", "check", "load", "swap", "rehash"}, checked : Configs, loaded : Configs]

EditsTypeOK ==
  /\ memory \in Configs /\ onDisk \in Configs \cup {Truncated} /\ lastHash \in Configs
  /\ lock \in Requests \cup {Nobody}
  /\ edits \in [Requests -> EditState] /\ reload \in ReloadState
  /\ scheduled \in BOOLEAN /\ wanted \in Configs /\ met \in BOOLEAN

Resting == [pc |-> "idle", checked |-> {}, loaded |-> {}]

EditsInit ==
  /\ memory = {Base} /\ onDisk = {Base} /\ lastHash = {Base} /\ wanted = {Base}
  /\ lock = Nobody /\ scheduled = FALSE /\ met = FALSE
  /\ edits = [q \in Requests |-> [pc |-> "start", stale |-> FALSE, seen |-> {}, saves |-> {}]]
  /\ reload = Resting

Busy(q) == edits[q].pc \notin {"start", "done"}
InReload == reload.pc \in {"load", "swap", "rehash"}
\* Two requests are between the read and the assignment of one section.
Collide == \E p, q \in Requests : /\ p # q /\ p \in SectionOf(q)
                                  /\ edits[p].pc = "read" /\ edits[q].pc = "read"

\* To be a conjunct of every step, after those that give the primed variables.
NotesCrossing ==
  met' = (met \/ Collide' \/ (\E q \in Requests : Busy(q)' /\
                            (InReload' \/ \E p \in Uploads \ {q} : Busy(p)')))

EditGoes(q, pc) == edits' = [edits EXCEPT ![q].pc = pc]

\* What an object holds when it is read from the file: an empty file is a
\* configuration with nothing set.
ReadDisk == IF onDisk = Truncated THEN {} ELSE onDisk

\* Another object is in use: who has a pointer into the former one keeps it.
PutInUse(config) == memory' = config
AllStale(es) == 
  [q \in Requests |-> [es[q] EXCEPT !.stale = @ \/ es[q].pc \in {"picked", "read"}]]
----------------------------------------------------------------------------
(* An edit: pick what to change, read it, assign it, save what is in use.  *)

PickEdit(q) ==
  /\ q \in Editors /\ edits[q].pc = "start"
  /\ EditGoes(q, "picked")
  /\ UNCHANGED <<memory, onDisk, lock, reload, scheduled, lastHash, wanted>>
  /\ NotesCrossing

ReadSection(q) ==
  /\ edits[q].pc = "picked"
  /\ edits' = [edits EXCEPT ![q].pc = "read", ![q].seen = memory \cap SectionOf(q)]
  /\ UNCHANGED <<memory, onDisk, lock, reload, scheduled, lastHash, wanted>>
  /\ NotesCrossing

\* A patch or a deletion starts from what the section held; a put does not.
\* When the object was replaced meanwhile: patchStringList and
\* deleteFromStringList change the old one, the others the one in use.
AssignSection(q) ==
  /\ edits[q].pc = "read"
  /\ \E former \in {edits[q].seen, {}} :
       /\ \/ memory' = (memory \ SectionOf(q)) \cup former \cup {q}
          \/ edits[q].stale /\ UNCHANGED memory
       /\ \/ former = edits[q].seen /\ wanted' = wanted \cup {q}
          \/ former = {} /\ wanted' = (wanted \ SectionOf(q)) \cup {q}
  /\ edits' = [edits EXCEPT ![q].pc = "applied", ![q].stale = FALSE, ![q].seen = {}]
  /\ UNCHANGED <<onDisk, lock, reload, scheduled, lastHash>>
  /\ NotesCrossing

\* Faulty variant: persist does not wait for the lock.
TakeWithoutLock(q) ==
  /\ edits[q].pc = "applied"
  /\ lock' = q
  /\ edits' = [edits EXCEPT ![q].pc = "truncate", ![q].saves = memory]
  /\ UNCHANGED <<memory, onDisk, reload, scheduled, lastHash, wanted>>
  /\ NotesCrossing

\* persist: with the lock, the configuration in use is cloned.
LockAndTake(q) ==
  /\ edits[q].pc = "applied" /\ lock = Nobody
  /\ lock' = q
  /\ edits' = [edits EXCEPT ![q].pc = "truncate", ![q].saves = memory]
  /\ UNCHANGED <<memory, onDisk, reload, scheduled, lastHash, wanted>>
  /\ NotesCrossing

\* os.Create; an upload opens the file to truncate it.
TruncateFile(q) ==
  /\ edits[q].pc = "truncate"
  /\ onDisk' = Truncated /\ scheduled' = TRUE
  /\ EditGoes(q, "write")
  /\ UNCHANGED <<memory, lock, reload, lastHash, wanted>>
  /\ NotesCrossing

WriteEdit(q) ==
  /\ edits[q].pc = "write"
  /\ onDisk' = edits[q].saves /\ scheduled' = TRUE
  /\ edits' = [edits EXCEPT ![q].pc = IF q \in Uploads THEN "load" ELSE "done", ![q].saves = {}]
  /\ lock' = IF q \in Uploads THEN lock ELSE Nobody
  /\ UNCHANGED <<memory, reload, lastHash, wanted>>
  /\ NotesCrossing
----------------------------------------------------------------------------
(* PutConfigYAML: the file is replaced and read back, all with the lock.   *)

Upload(q) ==
  /\ q \in Uploads /\ edits[q].pc = "start" /\ lock = Nobody
  /\ lock' = q
  /\ edits' = [edits EXCEPT ![q].pc = "truncate", ![q].saves = {Base, q}]
  /\ wanted' = {Base, q}
  /\ UNCHANGED <<memory, onDisk, reload, scheduled, lastHash>>
  /\ NotesCrossing

LoadUpload(q) ==
  /\ edits[q].pc = "load"
  /\ edits' = [edits EXCEPT ![q].pc = "swap", ![q].saves = ReadDisk]
  /\ UNCHANGED <<memory, onDisk, lock, reload, scheduled, lastHash, wanted>>
  /\ NotesCrossing

UseUpload(q) ==
  /\ edits[q].pc = "swap"
  /\ PutInUse(edits[q].saves)
  /\ edits' = AllStale([edits EXCEPT ![q].pc = "done", ![q].saves = {}])
  /\ lock' = Nobody
  /\ UNCHANGED <<onDisk, reload, scheduled, lastHash, wanted>>
  /\ NotesCrossing
----------------------------------------------------------------------------
(* reloadConfigIfChanged, when the timer of scheduleConfigReload fires.    *)

ReloadGoes(pc) == reload' = [reload EXCEPT !.pc = pc]

FireReload ==
  /\ scheduled /\ reload.pc = "idle"
  /\ scheduled' = FALSE /\ ReloadGoes("check")
  /\ UNCHANGED <<memory, onDisk, lock, edits, lastHash, wanted>>
  /\ NotesCrossing

\* An empty file is ignored, and one whose hash is the last.
CheckChanges ==
  /\ reload.pc = "check"
  /\ reload' = IF onDisk \in {Truncated, lastHash} THEN Resting
               ELSE [reload EXCEPT !.pc = "load", !.checked = onDisk]
  /\ UNCHANGED <<memory, onDisk, lock, edits, scheduled, lastHash, wanted>>
  /\ NotesCrossing

LoadChanges ==
  /\ reload.pc = "load"
  /\ reload' = [reload EXCEPT !.pc = "swap", !.loaded = ReadDisk]
  /\ UNCHANGED <<memory, onDisk, lock, edits, scheduled, lastHash, wanted>>
  /\ NotesCrossing

\* reloadClients ends with the callback, which calls SetConfig.
UseChanges ==
  /\ reload.pc = "swap"
  /\ PutInUse(reload.loaded)
  /\ edits' = AllStale(edits)
  /\ ReloadGoes("rehash")
  /\ UNCHANGED <<onDisk, lock, scheduled, lastHash, wanted>>
  /\ NotesCrossing

\* The hash is that of the file as it is by now.
NoteHash ==
  /\ reload.pc = "rehash"
  /\ lastHash' = IF onDisk = Truncated THEN reload.checked ELSE onDisk
  /\ reload' = Resting
  /\ UNCHANGED <<memory, onDisk, lock, edits, scheduled, wanted>>
  /\ NotesCrossing
----------------------------------------------------------------------------
RequestMoves(q) ==
  PickEdit(q) \/ ReadSection(q) \/ AssignSection(q) \/ LockAndTake(q) \/ TruncateFile(q) \/ WriteEdit(q)
  \/ Upload(q) \/ LoadUpload(q) \/ UseUpload(q)
ReloadMoves == FireReload \/ CheckChanges \/ LoadChanges \/ UseChanges \/ NoteHash

EditsNext == (\E q \in Requests : RequestMoves(q)) \/ ReloadMoves

EditsSpec == EditsInit /\ [][EditsNext]_editVars
----------------------------------------------------------------------------
(* Properties.                                                             *)

EditsAtRest == reload.pc = "idle" /\ ~scheduled /\ \A q \in Requests : ~Busy(q)

(***************************************************************************)
(* Once all is done, memory and file hold every edit answered, however the *)
(* requests overlapped: in whatever order they change their sections, wait *)
(* for the lock and save.  Three meetings are excepted, for they may lose  *)
(* an edit that was answered: with a reload, with an upload, and of two    *)
(* edits of one section of which both read it before either assigns it.    *)
(***************************************************************************)
UncrossedEditsKept == EditsAtRest /\ ~met => memory = wanted /\ onDisk = wanted

(***************************************************************************)
(* sdk-usage.md:161: "changes to `config.yaml` and `auths/` are picked up  *)
(* automatically."  So the configuration in use is in the end the file's.  *)
(***************************************************************************)
MemoryFollowsDisk == EditsAtRest => memory = onDisk
=============================================================================
