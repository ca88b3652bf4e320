----------------------------- MODULE FileProofs -----------------------------
(***************************************************************************)
(* The watcher's side, for any files, auths and contents: what goroutines  *)
(* that share the configuration file and the auth directory do to each     *)
(* other (management edits, the watcher, any number of requests and        *)
(* reloads), and what the update dispatcher hands over to its consumer     *)
(* (any number of refreshers, any capacity of the queue).                  *)
(***************************************************************************)
EXTENDS AuthDispatch, FileWatch, ConfigEdits, SequenceTheorems, FiniteSetTheorems, WellFoundedInduction, TLAPS
----------------------------------------------------------------------------
(* Edits.  As long as no reload or upload has overlapped with anything     *)
(* else, and no section was read by two requests before either assigned    *)
(* it, what a request has read is still what its section holds, and memory *)
(* and file differ only by what somebody who holds Handler.mu, or has yet  *)
(* to take it, is going to save; and what such a request saves is the      *)
(* whole of memory, so its save covers the edits of all the others.        *)
Held == {"truncate", "write", "load", "swap"}

\* Who holds the lock saves, and edits and uploads go their own ways.
LockOK ==
  /\ \A q \in Requests : lock = q <=> edits[q].pc \in Held
  /\ \A q \in Editors : edits[q].pc \notin {"load", "swap"}
  /\ \A q \in Uploads : edits[q].pc \notin {"picked", "read", "applied"}

Apart ==
  /\ ~Collide
  /\ \A q \in Requests : Busy(q) => ~InReload /\ \A p \in Uploads \ {q} : ~Busy(p)

\* What the edits amount to is in memory and on disk, or on its way there.
InMemory ==
  /\ \A q \in Requests : ~edits[q].stale
  /\ reload.pc = "swap" => reload.loaded = wanted
  /\ \A q \in Requests : edits[q].pc = "swap" => edits[q].saves = wanted
  /\ \A q \in Requests : edits[q].pc = "read" => edits[q].seen = wanted \cap SectionOf(q)
  /\ (\A q \in Uploads : ~Busy(q)) => memory = wanted
OnItsWay ==
  /\ \A q \in Uploads : edits[q].pc \in {"truncate", "write"} => edits[q].saves = wanted
  /\ \/ onDisk = wanted /\ \A q \in Requests : edits[q].pc \notin {"truncate", "write"}
     \/ \E q \in Requests : edits[q].pc = "applied"
     \/ \E q \in Requests : edits[q].pc \in {"truncate", "write"} /\ edits[q].saves = wanted

EditsInv == EditsTypeOK /\ LockOK /\ (~met => Apart /\ InMemory /\ OnItsWay)
----------------------------------------------------------------------------
LEMMA InitEdits == EditsInit => EditsInv
<1> SUFFICES ASSUME EditsInit PROVE EditsInv
  OBVIOUS
<1>1. EditsTypeOK
  BY DEF EditsInit, EditsTypeOK, EditState, ReloadState, Resting, Configs
<1>2. LockOK
  BY EditsAssumption DEF EditsInit, LockOK, Held, Requests
<1>3. Apart /\ InMemory /\ OnItsWay
  BY DEF EditsInit, Apart, InMemory, OnItsWay, Busy, Collide, Resting, Requests
<1>4. QED
  BY <1>1, <1>2, <1>3 DEF EditsInv

\* What is known of a step that did not let anything cross.
LEMMA CrossingNoted ==
  ASSUME EditsInv, NotesCrossing
  PROVE  met' \in BOOLEAN /\ (~met' => Apart' /\ ~met /\ Apart /\ InMemory /\ OnItsWay)
BY DEF EditsInv, EditsTypeOK, NotesCrossing, Apart

LEMMA ContentReadable ==
  ASSUME NEW content \in Configs PROVE content # Truncated
BY EditsAssumption DEF Configs, Truncated

\* Different sections have different requests.
LEMMA SectionsApart ==
  ASSUME NEW q \in Editors
  PROVE  q \in SectionOf(q) /\ \A p \in Editors \ SectionOf(q) : SectionOf(p) \cap SectionOf(q) = {}
<1>1. ASSUME NEW p \in Editors PROVE \E s \in SectionEdits : p \in s /\ SectionOf(p) = s
  <2>1. PICK s \in SectionEdits : p \in s
    BY DEF Editors
  <2>2. \A t \in SectionEdits : p \in t <=> t = s
    BY <2>1, EditsAssumption
  <2>3. QED
    BY <2>1, <2>2 DEF SectionOf
<1>2. QED
  BY <1>1, EditsAssumption

\* One request changes.
LEMMA EditChanges ==
  ASSUME EditsInv, NEW q \in Requests, NEW e \in EditState, edits' = [edits EXCEPT ![q] = e]
  PROVE  /\ edits' \in [Requests -> EditState]
         /\ edits'[q] = e
         /\ \A p \in Requests \ {q} : edits'[p] = edits[p]
BY DEF EditsInv, EditsTypeOK

\* Putting an object in use makes stale what was picked from the former one.
LEMMA StaleFacts ==
  ASSUME NEW es \in [Requests -> EditState]
  PROVE  /\ AllStale(es) \in [Requests -> EditState]
         /\ \A p \in Requests :
              /\ AllStale(es)[p].pc = es[p].pc
              /\ AllStale(es)[p].saves = es[p].saves
              /\ AllStale(es)[p].seen = es[p].seen
              /\ es[p].pc \notin {"picked", "read"} => AllStale(es)[p].stale = es[p].stale
<1> DEFINE new == AllStale(es)
<1>1. ASSUME NEW p \in Requests
      PROVE  /\ new[p] \in EditState /\ new[p].pc = es[p].pc /\ new[p].saves = es[p].saves
             /\ new[p].seen = es[p].seen
             /\ es[p].pc \notin {"picked", "read"} => new[p].stale = es[p].stale
  <2> DEFINE e == es[p]
             stale == e.stale \/ e.pc \in {"picked", "read"}
  <2>1. new[p] = [e EXCEPT !.stale = stale]
    BY DEF AllStale
  <2>2. e \in EditState /\ stale \in BOOLEAN
    OBVIOUS
  <2>3. e.pc \notin {"picked", "read"} => stale = e.stale
    BY DEF EditState
  <2> HIDE DEF e, stale, new
  <2>4. /\ new[p] \in EditState /\ new[p].pc = e.pc /\ new[p].saves = e.saves
        /\ new[p].stale = stale /\ new[p].seen = e.seen
    BY <2>1, <2>2 DEF EditState
  <2>5. QED
    BY <2>3, <2>4 DEF e
<1>2. new = [p \in Requests |-> new[p]]
  BY DEF AllStale
<1> HIDE DEF new
<1>3. QED
  BY <1>1, <1>2 DEF new

LEMMA RequestKeepsEdits ==
  ASSUME EditsInv, NEW q \in Requests, RequestMoves(q)
  PROVE  EditsInv'
<1>1. EditsTypeOK /\ LockOK /\ edits[q] \in EditState /\ Editors \cup Uploads = Requests
  BY DEF EditsInv, EditsTypeOK, Requests
<1>2. NotesCrossing
  BY DEF RequestMoves, PickEdit, ReadSection, AssignSection, LockAndTake, TruncateFile, WriteEdit, Upload,
         LoadUpload, UseUpload
<1>3. met' \in BOOLEAN /\ (~met' => Apart' /\ ~met /\ Apart /\ InMemory /\ OnItsWay)
  BY <1>2, CrossingNoted
<1>4. CASE PickEdit(q)
  <2> DEFINE e == [edits[q] EXCEPT !.pc = "picked"]
  <2>1. /\ edits' = [edits EXCEPT ![q] = e]
        /\ UNCHANGED <<memory, onDisk, lock, reload, scheduled, lastHash, wanted>>
        /\ q \in Editors /\ edits[q].pc = "start"
    BY <1>1, <1>4 DEF PickEdit, EditGoes, EditsTypeOK
  <2>2. e \in EditState /\ e.pc = "picked" /\ e.stale = edits[q].stale /\ e.saves = edits[q].saves
    BY <1>1 DEF EditState
  <2> HIDE DEF e
  <2>3. /\ edits' \in [Requests -> EditState] /\ edits'[q] = e
        /\ \A p \in Requests \ {q} : edits'[p] = edits[p]
    BY <2>1, <2>2, EditChanges
  <2>4. EditsTypeOK'
    BY <1>1, <1>3, <2>1, <2>3 DEF EditsTypeOK
  <2>5. LockOK'
    BY <1>1, <2>1, <2>2, <2>3, EditsAssumption DEF LockOK, Held
  <2>6. ASSUME ~met' PROVE InMemory' /\ OnItsWay'
    BY <1>1, <1>3, <2>1, <2>2, <2>3, <2>6, EditsAssumption DEF InMemory, OnItsWay, Busy
  <2>7. QED
    BY <1>3, <2>4, <2>5, <2>6 DEF EditsInv
<1>5. CASE AssignSection(q)
  <2> DEFINE e == [edits[q] EXCEPT !.pc = "applied", !.stale = FALSE, !.seen = {}]
             rest == memory \ SectionOf(q)
             replaced == (wanted \ SectionOf(q)) \cup {q}
             seen == edits[q].seen
  <2>1. /\ edits' = [edits EXCEPT ![q] = e]
        /\ UNCHANGED <<onDisk, lock, reload, scheduled, lastHash>>
        /\ edits[q].pc = "read"
    BY <1>1, <1>5 DEF AssignSection, EditsTypeOK
  <2>11. \E former \in {seen, {}} :
          /\ memory' = rest \cup former \cup {q} \/ (edits[q].stale /\ memory' = memory)
          /\ (former = seen /\ wanted' = wanted \cup {q}) \/ (former = {} /\ wanted' = replaced)
    BY <1>5 DEF AssignSection
  <2>2. e \in EditState /\ e.pc = "applied" /\ ~e.stale /\ e.saves = edits[q].saves
    BY <1>1 DEF EditState, Configs
  <2> HIDE DEF e
  <2>3. /\ edits' \in [Requests -> EditState] /\ edits'[q] = e
        /\ \A p \in Requests \ {q} : edits'[p] = edits[p]
    BY <2>1, <2>2, EditChanges
  <2>4. EditsTypeOK'
    <3>1. memory' \in Configs /\ wanted' \in Configs
      <4>1. memory \in Configs /\ wanted \in Configs /\ seen \in Configs
        BY <1>1 DEF EditsTypeOK, EditState
      <4>2. QED
        BY <2>11, <4>1 DEF Configs
    <3>2. QED
      BY <1>1, <1>3, <2>1, <2>3, <3>1 DEF EditsTypeOK
  <2>5. LockOK'
    BY <1>1, <2>1, <2>2, <2>3, EditsAssumption DEF LockOK, Held
  <2>6. ASSUME ~met' PROVE InMemory' /\ OnItsWay'
    <3>1. ~InReload /\ \A p \in Uploads : ~Busy(p)
      BY <1>1, <1>3, <2>1, <2>6 DEF Apart, Busy, LockOK
    <3>2. \A p \in Requests : edits[p].pc # "swap"
      BY <1>1, <3>1 DEF Busy, LockOK
    <3>3. q \notin Uploads /\ q \in Editors
      BY <1>1, <2>1 DEF LockOK
    <3>4. memory = wanted /\ seen = wanted \cap SectionOf(q) /\ ~edits[q].stale
      BY <1>3, <2>1, <2>6, <3>1 DEF InMemory
    <3>5. memory' = wanted' /\ wanted \ SectionOf(q) = wanted' \ SectionOf(q)
      BY <2>11, <3>3, <3>4, SectionsApart
    <3>6. ASSUME NEW p \in Requests \ {q}, edits[p].pc = "read"
          PROVE  edits[p].seen = wanted' \cap SectionOf(p)
      <4>1. p \in Editors /\ p \notin SectionOf(q)
        BY <1>1, <1>3, <2>1, <2>6, <3>6 DEF Apart, Collide, LockOK
      <4>2. edits[p].seen = wanted \cap SectionOf(p)
        BY <1>3, <2>6, <3>6 DEF InMemory
      <4>3. QED
        BY <3>3, <3>5, <4>1, <4>2, SectionsApart
    <3>7. InMemory'
      BY <1>1, <1>3, <2>1, <2>2, <2>3, <2>6, <3>1, <3>2, <3>5, <3>6 DEF InMemory, Busy, InReload
    <3>8. OnItsWay'
      <4>1. edits'[q].pc = "applied"
        BY <2>2, <2>3
      <4>2. \A p \in Uploads : edits'[p].pc \notin {"truncate", "write"}
        BY <1>1, <2>3, <3>1, <3>3 DEF Busy
      <4>3. QED
        BY <4>1, <4>2 DEF OnItsWay
    <3>9. QED
      BY <3>7, <3>8
  <2>7. QED
    BY <1>3, <2>4, <2>5, <2>6 DEF EditsInv
<1>13. CASE ReadSection(q)
  <2> DEFINE content == memory \cap SectionOf(q)
             e == [edits[q] EXCEPT !.pc = "read", !.seen = content]
  <2>1. /\ edits' = [edits EXCEPT ![q] = e]
        /\ UNCHANGED <<memory, onDisk, lock, reload, scheduled, lastHash, wanted>>
        /\ edits[q].pc = "picked"
    BY <1>1, <1>13 DEF ReadSection, EditsTypeOK
  <2>0. content \in Configs
    BY <1>1 DEF EditsTypeOK, Configs
  <2>8. content = memory \cap SectionOf(q)
    OBVIOUS
  <2> HIDE DEF content
  <2>2. /\ e \in EditState /\ e.pc = "read" /\ e.stale = edits[q].stale
        /\ e.saves = edits[q].saves /\ e.seen = content
    BY <1>1, <2>0 DEF EditState
  <2> HIDE DEF e
  <2>3. /\ edits' \in [Requests -> EditState] /\ edits'[q] = e
        /\ \A p \in Requests \ {q} : edits'[p] = edits[p]
    BY <2>1, <2>2, EditChanges
  <2>4. EditsTypeOK'
    BY <1>1, <1>3, <2>1, <2>3 DEF EditsTypeOK
  <2>5. LockOK'
    BY <1>1, <2>1, <2>2, <2>3, EditsAssumption DEF LockOK, Held
  <2>6. ASSUME ~met' PROVE InMemory' /\ OnItsWay'
    <3>1. \A p \in Uploads : ~Busy(p)
      BY <1>1, <1>3, <2>1, <2>6 DEF Apart, Busy, LockOK
    <3>2. content = wanted \cap SectionOf(q)
      BY <1>3, <2>6, <2>8, <3>1 DEF InMemory
    <3>3. QED
      BY <1>1, <1>3, <2>1, <2>2, <2>3, <2>6, <3>1, <3>2, EditsAssumption
      DEF InMemory, OnItsWay, Busy
  <2>7. QED
    BY <1>3, <2>4, <2>5, <2>6 DEF EditsInv
<1>6. CASE LockAndTake(q)
  <2> DEFINE e == [edits[q] EXCEPT !.pc = "truncate", !.saves = memory]
  <2>1. /\ edits' = [edits EXCEPT ![q] = e]
        /\ UNCHANGED <<memory, onDisk, reload, scheduled, lastHash, wanted>>
        /\ edits[q].pc = "applied" /\ lock = Nobody /\ lock' = q
    BY <1>1, <1>6 DEF LockAndTake, EditsTypeOK
  <2>2. e \in EditState /\ e.pc = "truncate" /\ e.stale = edits[q].stale /\ e.saves = memory
    BY <1>1 DEF EditState, EditsTypeOK
  <2> HIDE DEF e
  <2>3. /\ edits' \in [Requests -> EditState] /\ edits'[q] = e
        /\ \A p \in Requests \ {q} : edits'[p] = edits[p]
    BY <2>1, <2>2, EditChanges
  <2>4. EditsTypeOK'
    BY <1>1, <1>3, <2>1, <2>3 DEF EditsTypeOK
  <2>5. LockOK'
    BY <1>1, <2>1, <2>2, <2>3, EditsAssumption DEF LockOK, Held
  <2>6. ASSUME ~met' PROVE InMemory' /\ OnItsWay'
    <3>1. \A p \in Uploads : ~Busy(p)
      BY <1>1, <1>3, <2>1, <2>6 DEF Apart, Busy, LockOK
    <3>2. memory = wanted
      BY <1>3, <2>6, <3>1 DEF InMemory
    <3>3. q \notin Uploads
      BY <1>1, <2>1 DEF LockOK
    <3>4. QED
      BY <1>1, <1>3, <2>1, <2>2, <2>3, <2>6, <3>1, <3>2, <3>3 DEF InMemory, OnItsWay, Busy
  <2>7. QED
    BY <1>3, <2>4, <2>5, <2>6 DEF EditsInv
<1>7. CASE TruncateFile(q)
  <2> DEFINE e == [edits[q] EXCEPT !.pc = "write"]
  <2>1. /\ edits' = [edits EXCEPT ![q] = e]
        /\ UNCHANGED <<memory, lock, reload, lastHash, wanted>>
        /\ edits[q].pc = "truncate" /\ onDisk' = Truncated /\ scheduled' = TRUE
    BY <1>1, <1>7 DEF TruncateFile, EditGoes, EditsTypeOK
  <2>2. e \in EditState /\ e.pc = "write" /\ e.stale = edits[q].stale /\ e.saves = edits[q].saves
    BY <1>1 DEF EditState
  <2> HIDE DEF e
  <2>3. /\ edits' \in [Requests -> EditState] /\ edits'[q] = e
        /\ \A p \in Requests \ {q} : edits'[p] = edits[p]
    BY <2>1, <2>2, EditChanges
  <2>4. EditsTypeOK'
    BY <1>1, <1>3, <2>1, <2>3 DEF EditsTypeOK
  <2>5. LockOK'
    BY <1>1, <2>1, <2>2, <2>3 DEF LockOK, Held
  <2>6. ASSUME ~met' PROVE InMemory' /\ OnItsWay'
    BY <1>1, <1>3, <2>1, <2>2, <2>3, <2>6 DEF InMemory, OnItsWay, Busy
  <2>7. QED
    BY <1>3, <2>4, <2>5, <2>6 DEF EditsInv
<1>8. CASE WriteEdit(q)
  <2> DEFINE pc == IF q \in Uploads THEN "load" ELSE "done"
             e == [edits[q] EXCEPT !.pc = pc, !.saves = {}]
  <2>1. /\ edits' = [edits EXCEPT ![q] = e]
        /\ UNCHANGED <<memory, reload, lastHash, wanted>>
        /\ edits[q].pc = "write" /\ onDisk' = edits[q].saves /\ scheduled' = TRUE
        /\ lock' = IF q \in Uploads THEN lock ELSE Nobody
    BY <1>1, <1>8 DEF WriteEdit, EditsTypeOK
  <2>2. e \in EditState /\ e.pc = pc /\ e.stale = edits[q].stale
    BY <1>1 DEF EditState, Configs
  <2>0. edits[q].saves \in Configs
    BY <1>1 DEF EditState
  <2>8. pc = IF q \in Uploads THEN "load" ELSE "done"
    OBVIOUS
  <2> HIDE DEF e, pc
  <2>3. /\ edits' \in [Requests -> EditState] /\ edits'[q] = e
        /\ \A p \in Requests \ {q} : edits'[p] = edits[p]
    BY <2>1, <2>2, EditChanges
  <2>4. EditsTypeOK'
    BY <1>1, <1>3, <2>0, <2>1, <2>3 DEF EditsTypeOK
  <2>9. lock = q /\ \A p \in Requests \ {q} : edits[p].pc \notin Held
    BY <1>1, <2>1 DEF LockOK, Held
  <2>5. LockOK'
    BY <1>1, <2>1, <2>2, <2>3, <2>8, <2>9, EditsAssumption DEF LockOK, Held
  <2>6. ASSUME ~met' PROVE InMemory' /\ OnItsWay'
    <3>1. InMemory /\ OnItsWay /\ Apart
      BY <1>3, <2>6
    <3>2. InMemory'
      <4>1. q \in Uploads => Busy(q)'
        BY <2>2, <2>3, <2>8 DEF Busy
      <4>2. \A p \in Uploads \ {q} : Busy(p)' <=> Busy(p)
        BY <1>1, <2>3 DEF Busy
      <4>3. (\A p \in Uploads : ~Busy(p)') => \A p \in Uploads : ~Busy(p)
        BY <4>1, <4>2
      <4>4. QED
        BY <1>1, <2>1, <2>2, <2>3, <2>8, <3>1, <4>3 DEF InMemory
    <3>3. \A p \in Uploads : edits'[p].pc \in {"truncate", "write"} => edits'[p].saves = wanted'
      BY <1>1, <2>1, <2>2, <2>3, <2>8, <3>1 DEF OnItsWay
    <3>4. CASE \E p \in Requests : edits[p].pc = "applied"
      <4>1. PICK p \in Requests : edits[p].pc = "applied"
        BY <3>4
      <4>2. edits'[p].pc = "applied"
        BY <2>1, <2>3, <4>1
      <4>3. QED
        BY <3>2, <3>3, <4>2 DEF OnItsWay
    <3>5. CASE edits[q].saves = wanted
      <4>1. \A p \in Requests : edits'[p].pc \notin {"truncate", "write"}
        BY <2>2, <2>3, <2>8, <2>9 DEF Held
      <4>2. onDisk' = wanted'
        BY <2>1, <3>5
      <4>3. QED
        BY <3>2, <3>3, <4>1, <4>2 DEF OnItsWay
    <3>6. QED
      BY <2>1, <2>9, <3>1, <3>2, <3>4, <3>5 DEF OnItsWay, Held
  <2>7. QED
    BY <1>3, <2>4, <2>5, <2>6 DEF EditsInv
<1>9. CASE Upload(q)
  <2> DEFINE content == {Base, q}
             e == [edits[q] EXCEPT !.pc = "truncate", !.saves = content]
  <2>1. /\ edits' = [edits EXCEPT ![q] = e]
        /\ UNCHANGED <<memory, onDisk, reload, scheduled, lastHash>>
        /\ q \in Uploads /\ edits[q].pc = "start" /\ lock = Nobody /\ lock' = q
        /\ wanted' = content
    BY <1>1, <1>9 DEF Upload, EditsTypeOK
  <2>0. content \in Configs
    BY <1>1 DEF Configs
  <2> HIDE DEF content
  <2>2. e \in EditState /\ e.pc = "truncate" /\ e.stale = edits[q].stale /\ e.saves = content
    BY <1>1, <2>0 DEF EditState
  <2> HIDE DEF e
  <2>3. /\ edits' \in [Requests -> EditState] /\ edits'[q] = e
        /\ \A p \in Requests \ {q} : edits'[p] = edits[p]
    BY <2>1, <2>2, EditChanges
  <2>4. EditsTypeOK'
    BY <1>1, <1>3, <2>0, <2>1, <2>3 DEF EditsTypeOK
  <2>5. LockOK'
    BY <1>1, <2>1, <2>2, <2>3, EditsAssumption DEF LockOK, Held
  <2>6. ASSUME ~met' PROVE InMemory' /\ OnItsWay'
    <3>1. Busy(q)' /\ ~InReload' /\ \A p \in Requests \ {q} : ~Busy(p)'
      BY <1>1, <1>3, <2>1, <2>2, <2>3, <2>6 DEF Apart, Busy
    <3>2. reload'.pc # "swap" /\ \A p \in Requests \ {q} : edits'[p].pc \in {"start", "done"}
      BY <3>1 DEF InReload, Busy
    <3>3. QED
      BY <1>1, <1>3, <2>1, <2>2, <2>3, <2>6, <3>1, <3>2 DEF InMemory, OnItsWay
  <2>7. QED
    BY <1>3, <2>4, <2>5, <2>6 DEF EditsInv
<1>10. CASE LoadUpload(q)
  <2> DEFINE content == ReadDisk
             e == [edits[q] EXCEPT !.pc = "swap", !.saves = content]
  <2>1. /\ edits' = [edits EXCEPT ![q] = e]
        /\ UNCHANGED <<memory, onDisk, lock, reload, scheduled, lastHash, wanted>>
        /\ edits[q].pc = "load"
    BY <1>1, <1>10 DEF LoadUpload, EditsTypeOK
  <2>0. content \in Configs /\ (onDisk \in Configs => content = onDisk)
    BY <1>1, ContentReadable DEF ReadDisk, EditsTypeOK, Configs
  <2> HIDE DEF content
  <2>2. e \in EditState /\ e.pc = "swap" /\ e.stale = edits[q].stale /\ e.saves = content
    BY <1>1, <2>0 DEF EditState
  <2> HIDE DEF e
  <2>3. /\ edits' \in [Requests -> EditState] /\ edits'[q] = e
        /\ \A p \in Requests \ {q} : edits'[p] = edits[p]
    BY <2>1, <2>2, EditChanges
  <2>4. EditsTypeOK'
    BY <1>1, <1>3, <2>1, <2>3 DEF EditsTypeOK
  <2>5. LockOK'
    BY <1>1, <2>1, <2>2, <2>3 DEF LockOK, Held
  <2>6. ASSUME ~met' PROVE InMemory' /\ OnItsWay'
    <3>1. q \in Uploads
      BY <1>1, <2>1 DEF LockOK
    <3>2. \A p \in Requests \ {q} : edits[p].pc \in {"start", "done"}
      BY <1>1, <1>3, <2>1, <2>6, <3>1 DEF Apart, Busy
    <3>3. onDisk = wanted /\ content = wanted
      BY <1>1, <1>3, <2>0, <2>1, <2>6, <3>2 DEF OnItsWay, EditsTypeOK
    <3>4. Busy(q)'
      BY <2>2, <2>3 DEF Busy
    <3>5. QED
      BY <1>1, <1>3, <2>1, <2>2, <2>3, <2>6, <3>1, <3>2, <3>3, <3>4 DEF InMemory, OnItsWay
  <2>7. QED
    BY <1>3, <2>4, <2>5, <2>6 DEF EditsInv
<1>11. CASE UseUpload(q)
  <2>1. /\ UNCHANGED <<onDisk, reload, scheduled, lastHash, wanted>>
        /\ edits[q].pc = "swap" /\ memory' = edits[q].saves /\ lock' = Nobody
        /\ edits' = AllStale([edits EXCEPT ![q].pc = "done", ![q].saves = {}])
    BY <1>11 DEF UseUpload, PutInUse
  <2>2. /\ edits' \in [Requests -> EditState]
        /\ edits'[q].pc = "done" /\ edits'[q].stale = edits[q].stale
        /\ \A p \in Requests \ {q} : edits'[p].pc = edits[p].pc /\ edits'[p].saves = edits[p].saves
                                   /\ edits'[p].seen = edits[p].seen
                                   /\ (edits[p].pc \notin {"picked", "read"} => edits'[p].stale = edits[p].stale)
    <3> DEFINE e == [edits[q] EXCEPT !.pc = "done", !.saves = {}]
               es == [edits EXCEPT ![q] = e]
    <3>1. edits' = AllStale(es)
      BY <1>1, <2>1 DEF EditsTypeOK
    <3>2. e \in EditState /\ e.pc = "done" /\ e.stale = edits[q].stale
      BY <1>1 DEF EditState, Configs
    <3> HIDE DEF e
    <3>3. es \in [Requests -> EditState] /\ es[q] = e
          /\ \A p \in Requests \ {q} : es[p] = edits[p]
      BY <1>1, <3>2 DEF EditsTypeOK
    <3> HIDE DEF es
    <3>4. QED
      BY <3>1, <3>2, <3>3, StaleFacts
  <2>3. q \in Uploads /\ \A p \in Requests \ {q} : edits[p].pc \notin Held
    BY <1>1, <2>1 DEF LockOK, Held
  <2>4. EditsTypeOK'
    BY <1>1, <1>3, <2>1, <2>2 DEF EditsTypeOK, EditState
  <2>5. LockOK'
    <3>1. \A p \in Requests : edits'[p].pc \notin Held /\ lock' # p
      BY <2>1, <2>2, <2>3, EditsAssumption DEF Held
    <3>2. \A p \in Requests : edits'[p].pc = edits[p].pc \/ edits'[p].pc = "done"
      BY <2>2
    <3>3. QED
      BY <1>1, <3>1, <3>2 DEF LockOK
  <2>6. ASSUME ~met' PROVE InMemory' /\ OnItsWay'
    <3>1. \A p \in Requests \ {q} : edits[p].pc \in {"start", "done"}
      BY <1>1, <1>3, <2>1, <2>3, <2>6 DEF Apart, Busy
    <3>2. onDisk = wanted /\ edits[q].saves = wanted
      BY <1>1, <1>3, <2>1, <2>6, <3>1 DEF OnItsWay, InMemory
    <3>3. \A p \in Requests : edits'[p].pc \in {"start", "done"} /\ ~edits'[p].stale
      BY <1>3, <2>2, <2>6, <3>1 DEF InMemory
    <3>4. memory' = wanted' /\ onDisk' = wanted'
      BY <2>1, <3>2
    <3>5. reload'.pc = "swap" => reload'.loaded = wanted'
      BY <1>3, <2>1, <2>6 DEF InMemory
    <3>6. QED
      BY <3>3, <3>4, <3>5, EditsAssumption DEF InMemory, OnItsWay, Requests
  <2>7. QED
    BY <1>3, <2>4, <2>5, <2>6 DEF EditsInv
<1>12. QED
  BY <1>4, <1>5, <1>6, <1>7, <1>8, <1>9, <1>10, <1>11, <1>13 DEF RequestMoves

LEMMA ReloadKeepsEdits ==
  ASSUME EditsInv, ReloadMoves
  PROVE  EditsInv'
<1>1. EditsTypeOK /\ LockOK /\ reload \in ReloadState
  BY DEF EditsInv, EditsTypeOK
<1>2. NotesCrossing
  BY DEF ReloadMoves, FireReload, CheckChanges, LoadChanges, UseChanges, NoteHash
<1>3. met' \in BOOLEAN /\ (~met' => Apart' /\ ~met /\ Apart /\ InMemory /\ OnItsWay)
  BY <1>2, CrossingNoted
<1>4. CASE FireReload \/ CheckChanges \/ NoteHash
  <2>1. UNCHANGED <<memory, onDisk, lock, edits, wanted>>
    BY <1>4 DEF FireReload, CheckChanges, NoteHash
  <2>2. reload' \in ReloadState /\ reload'.pc # "swap"
    <3>1. CASE FireReload
      BY <1>1, <3>1 DEF FireReload, ReloadGoes, ReloadState
    <3>2. CASE CheckChanges
      <4>1. Resting \in ReloadState /\ Resting.pc = "idle"
        BY DEF Resting, ReloadState, Configs
      <4>2. CASE onDisk \in {Truncated, lastHash}
        BY <3>2, <4>1, <4>2 DEF CheckChanges
      <4>3. CASE onDisk \notin {Truncated, lastHash}
        <5>1. onDisk \in Configs
          BY <1>1, <4>3 DEF EditsTypeOK
        <5>2. reload' = [reload EXCEPT !.pc = "load", !.checked = onDisk]
          BY <3>2, <4>3 DEF CheckChanges
        <5>3. QED
          BY <1>1, <5>1, <5>2 DEF ReloadState
      <4>4. QED
        BY <4>2, <4>3
    <3>3. CASE NoteHash
      BY <3>3 DEF NoteHash, Resting, ReloadState, Configs
    <3>4. QED
      BY <1>4, <3>1, <3>2, <3>3
  <2>3. lastHash' \in Configs /\ scheduled' \in BOOLEAN
    BY <1>1, <1>4 DEF FireReload, CheckChanges, NoteHash, EditsTypeOK, ReloadState
  <2>4. QED
    BY <1>1, <1>3, <2>1, <2>2, <2>3 DEF EditsInv, EditsTypeOK, LockOK, InMemory, OnItsWay, Busy
<1>5. CASE LoadChanges
  <2> DEFINE content == ReadDisk
  <2>1. /\ UNCHANGED <<memory, onDisk, lock, edits, scheduled, lastHash, wanted>>
        /\ reload.pc = "load" /\ reload' = [reload EXCEPT !.pc = "swap", !.loaded = content]
    BY <1>5 DEF LoadChanges
  <2>2. content \in Configs /\ (onDisk \in Configs => content = onDisk)
    BY <1>1, ContentReadable DEF ReadDisk, EditsTypeOK, Configs
  <2> HIDE DEF content
  <2>3. reload' \in ReloadState /\ reload'.pc = "swap" /\ reload'.loaded = content
    BY <1>1, <2>1, <2>2 DEF ReloadState
  <2>4. ASSUME ~met' PROVE InMemory' /\ OnItsWay'
    <3>1. \A p \in Requests : edits[p].pc \in {"start", "done"}
      BY <1>1, <1>3, <2>1, <2>4 DEF Apart, Busy, InReload
    <3>2. onDisk = wanted
      BY <1>3, <2>4, <3>1 DEF OnItsWay
    <3>3. content = wanted
      BY <1>1, <2>2, <3>2 DEF EditsTypeOK
    <3>4. QED
      BY <1>1, <1>3, <2>1, <2>3, <2>4, <3>3 DEF InMemory, OnItsWay, Busy
  <2>5. QED
    BY <1>1, <1>3, <2>1, <2>3, <2>4 DEF EditsInv, EditsTypeOK, LockOK
<1>6. CASE UseChanges
  <2>1. /\ UNCHANGED <<onDisk, lock, scheduled, lastHash, wanted>>
        /\ reload.pc = "swap" /\ reload' = [reload EXCEPT !.pc = "rehash"]
        /\ memory' = reload.loaded /\ edits' = AllStale(edits)
    BY <1>6 DEF UseChanges, ReloadGoes, PutInUse
  <2>2. reload' \in ReloadState /\ reload'.pc = "rehash" /\ memory' \in Configs
    BY <1>1, <2>1 DEF ReloadState
  <2>3. /\ edits' \in [Requests -> EditState]
        /\ \A p \in Requests :
             /\ edits'[p].pc = edits[p].pc
             /\ edits'[p].saves = edits[p].saves
             /\ edits'[p].seen = edits[p].seen
             /\ edits[p].pc \notin {"picked", "read"} => edits'[p].stale = edits[p].stale
    BY <1>1, <2>1, StaleFacts DEF EditsTypeOK
  <2>4. EditsTypeOK'
    BY <1>1, <1>3, <2>1, <2>2, <2>3 DEF EditsTypeOK
  <2>5. LockOK'
    BY <1>1, <2>1, <2>3 DEF LockOK, Requests
  <2>6. ASSUME ~met' PROVE InMemory' /\ OnItsWay'
    <3>1. \A p \in Requests : edits[p].pc \in {"start", "done"}
      BY <1>1, <1>3, <2>1, <2>6 DEF Apart, Busy, InReload
    <3>2. onDisk = wanted /\ reload.loaded = wanted
      BY <1>3, <2>1, <2>6, <3>1 DEF OnItsWay, InMemory
    <3>3. QED
      BY <1>1, <1>3, <2>1, <2>2, <2>3, <2>6, <3>1, <3>2 DEF InMemory, OnItsWay, Requests
  <2>7. QED
    BY <1>3, <2>4, <2>5, <2>6 DEF EditsInv
<1>7. QED
  BY <1>4, <1>5, <1>6 DEF ReloadMoves

LEMMA NextEdits == EditsInv /\ [EditsNext]_editVars => EditsInv'
<1>1. ASSUME EditsInv, UNCHANGED editVars PROVE EditsInv'
  BY <1>1 DEF EditsInv, EditsTypeOK, LockOK, Apart, InMemory, OnItsWay, Busy, InReload, Collide, editVars
<1>2. QED
  BY <1>1, RequestKeepsEdits, ReloadKeepsEdits DEF EditsNext

LEMMA AtRestKept == EditsInv => UncrossedEditsKept
<1> SUFFICES ASSUME EditsInv, EditsAtRest, ~met PROVE memory = wanted /\ onDisk = wanted
  BY DEF UncrossedEditsKept
<1>1. \A q \in Requests : ~Busy(q) /\ edits[q].pc \notin {"applied", "truncate", "write"}
  BY DEF EditsAtRest, Busy
<1>2. QED
  BY <1>1 DEF EditsInv, InMemory, OnItsWay, Requests

\* The lock of persist and PutConfigYAML: however many requests edit the
\* configuration at once, when all is done memory and file hold every edit,
\* unless a reload or an upload came between or two requests had both read one
\* section before either assigned it.
THEOREM EditsKept == EditsSpec => []UncrossedEditsKept
  BY InitEdits, NextEdits, AtRestKept, PTL DEF EditsSpec
----------------------------------------------------------------------------
(* The watcher.  Slow changes come in bursts of one file.  The argument is *)
(* that all other files are settled, and says of that one how far its      *)
(* events have got: a hash that is right goes with an auth that is right;  *)
(* one that was dropped is followed by a write that is still to be         *)
(* handled; and a configuration that is watched and not loaded has an      *)
(* event, the timer or a reload ahead of its check on the way.             *)

\* What is known of a file that the watcher has dealt with.
HashRight(f) == hashes[f] = IF disk[f] \in Versions THEN disk[f] ELSE Unset
Settled(f) ==
  /\ f # Config => known[f] = disk[f] /\ HashRight(f) /\ ~CutShort(f)
  /\ f = Config => known[f] = config /\ (watched => config = disk[f])

\* Start scans, and nothing has changed yet.
Starting ==
  /\ work[Main].pc \in {"rescan", "config", "files", "replace"}
  /\ \A g \in Goroutines \ {Main} : work[g].pc = "idle"
  /\ events = <<>> /\ ~timer /\ touched = Config
  /\ watched /\ \A f \in Files : ~CutShort(f)
  /\ disk[Config] # Absent /\ config = disk[Config] /\ configHash = Unset
  /\ work[Main].pc # "rescan" => \A f \in AuthFiles : HashRight(f)
  /\ work[Main].pc = "files" => work[Main].found[Config] = config
  /\ work[Main].pc = "replace" => \A f \in Files : work[Main].found[f] = disk[f]

WritePending == \E i \in DOMAIN events : events[i].op = "write"
RemovePending == \E i \in DOMAIN events : events[i].op = "remove"

\* The auth of file f goes with the hash; without one there is no auth, or
\* one that a write still to be handled brings the hash for.
AuthGoesWithHash(f) ==
  /\ hashes[f] # Unset => known[f] = hashes[f]
  /\ hashes[f] = Unset => known[f] = Absent \/ (disk[f] \in Versions /\ known[f] = disk[f])

\* The hash is that of the file, or there is none and the file is gone or
\* about to be handled again.
HashRead(f) == disk[f] \in Versions /\ hashes[f] = disk[f]
Dropped(f) == hashes[f] = Unset /\ (disk[f] # Absent => WritePending)

\* A burst of changes of the auth file f, and how far they are handled.
AuthBurst(f) ==
  LET w == work[Events]
  IN /\ \A r \in Reloaders : work[r].pc = "idle"
     /\ ~timer /\ configHash \in {Unset, config}
     /\ \A i \in DOMAIN events : events[i].op = "remove" => i = 1 /\ f \notin removedAt
     /\ WritePending => disk[f] # Absent
     /\ w.pc \in {"settle", "add", "store", "remove"} => w.file = f
     /\ w.pc \in {"settle", "add", "store", "remove"} \/ w.pc = "idle" \/ w.pc \in {"config", "files", "replace"}
     /\ w.pc \in {"idle", "settle", "add", "store"} => AuthGoesWithHash(f)
     /\ w.pc # "idle" => ~RemovePending
     /\ (RemovePending \/ w.pc = "settle") /\ hashes[f] = Unset => known[f] = Absent
     /\ w.pc = "idle" =>
          /\ hashes[f] = Unset => known[f] = Absent \/ WritePending
          /\ events = <<>> => CutShort(f) \/ HashRight(f)
     /\ w.pc \in {"add", "store"} => disk[f] # Absent
     /\ w.pc = "store" => disk[f] \in Versions /\ w.read = disk[f]
     /\ w.pc = "remove" /\ disk[f] # Absent => WritePending
     /\ w.pc \in {"config", "files", "replace"} => HashRead(f) \/ Dropped(f)
     /\ w.pc \in {"files", "replace"} => w.found[Config] = config
     /\ w.pc = "replace" =>
          /\ \A g \in AuthFiles \ {f} : w.found[g] = disk[g]
          /\ \/ w.found[f] = disk[f]
             \/ Dropped(f) /\ w.found[f] = Absent
          /\ w.found[f] \in Versions \/ hashes[f] = Unset

\* A burst of changes of the configuration, and how far reloads are.
Applying(r) == work[r].pc \in {"config", "files", "replace", "rehash"}

ConfigBurst ==
  /\ work[Events].pc = "idle"
  /\ watched => \A i \in DOMAIN events : events[i].op = "write"
  /\ \A r \in Reloaders :
       /\ work[r].pc \in {"idle", "check", "load", "config", "files", "replace", "rehash"}
       /\ work[r].pc = "load" => disk[Config] \in Readings
       /\ Applying(r) => disk[Config] \in Versions
       /\ work[r].pc = "files" => work[r].found[Config] = disk[Config]
       /\ work[r].pc = "replace" => \A f \in Files : work[r].found[f] = disk[f]
       /\ work[r].pc = "rehash" => known[Config] = disk[Config]
       /\ Applying(r) => config = disk[Config]
  /\ (\E r \in Reloaders : Applying(r)) \/ (known[Config] = config /\ configHash \in {Unset, config})
  /\ watched /\ disk[Config] \in Versions =>
       \/ config = disk[Config]
       \/ events # <<>> \/ timer \/ \E r \in Reloaders : work[r].pc \in {"check", "load"}

\* As long as changes are slow, one file at a time is not settled.
OneBurst ==
  /\ work[Main].pc = "idle" /\ config \in Versions
  /\ \A f \in Files \ {touched} : Settled(f)
  /\ \A i \in DOMAIN events : events[i].file = touched
  /\ IF touched = Config THEN ConfigBurst ELSE AuthBurst(touched)

WatchInv ==
  /\ WatchTypeOK /\ (watched => disk[Config] # Absent)
  /\ pace = "slow" => Starting \/ OneBurst
----------------------------------------------------------------------------
Event == [file : Files, op : {"write", "remove", "rename"}]

LEMMA WhoIsWho ==
  /\ Config \in Files /\ AuthFiles \subseteq Files /\ Config \notin AuthFiles
  /\ \A f \in Files : f # Config => f \in AuthFiles
  /\ Main \in Goroutines /\ Events \in Goroutines /\ Reloaders \subseteq Goroutines
  /\ Main # Events /\ Main \notin Reloaders /\ Events \notin Reloaders
  /\ Absent \notin Versions /\ Empty \notin Versions /\ Broken \notin Versions /\ Unset \notin Versions
  /\ Absent # Empty /\ Absent # Broken /\ Empty # Broken /\ Unset # Broken
  /\ Readings = Versions \cup {Broken}
BY WatchAssumption DEF Files, Goroutines, Readings

LEMMA IdleIsWork == Idle \in Work /\ Idle.pc = "idle" /\ NothingRead \in Found
BY WhoIsWho DEF Idle, Work, Found, NothingRead

\* One goroutine goes on.
WorkOnly(g, pc) ==
  /\ work' \in [Goroutines -> Work]
  /\ work'[g].pc = pc
  /\ \A h \in Goroutines \ {g} : work'[h] = work[h]

LEMMA WorkChanges ==
  ASSUME WatchTypeOK, NEW g \in Goroutines, NEW w \in Work, Becomes(g, w)
  PROVE  WorkOnly(g, w.pc) /\ work'[g] = w
BY DEF WatchTypeOK, Becomes, WorkOnly

LEMMA WorkRests ==
  ASSUME WatchTypeOK, NEW g \in Goroutines, Becomes(g, Idle)
  PROVE  WorkOnly(g, "idle")
BY IdleIsWork, WorkChanges

LEMMA WorkGoesOn ==
  ASSUME WatchTypeOK, NEW g \in Goroutines, NEW pc,
         Becomes(g, [work[g] EXCEPT !.pc = pc]),
         pc \in {"idle", "rescan", "settle", "add", "store", "remove", "check", "load",
                 "config", "files", "replace", "rehash"}
  PROVE  /\ WorkOnly(g, pc)
         /\ work'[g].file = work[g].file /\ work'[g].read = work[g].read
         /\ work'[g].found = work[g].found
<1> DEFINE w == [work[g] EXCEPT !.pc = pc]
<1>1. work[g] \in Work
  BY DEF WatchTypeOK
<1>2. /\ w \in Work /\ w.pc = pc /\ w.file = work[g].file /\ w.read = work[g].read
      /\ w.found = work[g].found
  BY <1>1 DEF Work
<1>3. Becomes(g, w)
  OBVIOUS
<1> HIDE DEF w
<1>4. QED
  BY <1>2, <1>3, WorkChanges

\* A handler begins with a file.
LEMMA WorkStarts ==
  ASSUME WatchTypeOK, NEW g \in Goroutines, NEW pc, NEW f \in Files,
         Becomes(g, [Idle EXCEPT !.pc = pc, !.file = f]), pc \in {"settle", "add"}
  PROVE  WorkOnly(g, pc) /\ work'[g].file = f
<1> DEFINE w == [Idle EXCEPT !.pc = pc, !.file = f]
<1>1. w \in Work /\ w.pc = pc /\ w.file = f
  BY IdleIsWork DEF Work
<1>2. Becomes(g, w)
  OBVIOUS
<1> HIDE DEF w
<1>3. QED
  BY <1>1, <1>2, WorkChanges

\* What is left of the events when one is taken, and when one is added.
LEMMA EventTaken ==
  ASSUME WatchTypeOK, TakeEvent
  PROVE  /\ events' \in Seq(Event)
         /\ Head(events) = events[1] /\ events[1] \in Event /\ 1 \in DOMAIN events
         /\ \A i \in DOMAIN events' : i + 1 \in DOMAIN events /\ i + 1 # 1 /\ events'[i] = events[i + 1]
         /\ \A i \in DOMAIN events : i # 1 => i - 1 \in DOMAIN events' /\ events'[i - 1] = events[i]
<1>1. events \in Seq(Event) /\ events # <<>> /\ events' = Tail(events)
  BY DEF WatchTypeOK, TakeEvent, Event
<1>2. QED
  BY <1>1

LEMMA EventAdded ==
  ASSUME WatchTypeOK, NEW e \in Event, events' = Append(events, e)
  PROVE  /\ events' \in Seq(Event) /\ events' # <<>>
         /\ \A i \in DOMAIN events : i \in DOMAIN events' /\ events'[i] = events[i]
         /\ Len(events) + 1 \in DOMAIN events' /\ events'[Len(events) + 1] = e
         /\ \A i \in DOMAIN events' : i \in DOMAIN events \/ (i = Len(events) + 1 /\ events'[i] = e)
<1>1. events \in Seq(Event)
  BY DEF WatchTypeOK, Event
<1>2. QED
  BY <1>1
----------------------------------------------------------------------------
LEMMA InitWatch == WatchInit => WatchInv
<1> SUFFICES ASSUME WatchInit PROVE WatchInv
  OBVIOUS
<1> USE WhoIsWho
<1>1. work \in [Goroutines -> Work] /\ work[Main].pc = "rescan"
      /\ \A g \in Goroutines \ {Main} : work[g].pc = "idle"
  <2> DEFINE w == [Idle EXCEPT !.pc = "rescan"]
  <2>1. w \in Work /\ w.pc = "rescan"
    BY IdleIsWork DEF Work
  <2>2. work = [g \in Goroutines |-> IF g = Main THEN w ELSE Idle]
    BY DEF WatchInit
  <2> HIDE DEF w
  <2>3. QED
    BY <2>1, <2>2, IdleIsWork
<1>2. WatchTypeOK
  <2>1. /\ disk \in [Files -> Readings \cup {Absent, Empty}] /\ config \in Versions
        /\ watched \in BOOLEAN
    BY DEF WatchInit
  <2>2. hashes \in [AuthFiles -> Readings \cup {Unset}] /\ known \in Found
    BY IdleIsWork DEF WatchInit
  <2>3. changes \in 0..ChangeLimit
    BY WatchAssumption DEF WatchInit
  <2>4. events \in Seq([file : Files, op : {"write", "remove", "rename"}])
    BY DEF WatchInit
  <2>5. configHash \in Readings \cup {Unset} /\ removedAt \subseteq AuthFiles /\ timer \in BOOLEAN
    BY DEF WatchInit
  <2>6. pace \in {"slow", "quick", "hasty"} /\ touched \in Files
    BY DEF WatchInit
  <2>7. QED
    BY <1>1, <2>1, <2>2, <2>3, <2>4, <2>5, <2>6 DEF WatchTypeOK
<1>3. Starting
  <2>1. \A f \in Files : ~CutShort(f)
    BY DEF WatchInit, CutShort
  <2>2. QED
    BY <1>1, <2>1 DEF WatchInit, Starting
<1>4. QED
  BY <1>2, <1>3 DEF WatchInit, WatchInv
----------------------------------------------------------------------------
\* What is known when nothing is under way.
KnownAtRest ==
  /\ \A g \in Files : ~CutShort(g) => Settled(g)
  /\ \A g \in AuthFiles : IF hashes[g] = Unset THEN known[g] = Absent ELSE known[g] = hashes[g]
  /\ configHash \in {Unset, config} /\ known[Config] = config /\ config \in Versions

LEMMA RestFacts == WatchInv /\ pace = "slow" /\ AtRest => OneBurst /\ KnownAtRest
<1> SUFFICES ASSUME WatchInv, pace = "slow", AtRest PROVE OneBurst /\ KnownAtRest
  OBVIOUS
<1> USE WhoIsWho
<1>1. /\ WatchTypeOK /\ events = <<>> /\ ~timer /\ \A g \in Goroutines : work[g].pc = "idle"
      /\ touched \in Files
  BY DEF WatchInv, WatchTypeOK, AtRest
<1>2. OneBurst
  BY <1>1 DEF WatchInv, Starting
<1>3. ~WritePending
  BY <1>1 DEF WritePending
<1>4. \A g \in Files \ {touched} : Settled(g)
  BY <1>2 DEF OneBurst
<1>5. /\ \A g \in AuthFiles : known[g] \in Versions \cup {Absent}
      /\ \A g \in Files : disk[g] \in Readings \cup {Absent, Empty}
      /\ \A g \in Files : ~CutShort(g) => disk[g] \in Versions \cup {Absent}
  BY <1>1 DEF WatchTypeOK, Found, CutShort
<1>6. CASE touched = Config
  <2>1. ConfigBurst
    BY <1>2, <1>6 DEF OneBurst
  <2>2. known[Config] = config /\ configHash \in {Unset, config}
        /\ (watched /\ disk[Config] \in Versions => config = disk[Config])
    BY <1>1, <2>1 DEF ConfigBurst, Applying
  <2>3. ~CutShort(Config) => Settled(Config)
    BY <1>5, <2>2 DEF Settled, WatchInv
  <2>4. QED
    BY <1>2, <1>4, <1>5, <1>6, <2>2, <2>3 DEF KnownAtRest, Settled, HashRight, OneBurst
<1>7. CASE touched # Config
  <2>1. AuthBurst(touched) /\ touched \in AuthFiles
    BY <1>1, <1>2, <1>7 DEF OneBurst
  <2>2. /\ AuthGoesWithHash(touched) /\ configHash \in {Unset, config}
        /\ hashes[touched] = Unset => known[touched] = Absent
        /\ CutShort(touched) \/ HashRight(touched)
    BY <1>1, <1>3, <2>1 DEF AuthBurst
  <2>3. ~CutShort(touched) => Settled(touched)
    BY <1>5, <1>7, <2>1, <2>2 DEF Settled, HashRight, AuthGoesWithHash
  <2>4. QED
    BY <1>2, <1>4, <1>5, <1>7, <2>1, <2>2, <2>3
    DEF KnownAtRest, Settled, HashRight, AuthGoesWithHash, OneBurst
<1>8. QED
  BY <1>6, <1>7

LEMMA ChangeKeepsWatch ==
  ASSUME WatchInv, NEW f \in Files, NEW content \in Readings \cup {Absent, Empty},
         NEW op \in {"write", "remove", "rename"}, Change(f, content, op),
         IF op = "write" THEN content # Absent ELSE content \notin {Empty, Broken},
         op = "rename" => f = Config
  PROVE  WatchInv'
<1> USE WhoIsWho
<1> DEFINE e == [file |-> f, op |-> op]
<1>1. /\ WatchTypeOK /\ e \in Event /\ e.file = f /\ e.op = op
      /\ touched' = f /\ pace' = PaceOf(f, content, op)
      /\ disk' = [disk EXCEPT ![f] = content]
      /\ watched' = (watched /\ (f = Config => op = "write"))
      /\ changes < ChangeLimit /\ changes' = changes + 1
      /\ UNCHANGED <<hashes, config, configHash, known, removedAt, timer, work>>
  BY DEF WatchInv, Change, Event
<1>0. /\ f = Config /\ ~watched => events' = events
      /\ ~(f = Config /\ ~watched) => events' = Append(events, e)
  BY DEF Change
<1> HIDE DEF e
<1>2. /\ disk' \in [Files -> Readings \cup {Absent, Empty}]
      /\ disk'[f] = content /\ \A g \in Files \ {f} : disk'[g] = disk[g]
  BY <1>1 DEF WatchTypeOK
<1>3. ~(f = Config /\ ~watched) =>
        /\ events' \in Seq(Event) /\ events' # <<>>
        /\ \A i \in DOMAIN events : i \in DOMAIN events' /\ events'[i] = events[i]
        /\ Len(events) + 1 \in DOMAIN events' /\ events'[Len(events) + 1] = e
        /\ \A i \in DOMAIN events' : i \in DOMAIN events \/ (i = Len(events) + 1 /\ events'[i] = e)
  BY <1>0, <1>1, EventAdded
<1>4. changes' \in 0..ChangeLimit
  BY <1>1, WatchAssumption DEF WatchTypeOK
<1>5. pace' \in {"slow", "quick", "hasty"}
  BY <1>1 DEF PaceOf, WatchTypeOK
<1>6. WatchTypeOK'
  <2>1. events' \in Seq(Event) /\ watched' \in BOOLEAN
    BY <1>0, <1>1, <1>3 DEF WatchTypeOK, Event
  <2> QED
    BY <1>1, <1>2, <1>4, <1>5, <2>1 DEF WatchTypeOK, Event
<1>7. watched' => disk'[Config] # Absent
  BY <1>1, <1>2 DEF WatchInv
<1>10. \A g \in Files \ {f} : CutShort(g)' <=> CutShort(g)
  BY <1>2 DEF CutShort
<1>8. ASSUME pace' = "slow" PROVE OneBurst'
  <2>1. /\ pace = "slow"
        /\ \/ Completes(f, content, op)
           \/ AtRest /\ f \notin removedAt /\ \A g \in Files \ {f} : ~CutShort(g)
    BY <1>1, <1>8 DEF PaceOf
  <2>2. CASE Completes(f, content, op)
    <3>1. /\ touched = f /\ op = "write" /\ content # Absent /\ disk[f] \notin Versions
          /\ disk[f] \in Readings => content \in Readings
      BY <2>2 DEF Completes
    <3>0. disk[f] \in {Absent, Empty, Broken}
      BY <2>2 DEF Completes
    <3>2. OneBurst
      BY <2>1, <3>0, <3>1 DEF WatchInv, Starting, CutShort
    <3>3. \A g \in Files \ {f} : Settled(g)'
      BY <1>1, <1>2, <1>10, <3>1, <3>2 DEF OneBurst, Settled, HashRight
    <3>4. \A i \in DOMAIN events' : events'[i].file = f
      BY <1>0, <1>1, <1>3, <3>1, <3>2 DEF OneBurst
    <3>5. ASSUME f = Config PROVE ConfigBurst'
      <4>1. ConfigBurst /\ disk[Config] \notin Versions
        BY <3>1, <3>2, <3>5 DEF OneBurst
      <4>2. watched' => \A i \in DOMAIN events' : events'[i].op = "write"
        BY <1>0, <1>1, <1>3, <3>1, <4>1 DEF ConfigBurst
      <4>3. /\ \A r \in Reloaders : work[r].pc \in {"idle", "check", "load"}
            /\ \A r \in Reloaders : work[r].pc = "load" => disk'[Config] \in Readings
        BY <1>2, <3>1, <3>5, <4>1 DEF ConfigBurst, Applying
      <4>5. watched' => events' # <<>>
        BY <1>1, <1>3
      <4>4. QED
        BY <1>1, <4>1, <4>2, <4>3, <4>5 DEF ConfigBurst, Applying
    <3>6. ASSUME f # Config PROVE AuthBurst(f)'
      <4>1. AuthBurst(f) /\ disk[f] \notin Versions
        BY <3>1, <3>2, <3>6 DEF OneBurst
      <4>2. WritePending'
        BY <1>1, <1>3, <3>1, <3>6 DEF WritePending
      <4>3. RemovePending' <=> RemovePending
        BY <1>1, <1>3, <3>1, <3>6 DEF RemovePending
      <4>4. \A i \in DOMAIN events' : events'[i].op = "remove" => i = 1 /\ f \notin removedAt
        BY <1>1, <1>3, <3>1, <3>6, <4>1 DEF AuthBurst
      <4>5. work[Events].pc = "replace" =>
              \A g \in AuthFiles \ {f} : work[Events].found[g] = disk'[g]
        BY <1>2, <4>1 DEF AuthBurst
      <4>6. work[Events].pc = "replace" => work[Events].found \in Found
        BY <1>1 DEF WatchTypeOK, Work
      <4>7. work[Events].pc \in {"config", "files", "replace"} => Dropped(f)' /\ Dropped(f)
        BY <1>1, <4>1, <4>2 DEF AuthBurst, HashRead, Dropped
      <4>8. work[Events].pc = "replace" => work[Events].found[f] = Absent
        <5> SUFFICES ASSUME work[Events].pc = "replace" PROVE work[Events].found[f] = Absent
          OBVIOUS
        <5>1. work[Events].found[f] \in Versions \cup {Absent}
          BY <3>6, <4>6 DEF Found
        <5>2. work[Events].found[f] = disk[f] \/ work[Events].found[f] = Absent
          BY <4>1 DEF AuthBurst
        <5>3. QED
          BY <4>1, <5>1, <5>2
      <4>9. work[Events].pc \in {"idle", "settle", "add", "store"} => AuthGoesWithHash(f)'
        BY <1>1, <1>2, <4>1 DEF AuthBurst, AuthGoesWithHash
      <4>10. QED
        BY <1>1, <1>2, <1>3, <3>1, <3>6, <4>1, <4>2, <4>3, <4>4, <4>5, <4>7, <4>8, <4>9
        DEF AuthBurst
    <3>7. QED
      BY <1>1, <3>2, <3>3, <3>4, <3>5, <3>6 DEF OneBurst
  <2>3. CASE AtRest /\ f \notin removedAt /\ \A g \in Files \ {f} : ~CutShort(g)
    <3>1. OneBurst /\ KnownAtRest
      BY <2>1, <2>3, RestFacts
    <3>2. events = <<>> /\ ~timer /\ \A g \in Goroutines : work[g].pc = "idle"
      BY <2>3 DEF AtRest
    <3>3. \A g \in Files \ {f} : Settled(g)'
      BY <1>1, <1>2, <1>10, <2>3, <3>1 DEF KnownAtRest, Settled, HashRight
    <3>4. ~(f = Config /\ ~watched) => DOMAIN events' = {1} /\ events'[1] = e
      BY <1>0, <1>1, <3>2
    <3>8. f = Config /\ ~watched => events' = <<>> /\ ~watched'
      BY <1>0, <1>1, <3>2
    <3>5. ASSUME f = Config PROVE ConfigBurst'
      <4>1. watched' => op = "write" /\ events' # <<>> /\ \A i \in DOMAIN events' : events'[i].op = "write"
        BY <1>1, <1>3, <3>4, <3>5, <3>8
      <4> QED
        BY <1>1, <3>1, <3>2, <4>1 DEF KnownAtRest, ConfigBurst, Applying
    <3>6. ASSUME f # Config PROVE AuthBurst(f)'
      <4>1. WritePending' <=> op = "write"
        BY <1>1, <3>4, <3>6 DEF WritePending
      <4>2. AuthGoesWithHash(f)' /\ (hashes[f] = Unset => known[f] = Absent)
        BY <1>1, <3>1, <3>6 DEF KnownAtRest, AuthGoesWithHash
      <4>3. QED
        BY <1>1, <1>2, <1>3, <2>3, <3>1, <3>2, <3>4, <3>6, <4>1, <4>2 DEF AuthBurst, KnownAtRest
    <3>9. \A i \in DOMAIN events' : events'[i].file = f
      BY <1>1, <3>4, <3>8
    <3>7. QED
      BY <1>1, <3>1, <3>2, <3>3, <3>5, <3>6, <3>9 DEF OneBurst
  <2>4. QED
    BY <2>1, <2>2, <2>3
<1>9. QED
  BY <1>6, <1>7, <1>8 DEF WatchInv

\* An event of a slow change is one of the file that changed.
LEMMA EventFacts ==
  ASSUME WatchInv, TakeEvent, pace = "slow"
  PROVE  OneBurst /\ events[1].file = touched
<1>1. ~Starting
  BY DEF TakeEvent, Starting
<1>2. QED
  BY <1>1, EventTaken DEF WatchInv, OneBurst

\* What a step of the event loop for the auth file f has to be shown to keep:
\* the rest goes unnoticed.
LEMMA EventKept ==
  ASSUME WatchInv, UNCHANGED <<disk, watched, config, configHash, known, timer, changes, pace, touched>>,
         NEW pc, WorkOnly(Events, pc), events' \in Seq(Event), removedAt' \subseteq AuthFiles,
         hashes' \in [AuthFiles -> Readings \cup {Unset}],
         \A i \in DOMAIN events' : \E j \in DOMAIN events : events'[i] = events[j],
         pace = "slow" => \A f \in AuthFiles \ {touched} : hashes'[f] = hashes[f],
         pace = "slow" => OneBurst /\ touched # Config,
         pace = "slow" => AuthBurst(touched)'
  PROVE  WatchInv'
<1> USE WhoIsWho
<1>1. WatchTypeOK'
  BY DEF WatchInv, WatchTypeOK, WorkOnly, Event
<1>2. ASSUME pace = "slow" PROVE OneBurst'
  <2>1. OneBurst /\ touched # Config
    BY <1>2
  <2>2. \A f \in Files \ {touched} : Settled(f)'
    BY <1>2, <2>1, WhoIsWho DEF OneBurst, Settled, HashRight, CutShort
  <2>3. work'[Main].pc = "idle" /\ \A i \in DOMAIN events' : events'[i].file = touched
    BY <2>1 DEF OneBurst, WorkOnly
  <2>4. QED
    BY <1>2, <2>1, <2>2, <2>3 DEF OneBurst
<1>3. QED
  BY <1>1, <1>2 DEF WatchInv

LEMMA EventKeepsWatch ==
  ASSUME WatchInv, EventStep
  PROVE  WatchInv'
<1> USE WhoIsWho
<1>1. WatchTypeOK /\ (watched => disk[Config] # Absent)
  BY DEF WatchInv, WatchTypeOK
<1>0. PICK f \in Files : f = touched
  BY <1>1 DEF WatchTypeOK
<1>2. /\ work[Events] \in Work /\ work[Events].file \in Files /\ events \in Seq(Event)
      /\ removedAt \subseteq AuthFiles
      /\ hashes \in [AuthFiles -> Readings \cup {Unset}]
  BY <1>1 DEF WatchTypeOK, Work, Event
<1>3. disk[f] \in Readings \cup {Absent, Empty}
  BY <1>1 DEF WatchTypeOK
<1>4. CASE ConfigEvent
  <2>1. TakeEvent /\ events[1].file = Config /\ timer' = (timer \/ events[1].op # "remove")
        /\ UNCHANGED <<disk, watched, hashes, config, configHash, known, removedAt, work, changes, pace, touched>>
    BY <1>1, <1>4, EventTaken DEF ConfigEvent
  <2>2. events' \in Seq(Event)
        /\ \A i \in DOMAIN events' : \E j \in DOMAIN events : events'[i] = events[j]
    BY <1>1, <2>1, EventTaken
  <2>3. WatchTypeOK'
    BY <1>1, <2>1, <2>2 DEF WatchTypeOK, Event
  <2>4. ASSUME pace = "slow" PROVE OneBurst'
    <3>1. OneBurst /\ touched = Config
      BY <2>1, <2>4, EventFacts
    <3>2. ConfigBurst
      BY <3>1 DEF OneBurst
    <3>3. watched => timer' = TRUE
      BY <1>1, <2>1, <3>2, EventTaken DEF ConfigBurst
    <3>5. ConfigBurst'
      BY <2>1, <2>2, <3>2, <3>3 DEF ConfigBurst, Applying
    <3>4. QED
      BY <2>1, <2>2, <3>1, <3>5 DEF OneBurst, Settled, HashRight, CutShort
  <2>5. QED
    BY <1>1, <2>1, <2>3, <2>4 DEF WatchInv
<1>5. CASE WriteEvent
  <2>1. TakeEvent /\ events[1].file # Config /\ events[1].op = "write" /\ work[Events].pc = "idle"
        /\ UNCHANGED <<disk, watched, hashes, config, configHash, known, removedAt, timer, changes, pace, touched>>
    BY <1>1, <1>5, EventTaken DEF WriteEvent, TakeEvent
  <2>2. events' \in Seq(Event)
        /\ \A i \in DOMAIN events' : i + 1 \in DOMAIN events /\ i + 1 # 1 /\ events'[i] = events[i + 1]
    BY <1>1, <2>1, EventTaken
  <2>3. events[1] \in Event /\ 1 \in DOMAIN events /\ Head(events) = events[1]
    BY <1>1, <2>1, EventTaken
  <2>4. PICK g \in Files : g = events[1].file
    BY <2>3 DEF Event
  <2>5. /\ Unchanged(g) => WorkOnly(Events, "idle")
        /\ ~Unchanged(g) => WorkOnly(Events, "add") /\ work'[Events].file = g
    BY <1>1, <1>5, <2>3, <2>4, WorkRests, WorkStarts DEF WriteEvent
  <2>6. ASSUME pace = "slow" PROVE OneBurst /\ f # Config /\ f = g /\ AuthBurst(f)'
    <3>1. OneBurst /\ f # Config /\ f = g /\ AuthBurst(f)
      BY <2>1, <2>4, <2>6, EventFacts, <1>0 DEF OneBurst
    <3>2. WritePending /\ disk[f] # Absent /\ \A i \in DOMAIN events' : events'[i].op # "remove"
      BY <2>1, <2>2, <2>3, <3>1 DEF WritePending, AuthBurst
    <3>3. ~RemovePending'
      BY <3>2 DEF RemovePending
    <3>4. AuthGoesWithHash(f)
      BY <2>1, <3>1 DEF AuthBurst
    <3>5. \A r \in Reloaders : work'[r] = work[r]
      BY <2>5 DEF WorkOnly
    <3>6. CASE Unchanged(f)
      <4>1. known[f] \in Versions \cup {Absent}
        BY <1>1, <3>1 DEF WatchTypeOK, Found
      <4>2. disk[f] \in Versions /\ hashes[f] = disk[f]
        BY <3>4, <3>6, <4>1 DEF AuthGoesWithHash, Unchanged
      <4> QED
        BY <2>1, <2>5, <3>1, <3>2, <3>3, <3>4, <3>5, <3>6, <4>2
        DEF AuthBurst, AuthGoesWithHash, WorkOnly, HashRight
    <3>7. CASE ~Unchanged(f)
      BY <2>1, <2>5, <3>1, <3>2, <3>3, <3>4, <3>5, <3>7 DEF AuthBurst, AuthGoesWithHash, WorkOnly
    <3>8. QED
      BY <3>1, <3>6, <3>7
  <2>7. \A i \in DOMAIN events' : \E j \in DOMAIN events : events'[i] = events[j]
    BY <2>2
  <2>8. QED
    BY <1>2, <2>1, <2>2, <2>5, <2>6, <2>7, EventKept, <1>0
<1>6. CASE RemoveEvent
  <2>1. TakeEvent /\ events[1].file # Config /\ events[1].op = "remove" /\ work[Events].pc = "idle"
        /\ UNCHANGED <<disk, watched, hashes, config, configHash, known, timer, changes, pace, touched>>
    BY <1>1, <1>6, EventTaken DEF RemoveEvent, TakeEvent
  <2>2. events' \in Seq(Event)
        /\ \A i \in DOMAIN events' : i + 1 \in DOMAIN events /\ i + 1 # 1 /\ events'[i] = events[i + 1]
    BY <1>1, <2>1, EventTaken
  <2>3. events[1] \in Event /\ 1 \in DOMAIN events /\ Head(events) = events[1]
    BY <1>1, <2>1, EventTaken
  <2>4. PICK g \in Files : g = events[1].file
    BY <2>3 DEF Event
  <2>5. /\ g \in removedAt => WorkOnly(Events, "idle")
        /\ g \notin removedAt => WorkOnly(Events, "settle") /\ work'[Events].file = g
        /\ removedAt' = removedAt \cup {g}
    BY <1>1, <1>6, <2>3, <2>4, WorkRests, WorkStarts DEF RemoveEvent
  <2>6. ASSUME pace = "slow" PROVE OneBurst /\ f # Config /\ f = g /\ AuthBurst(f)'
    <3>1. OneBurst /\ f # Config /\ f = g /\ AuthBurst(f)
      BY <2>1, <2>4, <2>6, EventFacts, <1>0 DEF OneBurst
    <3>2. RemovePending /\ f \notin removedAt /\ \A i \in DOMAIN events' : events'[i].op # "remove"
      BY <2>1, <2>2, <2>3, <3>1 DEF RemovePending, AuthBurst
    <3>3. ~RemovePending' /\ (WritePending' => WritePending)
      BY <2>2, <3>2 DEF RemovePending, WritePending
    <3>4. AuthGoesWithHash(f) /\ (hashes[f] = Unset => known[f] = Absent)
      BY <2>1, <3>1, <3>2 DEF AuthBurst
    <3>5. \A r \in Reloaders : work'[r] = work[r]
      BY <2>5 DEF WorkOnly
    <3>6. QED
      BY <2>1, <2>5, <3>1, <3>2, <3>3, <3>4, <3>5 DEF AuthBurst, AuthGoesWithHash, WorkOnly
  <2>7. \A i \in DOMAIN events' : \E j \in DOMAIN events : events'[i] = events[j]
    BY <2>2
  <2>8. removedAt' \subseteq AuthFiles
    BY <1>2, <2>1, <2>4, <2>5
  <2>9. PICK pc : WorkOnly(Events, pc)
    BY <2>5
  <2>10. QED
    BY <1>2, <2>1, <2>2, <2>6, <2>7, <2>8, <2>9, EventKept, <1>0
<1>7. CASE Settle \/ AddRead \/ AddStore \/ RemoveClient
  <2> DEFINE w == work[Events]
  <2>1. /\ w.pc \in {"settle", "add", "store", "remove"}
        /\ UNCHANGED <<disk, watched, events, config, configHash, known, removedAt, timer, changes, pace, touched>>
    BY <1>7 DEF Settle, AddRead, AddStore, RemoveClient, WorkGoes
  <2>2. /\ \A i \in DOMAIN events' : \E j \in DOMAIN events : events'[i] = events[j]
        /\ events' \in Seq(Event) /\ removedAt' \subseteq AuthFiles
        /\ (WritePending' <=> WritePending) /\ (RemovePending' <=> RemovePending)
    BY <1>2, <2>1 DEF WritePending, RemovePending
  <2>3. ASSUME pace = "slow"
        PROVE  OneBurst /\ f # Config /\ f = w.file /\ AuthBurst(f) /\ ~RemovePending /\ f \in AuthFiles
    BY <1>1, <1>0, <2>1, <2>3 DEF WatchInv, OneBurst, ConfigBurst, AuthBurst, Starting
  <2>4. CASE Settle
    <3>1. w.pc = "settle" /\ hashes' = hashes
      BY <2>4 DEF Settle
    <3>2. \/ /\ WorkOnly(Events, "idle")
             /\ Unchanged(w.file) \/ (disk[w.file] = Absent /\ hashes[w.file] = Unset)
          \/ WorkOnly(Events, "add") /\ work'[Events].file = w.file /\ disk[w.file] # Absent
          \/ WorkOnly(Events, "remove") /\ work'[Events].file = w.file /\ disk[w.file] = Absent
      BY <1>1, <2>4, WorkRests, WorkGoesOn DEF Settle
    <3>3. ASSUME pace = "slow" PROVE AuthBurst(f)'
      <4>1. f = w.file /\ AuthBurst(f) /\ ~RemovePending
        BY <2>3, <3>3
      <4>2. AuthGoesWithHash(f) /\ (hashes[f] = Unset => known[f] = Absent)
        BY <3>1, <4>1 DEF AuthBurst
      <4>3. \A r \in Reloaders : work'[r] = work[r]
        BY <3>2 DEF WorkOnly
      <4>5. known[f] \in Versions \cup {Absent}
        BY <1>1, <2>3, <3>3 DEF WatchTypeOK, Found
      <4>6. Unchanged(f) => disk[f] \in Versions /\ hashes[f] = disk[f]
        BY <4>2, <4>5 DEF AuthGoesWithHash, Unchanged
      <4>4. QED
        BY <1>3, <2>1, <2>2, <3>1, <3>2, <4>1, <4>2, <4>3, <4>6
        DEF AuthBurst, AuthGoesWithHash, WorkOnly, HashRight
    <3>4. PICK pc : WorkOnly(Events, pc)
      BY <3>2
    <3>5. QED
      BY <1>2, <2>1, <2>2, <2>3, <3>1, <3>3, <3>4, EventKept, <1>0
  <2>5. CASE AddRead
    <3>1. w.pc = "add" /\ hashes' = hashes
      BY <2>5 DEF AddRead
    <3>2. \/ WorkOnly(Events, "idle") /\ disk[w.file] \notin Versions
          \/ /\ WorkOnly(Events, "store") /\ disk[w.file] \in Versions
             /\ work'[Events].file = w.file /\ work'[Events].read = disk[w.file]
      <4>1. CASE disk[w.file] \notin Versions
        BY <1>1, <2>5, <4>1, WorkRests DEF AddRead
      <4>2. CASE disk[w.file] \in Versions
        <5> DEFINE v == [w EXCEPT !.pc = "store", !.read = disk[w.file]]
        <5>1. v \in Work /\ v.pc = "store" /\ v.file = w.file /\ v.read = disk[w.file]
          BY <1>2, <4>2 DEF Work
        <5>2. Becomes(Events, v)
          BY <2>5, <4>2 DEF AddRead
        <5> HIDE DEF v, w
        <5>3. QED
          BY <1>1, <4>2, <5>1, <5>2, WorkChanges
      <4>3. QED
        BY <4>1, <4>2
    <3>3. ASSUME pace = "slow" PROVE AuthBurst(f)'
      <4>1. f = w.file /\ AuthBurst(f) /\ ~RemovePending
        BY <2>3, <3>3
      <4>2. AuthGoesWithHash(f) /\ disk[f] # Absent
        BY <3>1, <4>1 DEF AuthBurst
      <4>3. \A r \in Reloaders : work'[r] = work[r]
        BY <3>2 DEF WorkOnly
      <4>5. known[f] \in Versions \cup {Absent}
        BY <1>1, <2>3, <3>3 DEF WatchTypeOK, Found
      <4>6. disk[f] \notin Versions => CutShort(f)
        BY <1>3, <2>3, <3>3, <4>2 DEF CutShort
      <4>4. QED
        BY <1>3, <2>1, <2>2, <3>1, <3>2, <4>1, <4>2, <4>3, <4>6
        DEF AuthBurst, AuthGoesWithHash, WorkOnly, HashRight, CutShort
    <3>4. PICK pc : WorkOnly(Events, pc)
      BY <3>2
    <3>5. QED
      BY <1>2, <2>1, <2>2, <2>3, <3>1, <3>3, <3>4, EventKept, <1>0
  <2>6. CASE AddStore
    <3>1. w.pc = "store" /\ hashes' = [hashes EXCEPT ![w.file] = w.read]
      BY <2>6 DEF AddStore
    <3>2. \/ WorkOnly(Events, "idle") /\ hashes[w.file] = w.read
          \/ WorkOnly(Events, "config") /\ hashes[w.file] # w.read
      <4> DEFINE v == [Idle EXCEPT !.pc = "config"]
      <4>1. v \in Work /\ v.pc = "config"
        BY IdleIsWork DEF Work
      <4>2. Becomes(Events, IF hashes[w.file] = w.read THEN Idle ELSE v)
        BY <2>6 DEF AddStore
      <4> HIDE DEF v
      <4>3. QED
        BY <1>1, <4>1, <4>2, WorkRests, WorkChanges
    <3>3. hashes' \in [AuthFiles -> Readings \cup {Unset}]
      BY <1>2, <3>1 DEF Work
    <3>4. ASSUME pace = "slow"
          PROVE  AuthBurst(f)' /\ \A g \in AuthFiles \ {f} : hashes'[g] = hashes[g]
      <4>1. f = w.file /\ f \in AuthFiles /\ AuthBurst(f) /\ ~RemovePending
        BY <2>3, <3>4
      <4>2. AuthGoesWithHash(f) /\ disk[f] \in Versions /\ w.read = disk[f]
        BY <3>1, <4>1 DEF AuthBurst
      <4>3. \A r \in Reloaders : work'[r] = work[r]
        BY <3>2 DEF WorkOnly
      <4>4. hashes'[f] = disk[f] /\ \A g \in AuthFiles \ {f} : hashes'[g] = hashes[g]
        BY <1>2, <3>1, <4>1, <4>2
      <4>5. QED
        BY <2>1, <2>2, <3>2, <4>1, <4>2, <4>3, <4>4
        DEF AuthBurst, AuthGoesWithHash, WorkOnly, HashRight, HashRead
    <3>5. PICK pc : WorkOnly(Events, pc)
      BY <3>2
    <3>6. QED
      BY <1>1, <2>1, <2>2, <2>3, <3>3, <3>4, <3>5, EventKept, <1>0
  <2>7. CASE RemoveClient
    <3>1. w.pc = "remove" /\ hashes' = [hashes EXCEPT ![w.file] = Unset]
      BY <2>7 DEF RemoveClient, WorkGoes
    <3>2. WorkOnly(Events, "config")
      BY <1>1, <2>7, WorkGoesOn DEF RemoveClient, WorkGoes
    <3>3. hashes' \in [AuthFiles -> Readings \cup {Unset}]
      BY <1>2, <3>1
    <3>4. ASSUME pace = "slow"
          PROVE  AuthBurst(f)' /\ \A g \in AuthFiles \ {f} : hashes'[g] = hashes[g]
      <4>1. f = w.file /\ f \in AuthFiles /\ AuthBurst(f) /\ ~RemovePending
        BY <2>3, <3>4
      <4>2. disk[f] # Absent => WritePending
        BY <3>1, <4>1 DEF AuthBurst
      <4>3. \A r \in Reloaders : work'[r] = work[r]
        BY <3>2 DEF WorkOnly
      <4>4. hashes'[f] = Unset /\ \A g \in AuthFiles \ {f} : hashes'[g] = hashes[g]
        BY <1>2, <3>1, <4>1
      <4>5. QED
        BY <2>1, <2>2, <3>2, <4>1, <4>2, <4>3, <4>4
        DEF AuthBurst, AuthGoesWithHash, WorkOnly, Dropped
    <3>5. QED
      BY <1>1, <2>1, <2>2, <2>3, <3>2, <3>3, <3>4, EventKept, <1>0
  <2>8. QED
    BY <1>7, <2>4, <2>5, <2>6, <2>7
<1>8. QED
  BY <1>4, <1>5, <1>6, <1>7 DEF EventStep
----------------------------------------------------------------------------
\* The three parts of refreshAuthState, whoever runs them.
LEMMA SnapshotFacts ==
  ASSUME WatchTypeOK, NEW g \in Goroutines
  PROVE  /\ SnapshotConfig(g) => WorkOnly(g, "files") /\ work'[g].found[Config] = config
         /\ SnapshotFiles(g) =>
              /\ WorkOnly(g, "replace")
              /\ \A f \in Files :
                   work'[g].found[f] = IF f = Config THEN work[g].found[f] ELSE Readable(f)
         /\ ReplaceKnown(g) =>
              /\ WorkOnly(g, IF g \in Reloaders THEN "rehash" ELSE "idle")
              /\ known' = work[g].found /\ known' \in Found
<1> USE WhoIsWho
<1>1. work[g] \in Work /\ work[g].found \in Found /\ config \in Versions \cup {Empty}
  BY DEF WatchTypeOK, Work
<1>2. \A f \in Files : Readable(f) \in Versions \cup {Absent}
  BY DEF Readable
<1>3. ASSUME SnapshotConfig(g)
      PROVE  WorkOnly(g, "files") /\ work'[g].found[Config] = config
  <2> DEFINE found == [NothingRead EXCEPT ![Config] = config]
             w == [work[g] EXCEPT !.pc = "files", !.found = found]
  <2>1. found \in Found /\ found[Config] = config
    BY <1>1, IdleIsWork DEF Found
  <2> HIDE DEF found
  <2>2. w \in Work /\ w.pc = "files" /\ w.found = found
    BY <1>1, <2>1 DEF Work
  <2>3. Becomes(g, w)
    BY <1>3 DEF SnapshotConfig, found
  <2> HIDE DEF w
  <2>4. QED
    BY <2>1, <2>2, <2>3, WorkChanges
<1>4. ASSUME SnapshotFiles(g)
      PROVE  /\ WorkOnly(g, "replace")
             /\ \A f \in Files :
                  work'[g].found[f] = IF f = Config THEN work[g].found[f] ELSE Readable(f)
  <2> DEFINE found == [f \in Files |-> IF f = Config THEN work[g].found[f] ELSE Readable(f)]
             w == [work[g] EXCEPT !.pc = "replace", !.found = found]
  <2>1. found \in Found
    BY <1>1, <1>2 DEF Found
  <2>2. Becomes(g, w)
    BY <1>1, <1>4 DEF SnapshotFiles, Becomes, Work
  <2>3. \A f \in Files : found[f] = IF f = Config THEN work[g].found[f] ELSE Readable(f)
    OBVIOUS
  <2> HIDE DEF found
  <2>4. w \in Work /\ w.pc = "replace" /\ w.found = found
    BY <1>1, <2>1 DEF Work
  <2> HIDE DEF w
  <2>5. WorkOnly(g, "replace") /\ work'[g].found = found
    BY <2>2, <2>4, WorkChanges
  <2>6. QED
    BY <2>3, <2>5
<1>5. ASSUME ReplaceKnown(g)
      PROVE  /\ WorkOnly(g, IF g \in Reloaders THEN "rehash" ELSE "idle")
             /\ known' = work[g].found /\ known' \in Found
  <2> DEFINE w == [work[g] EXCEPT !.pc = "rehash", !.found = NothingRead]
  <2>1. w \in Work /\ w.pc = "rehash"
    BY <1>1, IdleIsWork DEF Work
  <2>2. Becomes(g, IF g \in Reloaders THEN w ELSE Idle) /\ known' = work[g].found
    BY <1>5 DEF ReplaceKnown
  <2> HIDE DEF w
  <2>3. QED
    BY <1>1, <2>1, <2>2, WorkChanges, WorkRests
<1>6. QED
  BY <1>3, <1>4, <1>5

LEMMA MainKeepsWatch ==
  ASSUME WatchInv, Rescan(Main) \/ RefreshAuthState(Main)
  PROVE  WatchInv'
<1> USE WhoIsWho
<1>1. /\ WatchTypeOK /\ (watched => disk[Config] # Absent)
      /\ work[Main].pc \in {"rescan", "config", "files", "replace"}
      /\ UNCHANGED <<disk, watched, events, config, configHash, removedAt, timer, changes, pace, touched>>
  BY DEF WatchInv, Rescan, RefreshAuthState, SnapshotConfig, SnapshotFiles, ReplaceKnown, WorkGoes
<1>2. pace = "slow" => Starting
  BY <1>1 DEF WatchInv, OneBurst
<1>3. \A f \in Files : disk[f] \in Readings \cup {Absent, Empty}
  BY <1>1 DEF WatchTypeOK
<1>4. CASE Rescan(Main)
  <2>1. WorkOnly(Main, "config") /\ known' = known
    BY <1>1, <1>4, WorkGoesOn DEF Rescan, WorkGoes
  <2>2. hashes' = [f \in AuthFiles |->
                     IF config # Empty /\ disk[f] \in Readings THEN disk[f] ELSE Unset]
    BY <1>4 DEF Rescan
  <2>3. WatchTypeOK'
    BY <1>1, <2>1, <2>2 DEF WatchTypeOK, WorkOnly
  <2>4. ASSUME Starting PROVE Starting'
    <3>1. config # Empty /\ \A f \in AuthFiles : ~(disk[f] = Broken)
      BY <1>3, <2>4 DEF Starting, CutShort
    <3>2. \A f \in AuthFiles : HashRight(f)'
      BY <1>1, <2>2, <3>1 DEF HashRight
    <3> QED
      BY <1>1, <2>1, <2>4, <3>2 DEF Starting, WorkOnly, CutShort
  <2>5. QED
    BY <1>1, <1>2, <2>3, <2>4 DEF WatchInv
<1>5. CASE SnapshotConfig(Main) \/ SnapshotFiles(Main)
  <2>1. UNCHANGED <<hashes, known>>
    BY <1>5 DEF SnapshotConfig, SnapshotFiles
  <2>2. PICK pc \in {"files", "replace"} : WorkOnly(Main, pc)
    BY <1>1, <1>5, SnapshotFacts
  <2>3. WatchTypeOK'
    BY <1>1, <2>1, <2>2 DEF WatchTypeOK, WorkOnly
  <2>4. ASSUME Starting PROVE Starting'
    <3>1. CASE SnapshotConfig(Main)
      <4>1. WorkOnly(Main, "files") /\ work'[Main].found[Config] = config /\ work[Main].pc = "config"
        BY <1>1, <3>1, SnapshotFacts DEF SnapshotConfig
      <4>2. QED
        BY <1>1, <2>1, <2>4, <4>1 DEF Starting, WorkOnly, HashRight, CutShort
    <3>2. CASE SnapshotFiles(Main)
      <4>1. /\ WorkOnly(Main, "replace") /\ work[Main].pc = "files"
            /\ \A f \in Files :
                 work'[Main].found[f] = IF f = Config THEN work[Main].found[f] ELSE Readable(f)
        BY <1>1, <3>2, SnapshotFacts DEF SnapshotFiles
      <4>2. \A f \in Files : work'[Main].found[f] = disk[f]
        BY <1>3, <2>4, <4>1 DEF Starting, Readable, CutShort
      <4>3. QED
        BY <1>1, <2>1, <2>4, <4>1, <4>2 DEF Starting, WorkOnly, HashRight, CutShort
    <3>3. QED
      BY <1>5, <3>1, <3>2
  <2>5. QED
    BY <1>1, <1>2, <2>3, <2>4 DEF WatchInv
<1>6. CASE ReplaceKnown(Main)
  <2>1. /\ WorkOnly(Main, "idle") /\ known' = work[Main].found /\ known' \in Found
        /\ work[Main].pc = "replace" /\ hashes' = hashes
    BY <1>1, <1>6, SnapshotFacts DEF ReplaceKnown
  <2>2. WatchTypeOK'
    BY <1>1, <2>1 DEF WatchTypeOK, WorkOnly
  <2>3. ASSUME Starting PROVE OneBurst'
    <3>1. \A f \in Files : known'[f] = disk'[f] /\ ~CutShort(f)' /\ (f # Config => HashRight(f)')
      BY <1>1, <2>1, <2>3 DEF Starting, HashRight, CutShort
    <3>2. \A g \in Goroutines : work'[g].pc = "idle"
      BY <2>1, <2>3 DEF Starting, WorkOnly
    <3>3. ConfigBurst'
      BY <1>1, <2>3, <3>1, <3>2 DEF Starting, ConfigBurst, Applying
    <3>5. config' \in Versions
      BY <1>1, <1>3, <2>3 DEF Starting, CutShort
    <3>4. QED
      BY <1>1, <2>3, <3>1, <3>2, <3>3, <3>5 DEF Starting, OneBurst, Settled
  <2>4. QED
    BY <1>1, <1>2, <2>2, <2>3 DEF WatchInv
<1>7. QED
  BY <1>4, <1>5, <1>6 DEF RefreshAuthState

LEMMA EventRefreshKeepsWatch ==
  ASSUME WatchInv, RefreshAuthState(Events)
  PROVE  WatchInv'
<1> USE WhoIsWho
<1>1. /\ WatchTypeOK /\ (watched => disk[Config] # Absent)
      /\ work[Events].pc \in {"config", "files", "replace"}
      /\ UNCHANGED <<disk, watched, events, hashes, config, configHash, removedAt, timer, changes, pace, touched>>
  BY DEF WatchInv, RefreshAuthState, SnapshotConfig, SnapshotFiles, ReplaceKnown
<1>2. PICK f \in Files : f = touched
  BY <1>1 DEF WatchTypeOK
<1>3. /\ \A g \in Files : disk[g] \in Readings \cup {Absent, Empty}
      /\ work[Events].found \in Found
  BY <1>1 DEF WatchTypeOK, Work
<1>4. PICK pc \in {"files", "replace", "idle"} : WorkOnly(Events, pc)
  BY <1>1, SnapshotFacts DEF RefreshAuthState
<1>5. known' \in Found
  BY <1>1, SnapshotFacts DEF RefreshAuthState, SnapshotConfig, SnapshotFiles, WatchTypeOK
<1>6. WatchTypeOK'
  BY <1>1, <1>4, <1>5 DEF WatchTypeOK, WorkOnly
<1>7. ASSUME pace = "slow" PROVE OneBurst'
  <2> DEFINE w == work[Events]
             u == work'[Events]
  <2>1. OneBurst /\ f # Config /\ f \in AuthFiles /\ AuthBurst(f) /\ ~RemovePending
        /\ (HashRead(f) \/ Dropped(f))
    BY <1>1, <1>2, <1>7 DEF WatchInv, Starting, OneBurst, ConfigBurst, AuthBurst
  <2>2. /\ (WritePending' <=> WritePending) /\ (RemovePending' <=> RemovePending)
        /\ (HashRead(f)' <=> HashRead(f)) /\ (Dropped(f)' <=> Dropped(f))
        /\ \A r \in Reloaders : work'[r] = work[r]
    BY <1>1, <1>4 DEF WritePending, RemovePending, HashRead, Dropped, WorkOnly
  <2>3. \A g \in Files \ {f} : Settled(g)
    BY <1>2, <2>1 DEF OneBurst
  <2>4. CASE SnapshotConfig(Events)
    <3>1. /\ WorkOnly(Events, "files") /\ u.found[Config] = config /\ known' = known
      BY <1>1, <2>4, SnapshotFacts DEF SnapshotConfig
    <3>2. AuthBurst(f)'
      BY <1>1, <2>1, <2>2, <3>1 DEF AuthBurst, WorkOnly
    <3>3. QED
      BY <1>1, <1>2, <2>1, <2>3, <3>1, <3>2 DEF OneBurst, Settled, HashRight, WorkOnly, CutShort
  <2>5. CASE SnapshotFiles(Events)
    <3>1. /\ WorkOnly(Events, "replace") /\ known' = known /\ w.pc = "files"
          /\ \A g \in Files : u.found[g] = IF g = Config THEN w.found[g] ELSE Readable(g)
      BY <1>1, <2>5, SnapshotFacts DEF SnapshotFiles
    <3>2. u.found[Config] = config /\ \A g \in AuthFiles \ {f} : u.found[g] = disk[g]
      <4>1. w.found[Config] = config
        BY <2>1, <3>1 DEF AuthBurst
      <4>2. QED
        BY <1>3, <2>1, <2>3, <3>1, <4>1 DEF Settled, Readable, CutShort
    <3>3. /\ u.found[f] = IF disk[f] \in Versions THEN disk[f] ELSE Absent
      BY <2>1, <3>1 DEF Readable
    <3>4. /\ u.found[f] = disk[f] \/ (Dropped(f) /\ u.found[f] = Absent)
          /\ u.found[f] \in Versions \/ hashes[f] = Unset
      BY <1>3, <2>1, <3>3 DEF HashRead, Dropped
    <3>5. AuthBurst(f)'
      BY <1>1, <2>1, <2>2, <3>1, <3>2, <3>4 DEF AuthBurst, WorkOnly
    <3>6. QED
      BY <1>1, <1>2, <2>1, <2>3, <3>1, <3>5 DEF OneBurst, Settled, HashRight, WorkOnly, CutShort
  <2>6. CASE ReplaceKnown(Events)
    <3>1. WorkOnly(Events, "idle") /\ known' = w.found /\ w.pc = "replace"
      BY <1>1, <2>6, SnapshotFacts DEF ReplaceKnown
    <3>2. /\ known'[Config] = config /\ \A g \in AuthFiles \ {f} : known'[g] = disk[g]
          /\ known'[f] = disk[f] \/ (Dropped(f) /\ known'[f] = Absent)
      BY <2>1, <3>1 DEF AuthBurst
    <3>3. known'[f] \in Versions \cup {Absent}
      BY <1>5, <2>1 DEF Found
    <3>4. /\ AuthGoesWithHash(f)' /\ (hashes[f] = Unset => known'[f] = Absent \/ WritePending)
          /\ (~WritePending => CutShort(f) \/ HashRight(f))
      BY <1>1, <1>3, <2>1, <3>2, <3>3 DEF HashRead, Dropped, AuthGoesWithHash, HashRight
    <3>5. events = <<>> => ~WritePending
      BY DEF WritePending
    <3>6. AuthBurst(f)'
      BY <1>1, <2>1, <2>2, <3>1, <3>2, <3>4, <3>5 DEF AuthBurst, WorkOnly, HashRight, CutShort
    <3>7. QED
      BY <1>1, <1>2, <2>1, <2>3, <3>1, <3>2, <3>6 DEF OneBurst, Settled, HashRight, WorkOnly, CutShort
  <2>7. QED
    BY <2>4, <2>5, <2>6 DEF RefreshAuthState
<1>8. QED
  BY <1>1, <1>6, <1>7 DEF WatchInv

LEMMA ReloadKeepsWatch ==
  ASSUME WatchInv, NEW r \in Reloaders, ReloadStep(r) \/ RefreshAuthState(r)
  PROVE  WatchInv'
<1> USE WhoIsWho
<1>1. /\ WatchTypeOK /\ (watched => disk[Config] # Absent)
      /\ work[r].pc \in {"check", "load", "rescan", "config", "files", "replace", "rehash"} \/ timer
      /\ UNCHANGED <<disk, watched, events, removedAt, changes, pace, touched>>
  BY DEF WatchInv, ReloadStep, TimerFires, CheckConfig, LoadConfig, Rescan, RehashConfig,
         RefreshAuthState, SnapshotConfig, SnapshotFiles, ReplaceKnown, WorkGoes
<1>0. Rescan(r) \/ hashes' = hashes
  BY DEF ReloadStep, TimerFires, CheckConfig, LoadConfig, RehashConfig,
         RefreshAuthState, SnapshotConfig, SnapshotFiles, ReplaceKnown
<1>2. pace = "slow" => OneBurst /\ touched = Config /\ ConfigBurst
  BY <1>1 DEF WatchInv, Starting, OneBurst, AuthBurst
<1>3. /\ disk[Config] \in Readings \cup {Absent, Empty} /\ config \in Versions \cup {Empty}
      /\ work[r] \in Work /\ work[r].read \in Readings \cup {Unset}
  BY <1>1 DEF WatchTypeOK, Work
<1>4. ASSUME pace = "slow", ConfigBurst', work'[Main] = work[Main], config' \in Versions,
             hashes' = hashes,
             UNCHANGED known \/ \A f \in AuthFiles : known'[f] = disk[f]
      PROVE  OneBurst'
  BY <1>1, <1>2, <1>4 DEF OneBurst, Settled, HashRight, CutShort
<1>13. pace = "slow" => config \in Versions
  BY <1>2 DEF OneBurst
<1>5. CASE TimerFires(r)
  <2>0. hashes' = hashes
    BY <1>5 DEF TimerFires
  <2>1. /\ WorkOnly(r, "check") /\ timer' = FALSE /\ work[r].pc = "idle"
        /\ UNCHANGED <<config, configHash, known>>
    BY <1>1, <1>5, WorkGoesOn DEF TimerFires, WorkGoes
  <2>2. WatchTypeOK'
    BY <1>1, <2>0, <2>1 DEF WatchTypeOK, WorkOnly
  <2>3. pace = "slow" => ConfigBurst'
    BY <1>1, <1>2, <2>1 DEF ConfigBurst, Applying, WorkOnly
  <2>4. QED
    BY <1>0, <1>1, <1>4, <1>13, <2>0, <2>1, <2>2, <2>3 DEF WatchInv, WorkOnly
<1>6. CASE CheckConfig(r)
  <2>0. hashes' = hashes
    BY <1>6 DEF CheckConfig
  <2>1. /\ work[r].pc = "check" /\ UNCHANGED <<config, configHash, known, timer>>
        /\ \/ WorkOnly(r, "load") /\ disk[Config] \in Readings
           \/ WorkOnly(r, "idle") /\ (disk[Config] \notin Readings \/ disk[Config] = configHash)
    <3>1. CASE disk[Config] \in Readings /\ disk[Config] # configHash
      <4> DEFINE v == [work[r] EXCEPT !.pc = "load", !.read = disk[Config]]
      <4>1. v \in Work /\ v.pc = "load"
        BY <1>3, <3>1 DEF Work
      <4>2. Becomes(r, v)
        BY <1>6, <3>1 DEF CheckConfig
      <4> HIDE DEF v
      <4>3. QED
        BY <1>1, <1>6, <3>1, <4>1, <4>2, WorkChanges DEF CheckConfig
    <3>2. CASE ~(disk[Config] \in Readings /\ disk[Config] # configHash)
      BY <1>1, <1>6, <3>2, WorkRests DEF CheckConfig
    <3>3. QED
      BY <3>1, <3>2
  <2>2. WatchTypeOK'
    BY <1>1, <2>0, <2>1 DEF WatchTypeOK, WorkOnly
  <2>3. pace = "slow" => ConfigBurst'
    BY <1>1, <1>2, <1>3, <2>1 DEF ConfigBurst, Applying, WorkOnly
  <2>4. QED
    BY <1>0, <1>1, <1>4, <1>13, <2>0, <2>1, <2>2, <2>3 DEF WatchInv, WorkOnly
<1>7. CASE LoadConfig(r)
  <2>0. hashes' = hashes
    BY <1>7 DEF LoadConfig
  <2>1. /\ work[r].pc = "load" /\ UNCHANGED <<configHash, known, timer>>
        /\ \/ /\ disk[Config] \in Versions \cup {Empty} /\ config' = disk[Config]
              /\ IF Empty \in {config, config'} /\ config # config'
                 THEN WorkOnly(r, "rescan") ELSE WorkOnly(r, "config")
           \/ WorkOnly(r, "idle") /\ disk[Config] \notin Versions \cup {Empty} /\ config' = config
    <3>1. CASE disk[Config] \in Versions \cup {Empty}
      <4>1. config' = disk[Config]
        BY <1>7, <3>1 DEF LoadConfig
      <4>2. CASE Empty \in {config, config'} /\ config # config'
        BY <1>1, <1>7, <3>1, <4>1, <4>2, WorkGoesOn DEF LoadConfig
      <4>3. CASE ~(Empty \in {config, config'} /\ config # config')
        BY <1>1, <1>7, <3>1, <4>1, <4>3, WorkGoesOn DEF LoadConfig
      <4> QED
        BY <1>7, <3>1, <4>1, <4>2, <4>3 DEF LoadConfig
    <3>2. CASE disk[Config] \notin Versions \cup {Empty}
      BY <1>1, <1>7, <3>2, WorkRests DEF LoadConfig
    <3> QED
      BY <3>1, <3>2
  <2>5. PICK pc : WorkOnly(r, pc)
    BY <2>1
  <2>2. WatchTypeOK'
    BY <1>1, <2>0, <2>1, <2>5 DEF WatchTypeOK, WorkOnly
  <2>3. ASSUME pace = "slow" PROVE ConfigBurst' /\ OneBurst'
    <3>1. disk[Config] # Empty
      BY <1>2, <2>1, <2>3 DEF ConfigBurst
    <3>2. CASE disk[Config] \in Versions
      <4>1. WorkOnly(r, "config") /\ config' = disk[Config]
        BY <1>13, <2>1, <2>3, <3>2
      <4>2. ConfigBurst'
        BY <1>1, <1>2, <1>3, <2>1, <2>3, <3>2, <4>1 DEF ConfigBurst, Applying, WorkOnly
      <4>3. QED
        BY <1>1, <1>2, <1>4, <2>0, <2>1, <2>3, <3>2, <4>1, <4>2 DEF WorkOnly
    <3>3. CASE disk[Config] \notin Versions
      <4>1. WorkOnly(r, "idle") /\ config' = config
        BY <2>1, <3>1, <3>3
      <4>2. ConfigBurst'
        BY <1>1, <1>2, <1>3, <2>1, <2>3, <3>3, <4>1 DEF ConfigBurst, Applying, WorkOnly
      <4>3. QED
        BY <1>1, <1>2, <1>4, <1>13, <2>0, <2>1, <2>3, <4>1, <4>2 DEF WorkOnly
    <3> QED
      BY <3>2, <3>3
  <2>4. QED
    BY <1>1, <2>2, <2>3 DEF WatchInv
<1>14. CASE Rescan(r)
  <2>1. /\ work[r].pc = "rescan" /\ WorkOnly(r, "config")
        /\ UNCHANGED <<config, configHash, known, timer>>
        /\ hashes' = [f \in AuthFiles |->
                        IF config # Empty /\ disk[f] \in Readings THEN disk[f] ELSE Unset]
    BY <1>1, <1>14, WorkGoesOn DEF Rescan, WorkGoes
  <2>2. WatchTypeOK'
    BY <1>1, <2>1 DEF WatchTypeOK, WorkOnly
  <2>3. pace # "slow"
    BY <1>2, <2>1 DEF ConfigBurst
  <2> QED
    BY <1>1, <2>2, <2>3 DEF WatchInv
<1>8. CASE RehashConfig(r)
  <2>0. hashes' = hashes
    BY <1>8 DEF RehashConfig
  <2>1. /\ work[r].pc = "rehash" /\ WorkOnly(r, "idle") /\ UNCHANGED <<config, known, timer>>
        /\ configHash' = IF disk[Config] \in Readings THEN disk[Config] ELSE work[r].read
    BY <1>1, <1>8, WorkRests DEF RehashConfig
  <2>2. WatchTypeOK'
    BY <1>1, <1>3, <2>0, <2>1 DEF WatchTypeOK, WorkOnly
  <2>3. pace = "slow" => ConfigBurst'
    BY <1>1, <1>2, <1>3, <2>1 DEF ConfigBurst, Applying, WorkOnly
  <2>4. QED
    BY <1>0, <1>1, <1>4, <1>13, <2>0, <2>1, <2>2, <2>3 DEF WatchInv, WorkOnly
<1>9. CASE SnapshotConfig(r)
  <2>0. hashes' = hashes
    BY <1>9 DEF SnapshotConfig
  <2>1. /\ work[r].pc = "config" /\ WorkOnly(r, "files") /\ work'[r].found[Config] = config
        /\ UNCHANGED <<config, configHash, known, timer>>
    BY <1>1, <1>9, SnapshotFacts DEF SnapshotConfig
  <2>2. WatchTypeOK'
    BY <1>1, <2>0, <2>1 DEF WatchTypeOK, WorkOnly
  <2>3. pace = "slow" => ConfigBurst'
    BY <1>1, <1>2, <1>3, <2>1 DEF ConfigBurst, Applying, WorkOnly
  <2>4. QED
    BY <1>0, <1>1, <1>4, <1>13, <2>0, <2>1, <2>2, <2>3 DEF WatchInv, WorkOnly
<1>10. CASE SnapshotFiles(r)
  <2>0. hashes' = hashes
    BY <1>10 DEF SnapshotFiles
  <2>1. /\ work[r].pc = "files" /\ WorkOnly(r, "replace")
        /\ \A f \in Files :
              work'[r].found[f] = IF f = Config THEN work[r].found[f] ELSE Readable(f)
        /\ UNCHANGED <<config, configHash, known, timer>>
    BY <1>1, <1>10, SnapshotFacts DEF SnapshotFiles
  <2>2. WatchTypeOK'
    BY <1>1, <2>0, <2>1 DEF WatchTypeOK, WorkOnly
  <2>3. pace = "slow" => \A f \in Files : work'[r].found[f] = disk[f]
    <3>1. \A f \in Files : disk[f] \in Readings \cup {Absent, Empty}
      BY <1>1 DEF WatchTypeOK
    <3>2. QED
      BY <1>2, <2>1, <3>1 DEF OneBurst, ConfigBurst, Settled, Readable, CutShort, Applying
  <2>4. pace = "slow" => ConfigBurst'
    BY <1>1, <1>2, <1>3, <2>1, <2>3 DEF ConfigBurst, Applying, WorkOnly
  <2>5. QED
    BY <1>0, <1>1, <1>4, <1>13, <2>0, <2>1, <2>2, <2>4 DEF WatchInv, WorkOnly
<1>11. CASE ReplaceKnown(r)
  <2>0. hashes' = hashes
    BY <1>11 DEF ReplaceKnown
  <2>1. /\ work[r].pc = "replace" /\ WorkOnly(r, "rehash")
        /\ known' = work[r].found /\ known' \in Found
        /\ UNCHANGED <<config, configHash, timer>>
    BY <1>1, <1>11, SnapshotFacts DEF ReplaceKnown
  <2>2. WatchTypeOK'
    BY <1>1, <2>0, <2>1 DEF WatchTypeOK, WorkOnly
  <2>3. pace = "slow" => \A f \in Files : known'[f] = disk[f]
    BY <1>2, <2>1 DEF ConfigBurst, Applying
  <2>4. pace = "slow" => ConfigBurst'
    BY <1>1, <1>2, <1>3, <2>1, <2>3 DEF ConfigBurst, Applying, WorkOnly
  <2>5. QED
    BY <1>0, <1>1, <1>4, <1>13, <2>0, <2>1, <2>2, <2>3, <2>4 DEF WatchInv, WorkOnly
<1>12. QED
  BY <1>5, <1>6, <1>7, <1>8, <1>9, <1>10, <1>11, <1>14 DEF ReloadStep, RefreshAuthState

LEMMA WindowKeepsWatch ==
  ASSUME WatchInv, NEW f \in AuthFiles, WindowPasses(f)
  PROVE  WatchInv'
<1>1. /\ removedAt' = removedAt \ {f}
      /\ UNCHANGED <<disk, watched, events, hashes, config, configHash, known, timer, work, changes, pace, touched>>
  BY DEF WindowPasses
<1>2. WatchTypeOK'
  BY <1>1 DEF WatchInv, WatchTypeOK
<1>3. \A g \in Files : AuthBurst(g) => AuthBurst(g)'
  BY <1>1 DEF AuthBurst, WritePending, RemovePending, AuthGoesWithHash, HashRight, HashRead, Dropped, CutShort
<1>4. (ConfigBurst => ConfigBurst') /\ (Starting => Starting')
  BY <1>1 DEF ConfigBurst, Applying, Starting, HashRight, CutShort
<1>5. OneBurst => OneBurst'
  BY <1>1, <1>3, <1>4 DEF OneBurst, Settled, HashRight, WatchInv, WatchTypeOK, CutShort
<1>6. QED
  BY <1>1, <1>2, <1>4, <1>5 DEF WatchInv

LEMMA NextWatch == WatchInv /\ [WatchNext]_watchVars => WatchInv'
<1> USE WhoIsWho
<1>1. ASSUME WatchInv, UNCHANGED watchVars PROVE WatchInv'
  <2>1. UNCHANGED <<disk, watched, events, hashes, config, configHash, known, removedAt, timer, work, changes, pace, touched>>
    BY <1>1 DEF watchVars
  <2>2. (ConfigBurst' <=> ConfigBurst) /\ (Starting' <=> Starting) /\ (WatchTypeOK' <=> WatchTypeOK)
    BY <2>1 DEF ConfigBurst, Applying, Starting, HashRight, WatchTypeOK, CutShort
  <2>3. \A g \in Files : AuthBurst(g) => AuthBurst(g)'
    BY <2>1 DEF AuthBurst, WritePending, RemovePending, AuthGoesWithHash, HashRight, HashRead, Dropped, CutShort
  <2>4. OneBurst => OneBurst'
    BY <1>1, <2>1, <2>2, <2>3 DEF OneBurst, Settled, HashRight, WatchInv, WatchTypeOK, CutShort
  <2>5. QED
    BY <1>1, <2>1, <2>2, <2>4 DEF WatchInv
<1>2. ASSUME WatchInv, NEW f \in Files, WriteFile(f) PROVE WatchInv'
  BY <1>2, ChangeKeepsWatch DEF WriteFile
<1>3. ASSUME WatchInv, NEW f \in Files, RemoveFile(f) \/ ReplaceFile(f) PROVE WatchInv'
  BY <1>3, ChangeKeepsWatch DEF RemoveFile, ReplaceFile
<1>6. ASSUME WatchInv, MoveConfig PROVE WatchInv'
  BY <1>6, ChangeKeepsWatch DEF MoveConfig
<1>4. ASSUME WatchInv, NEW g \in Goroutines, RefreshAuthState(g) PROVE WatchInv'
  BY <1>4, MainKeepsWatch, EventRefreshKeepsWatch, ReloadKeepsWatch DEF Goroutines
<1>5. QED
  BY <1>1, <1>2, <1>3, <1>4, <1>6, WindowKeepsWatch, EventKeepsWatch, MainKeepsWatch, ReloadKeepsWatch
  DEF WatchNext

\* However the goroutines of the watcher interleave: when nothing is under way,
\* the auths are those of the files, as long as changes came one at a time and
\* the configuration is the file that was there at the start.
THEOREM SlowChangesFound == WatchSpec => []SlowChangesPickedUp
<1>1. WatchInv => SlowChangesPickedUp
  BY RestFacts DEF SlowChangesPickedUp, PickedUp, KnownAtRest, Settled
<1>2. QED
  BY InitWatch, NextWatch, <1>1, PTL DEF WatchSpec
----------------------------------------------------------------------------
(* Sequences of updates.                                                   *)

\* Induction over the natural numbers, for a set of them.
LEMMA AllNumbers ==
  ASSUME NEW S \in SUBSET Nat, 0 \in S, \A n \in S : n + 1 \in S
  PROVE  S = Nat
<1> DEFINE T == Nat \ S
<1> SUFFICES ASSUME T # {} PROVE FALSE
  OBVIOUS
<1>1. PICK x \in T : \A y \in T : ~ (<<y, x>> \in OpToRel(<, Nat))
  <2> HIDE DEF T
  <2>1. T \subseteq Nat
    BY DEF T
  <2> QED
    BY <2>1, WFMin, NatLessThanWellFounded
<1>2. x \in Nat /\ x # 0
  OBVIOUS
<1>3. x - 1 \in Nat /\ <<x - 1, x>> \in OpToRel(<, Nat) /\ (x - 1) + 1 = x
  BY <1>2 DEF OpToRel
<1>4. x - 1 \in S
  BY <1>1, <1>3
<1>5. x \in S
  BY <1>3, <1>4
<1> QED
  BY <1>5

\* What the first n of the updates say of auth i.
Step(i, u, box) == IF u.id = i THEN Append(box, u.auth) ELSE box
Says(f, n, i, updates) ==
  /\ f \in [0..n -> Seq(AuthStates)] /\ f[0] = <<>>
  /\ \A m \in 1..n : f[m] = Step(i, updates[m], f[m - 1])

LEMMA StepTyped ==
  ASSUME NEW i, NEW u \in Update, NEW box \in Seq(AuthStates)
  PROVE  Step(i, u, box) \in Seq(AuthStates)
  BY DEF Step, Update

LEMMA SaysExists ==
  ASSUME NEW i, NEW updates \in Seq(Update)
  PROVE  \A n \in 0..Len(updates) : \E f : Says(f, n, i, updates)
<1> DEFINE A == {n \in Nat : n <= Len(updates) => \E f : Says(f, n, i, updates)}
<1>1. 0 \in A
  <2>1. Says([m \in 0..0 |-> <<>>], 0, i, updates)
    BY DEF Says
  <2>2. QED
    BY <2>1
<1>2. ASSUME NEW n \in A PROVE n + 1 \in A
  <2>1. SUFFICES ASSUME n + 1 <= Len(updates) PROVE \E f : Says(f, n + 1, i, updates)
    OBVIOUS
  <2>2. n \in Nat /\ n <= Len(updates) /\ Len(updates) \in Nat
    BY <2>1
  <2>3. PICK f : Says(f, n, i, updates)
    BY <2>2
  <2> DEFINE g == [m \in 0..(n + 1) |-> IF m <= n THEN f[m] ELSE Step(i, updates[n + 1], f[n])]
  <2>4. Step(i, updates[n + 1], f[n]) \in Seq(AuthStates)
    <3>1. updates[n + 1] \in Update /\ f[n] \in Seq(AuthStates)
      BY <2>1, <2>2, <2>3 DEF Says
    <3>2. QED
      BY <3>1, StepTyped
  <2>5. g \in [0..(n + 1) -> Seq(AuthStates)] /\ g[0] = <<>>
    BY <2>2, <2>3, <2>4 DEF Says
  <2>6. ASSUME NEW m \in 1..(n + 1) PROVE g[m] = Step(i, updates[m], g[m - 1])
    <3>1. CASE m = n + 1
      BY <2>2, <3>1
    <3>2. CASE m # n + 1
      BY <2>2, <2>3, <3>2 DEF Says
    <3>3. QED
      BY <3>1, <3>2
  <2> HIDE DEF g
  <2>7. Says(g, n + 1, i, updates)
    BY <2>5, <2>6 DEF Says
  <2>8. QED
    BY <2>7
<1> HIDE DEF A
<1>3. A = Nat
  <2>1. A \in SUBSET Nat
    BY DEF A
  <2>2. QED
    BY <1>1, <1>2, <2>1, AllNumbers
<1>4. QED
  BY <1>3 DEF A

\* They say one thing.
LEMMA SaysOne ==
  ASSUME NEW i, NEW updates, NEW n \in Nat, NEW f, NEW g,
         Says(f, n, i, updates), Says(g, n, i, updates)
  PROVE  f[n] = g[n]
<1> DEFINE A == {m \in Nat : m <= n => f[m] = g[m]}
<1>1. 0 \in A
  BY DEF Says
<1>2. ASSUME NEW m \in A PROVE m + 1 \in A
  <2>1. SUFFICES ASSUME m + 1 <= n PROVE f[m + 1] = g[m + 1]
    OBVIOUS
  <2>2. m \in Nat /\ m + 1 \in 1..n /\ (m + 1) - 1 = m /\ f[m] = g[m]
    BY <2>1
  <2>3. f[m + 1] = Step(i, updates[m + 1], f[m]) /\ g[m + 1] = Step(i, updates[m + 1], g[m])
    BY <2>2 DEF Says
  <2>4. QED
    BY <2>2, <2>3
<1> HIDE DEF A
<1>3. A = Nat
  <2>1. A \in SUBSET Nat
    BY DEF A
  <2>2. QED
    BY <1>1, <1>2, <2>1, AllNumbers
<1>4. QED
  BY <1>3 DEF A

\* The function in StatesOf.
Sums(f, i, updates) ==
  f = [n \in 0..Len(updates) |->
         IF n = 0 THEN <<>>
         ELSE IF updates[n].id = i THEN Append(f[n - 1], updates[n].auth) ELSE f[n - 1]]

LEMMA StatesSum ==
  ASSUME NEW i, NEW updates
  PROVE  StatesOf(i, updates) = (CHOOSE f : Sums(f, i, updates))[Len(updates)]
  BY DEF StatesOf, Sums

LEMMA SumsExist ==
  ASSUME NEW i, NEW updates \in Seq(Update)
  PROVE  \E f : Sums(f, i, updates)
<1>1. Len(updates) \in Nat
  OBVIOUS
<1>2. PICK f : Says(f, Len(updates), i, updates)
  <2>1. \A n \in 0..Len(updates) : \E f : Says(f, n, i, updates)
    BY SaysExists
  <2>2. Len(updates) \in 0..Len(updates)
    BY <1>1
  <2>3. QED
    BY <2>1, <2>2
<1>3. \A n \in 0..Len(updates) :
        f[n] = IF n = 0 THEN <<>>
               ELSE IF updates[n].id = i THEN Append(f[n - 1], updates[n].auth) ELSE f[n - 1]
  <2>1. ASSUME NEW n \in 0..Len(updates), n # 0
        PROVE  f[n] = IF updates[n].id = i THEN Append(f[n - 1], updates[n].auth) ELSE f[n - 1]
    <3>1. n \in 1..Len(updates)
      BY <1>1, <2>1
    <3>2. f[n] = Step(i, updates[n], f[n - 1])
      BY <1>2, <3>1 DEF Says
    <3>3. QED
      BY <3>2 DEF Step
  <2>2. f[0] = <<>>
    BY <1>2 DEF Says
  <2>3. QED
    BY <2>1, <2>2
<1>4. f = [n \in 0..Len(updates) |-> f[n]]
  BY <1>2 DEF Says
<1>5. Sums(f, i, updates)
  BY <1>3, <1>4 DEF Sums
<1>6. QED
  BY <1>5

\* What sums them up says it.
LEMMA SumsSay ==
  ASSUME NEW i, NEW updates \in Seq(Update), NEW g, Sums(g, i, updates)
  PROVE  Says(g, Len(updates), i, updates)
<1> DEFINE N == Len(updates)
<1>1. N \in Nat
  OBVIOUS
<1>2. PICK f : Says(f, N, i, updates)
  <2>1. \A n \in 0..N : \E f : Says(f, n, i, updates)
    BY SaysExists
  <2>2. N \in 0..N
    BY <1>1
  <2>3. QED
    BY <2>1, <2>2
<1>3. \A n \in 0..N : g[n] = IF n = 0 THEN <<>> ELSE Step(i, updates[n], g[n - 1])
  BY DEF Sums, Step
<1> DEFINE A == {m \in Nat : m <= N => g[m] = f[m]}
<1>4. 0 \in A
  BY <1>1, <1>2, <1>3 DEF Says
<1>5. ASSUME NEW m \in A PROVE m + 1 \in A
  <2>1. SUFFICES ASSUME m + 1 <= N PROVE g[m + 1] = f[m + 1]
    OBVIOUS
  <2>2. m \in Nat /\ m + 1 \in 1..N /\ m + 1 \in 0..N /\ (m + 1) - 1 = m /\ m + 1 # 0 /\ g[m] = f[m]
    BY <1>1, <2>1
  <2>3. g[m + 1] = Step(i, updates[m + 1], g[m])
    BY <1>3, <2>2
  <2>4. f[m + 1] = Step(i, updates[m + 1], f[m])
    BY <1>2, <2>2 DEF Says
  <2>5. QED
    BY <2>2, <2>3, <2>4
<1> HIDE DEF A
<1>6. A = Nat
  <2>1. A \in SUBSET Nat
    BY DEF A
  <2>2. QED
    BY <1>4, <1>5, <2>1, AllNumbers
<1>7. \A m \in 0..N : g[m] = f[m]
  BY <1>1, <1>6 DEF A
<1>8. g = [n \in 0..N |-> g[n]]
  BY DEF Sums
<1>9. f = [n \in 0..N |-> f[n]]
  BY <1>2 DEF Says
<1>10. g = f
  BY <1>7, <1>8, <1>9
<1>11. QED
  BY <1>2, <1>10

LEMMA StatesSay ==
  ASSUME NEW i, NEW updates \in Seq(Update)
  PROVE  \E f : Says(f, Len(updates), i, updates) /\ StatesOf(i, updates) = f[Len(updates)]
<1>1. PICK f : f = CHOOSE g : Sums(g, i, updates)
  OBVIOUS
<1>2. Sums(f, i, updates)
  BY <1>1, SumsExist
<1>3. QED
  BY <1>1, <1>2, SumsSay, StatesSum

\* Induction over sequences, for a set of them.
LEMMA AllSequences ==
  ASSUME NEW S, NEW A \in SUBSET Seq(S), <<>> \in A, \A s \in A, e \in S : Append(s, e) \in A
  PROVE  A = Seq(S)
<1> DEFINE B == {n \in Nat : \A s \in Seq(S) : Len(s) = n => s \in A}
<1>1. 0 \in B
  BY EmptySeq
<1>2. ASSUME NEW n \in B PROVE n + 1 \in B
  <2>1. SUFFICES ASSUME NEW s \in Seq(S), Len(s) = n + 1 PROVE s \in A
    OBVIOUS
  <2>2. s # <<>>
    BY <2>1
  <2>3. PICK t \in Seq(S), e \in S : s = Append(t, e)
    BY <2>2, SequenceEmptyOrAppend
  <2>4. Len(t) = n
    BY <2>1, <2>3, AppendProperties
  <2>5. t \in A
    BY <2>4
  <2>6. QED
    BY <2>3, <2>5
<1> HIDE DEF B
<1>3. B = Nat
  <2>1. B \in SUBSET Nat
    BY DEF B
  <2>2. QED
    BY <1>1, <1>2, <2>1, AllNumbers
<1>4. ASSUME NEW s \in Seq(S) PROVE s \in A
  <2>1. Len(s) \in B
    BY <1>3
  <2>2. QED
    BY <2>1 DEF B
<1>5. QED
  BY <1>4

LEMMA ConcatAppend ==
  ASSUME NEW S, NEW s \in Seq(S), NEW t \in Seq(S), NEW e \in S
  PROVE  s \o Append(t, e) = Append(s \o t, e)
<1>1. Append(t, e) = t \o <<e>> /\ <<e>> \in Seq(S) /\ s \o t \in Seq(S)
  BY AppendIsConcat, ConcatProperties
<1>2. Append(s \o t, e) = (s \o t) \o <<e>>
  BY <1>1, AppendIsConcat
<1>3. QED
  BY <1>1, <1>2, ConcatAssociative

LEMMA StatesTyped ==
  ASSUME NEW i, NEW updates \in Seq(Update)
  PROVE  StatesOf(i, updates) \in Seq(AuthStates)
<1>1. PICK f : Says(f, Len(updates), i, updates) /\ StatesOf(i, updates) = f[Len(updates)]
  BY StatesSay
<1>2. Len(updates) \in 0..Len(updates)
  OBVIOUS
<1>3. QED
  BY <1>1, <1>2 DEF Says

LEMMA StatesOfNone ==
  ASSUME NEW i
  PROVE  StatesOf(i, <<>>) = <<>>
<1>1. <<>> \in Seq(Update) /\ Len(<<>>) = 0
  BY EmptySeq
<1>2. PICK f : Says(f, 0, i, <<>>) /\ StatesOf(i, <<>>) = f[0]
  BY <1>1, StatesSay
<1>3. QED
  BY <1>2 DEF Says

LEMMA StatesOfAppend ==
  ASSUME NEW i, NEW updates \in Seq(Update), NEW u \in Update
  PROVE  StatesOf(i, Append(updates, u)) = Step(i, u, StatesOf(i, updates))
<1> DEFINE more == Append(updates, u)
           N == Len(updates)
<1>1. more \in Seq(Update) /\ Len(more) = N + 1 /\ N \in Nat
      /\ more[N + 1] = u /\ \A n \in 1..N : more[n] = updates[n]
  BY AppendProperties, LenProperties
<1> HIDE DEF more
<1>2. PICK f : Says(f, N, i, updates) /\ StatesOf(i, updates) = f[N]
  BY StatesSay
<1>3. PICK g : Says(g, N + 1, i, more) /\ StatesOf(i, more) = g[N + 1]
  BY <1>1, StatesSay
<1> DEFINE h == [n \in 0..N |-> g[n]]
<1>4. Says(h, N, i, updates)
  <2>1. \A n \in 1..N : n \in 1..(N + 1) /\ n \in 0..N /\ n - 1 \in 0..N /\ n \in 0..(N + 1)
    BY <1>1
  <2>2. \A n \in 0..N : n \in 0..(N + 1)
    BY <1>1
  <2>3. h \in [0..N -> Seq(AuthStates)] /\ h[0] = <<>>
    BY <1>1, <1>3, <2>2 DEF Says
  <2>4. ASSUME NEW n \in 1..N PROVE h[n] = Step(i, updates[n], h[n - 1])
    <3>1. g[n] = Step(i, more[n], g[n - 1])
      BY <1>3, <2>1 DEF Says
    <3>2. h[n] = g[n] /\ h[n - 1] = g[n - 1] /\ more[n] = updates[n]
      BY <1>1, <2>1
    <3>3. QED
      BY <3>1, <3>2
  <2> HIDE DEF h
  <2>5. QED
    BY <2>3, <2>4 DEF Says
<1>5. h[N] = g[N]
  BY <1>1
<1> HIDE DEF h
<1>6. f[N] = h[N]
  BY <1>1, <1>2, <1>4, SaysOne
<1>7. g[N + 1] = Step(i, u, g[N])
  <2>1. N + 1 \in 1..(N + 1) /\ (N + 1) - 1 = N
    BY <1>1
  <2>2. QED
    BY <1>1, <1>3, <2>1 DEF Says
<1>8. QED
  BY <1>2, <1>3, <1>5, <1>6, <1>7 DEF more

\* What comes later says something after what came before.
LEMMA StatesOfLonger ==
  ASSUME NEW i, NEW former \in Seq(Update)
  PROVE  \A later \in Seq(Update) : \E rest \in Seq(AuthStates) :
           StatesOf(i, former \o later) = StatesOf(i, former) \o rest
<1> DEFINE A == {later \in Seq(Update) : \E rest \in Seq(AuthStates) :
                   StatesOf(i, former \o later) = StatesOf(i, former) \o rest}
<1>0. StatesOf(i, former) \in Seq(AuthStates)
  BY StatesTyped
<1>1. <<>> \in A
  <2>1. former \o <<>> = former /\ <<>> \in Seq(Update) /\ <<>> \in Seq(AuthStates)
    BY ConcatEmptySeq, EmptySeq
  <2>2. StatesOf(i, former \o <<>>) = StatesOf(i, former) \o <<>>
    BY <1>0, <2>1, ConcatEmptySeq
  <2>3. QED
    BY <2>1, <2>2
<1>2. ASSUME NEW later \in A, NEW u \in Update PROVE Append(later, u) \in A
  <2>1. PICK rest \in Seq(AuthStates) : StatesOf(i, former \o later) = StatesOf(i, former) \o rest
    OBVIOUS
  <2>2. later \in Seq(Update) /\ former \o later \in Seq(Update) /\ Append(later, u) \in Seq(Update)
    BY AppendProperties, ConcatProperties
  <2>3. former \o Append(later, u) = Append(former \o later, u)
    BY <2>2
  <2>4. StatesOf(i, former \o Append(later, u)) = Step(i, u, StatesOf(i, former) \o rest)
    BY <2>1, <2>2, <2>3, StatesOfAppend
  <2>5. u.auth \in AuthStates
    BY DEF Update
  <2>6. Append(StatesOf(i, former) \o rest, u.auth) = StatesOf(i, former) \o Append(rest, u.auth)
    <3>1. \A s, t \in Seq(AuthStates), e \in AuthStates : s \o Append(t, e) = Append(s \o t, e)
      BY ConcatAppend
    <3>2. QED
      BY <1>0, <2>5, <3>1
  <2>7. Append(rest, u.auth) \in Seq(AuthStates)
    BY <2>5, AppendProperties
  <2>8. \E more \in Seq(AuthStates) : Step(i, u, StatesOf(i, former) \o rest) = StatesOf(i, former) \o more
    BY <2>6, <2>7 DEF Step
  <2>9. QED
    BY <2>2, <2>4, <2>8
<1> HIDE DEF A
<1>3. A = Seq(Update)
  <2>1. A \in SUBSET Seq(Update)
    BY DEF A
  <2>2. QED
    BY <1>1, <1>2, <2>1, AllSequences
<1>4. QED
  BY <1>3 DEF A

\* What the first update says comes first.
LEMMA StatesOfTail ==
  ASSUME NEW i
  PROVE  \A updates \in Seq(Update) \ {<<>>} :
           StatesOf(i, updates) =
             (IF Head(updates).id = i THEN <<Head(updates).auth>> ELSE <<>>) \o StatesOf(i, Tail(updates))
<1> DEFINE Front_(s) == IF Head(s).id = i THEN <<Head(s).auth>> ELSE <<>>
           A == {s \in Seq(Update) : s # <<>> => StatesOf(i, s) = Front_(s) \o StatesOf(i, Tail(s))}
<1>1. <<>> \in A
  BY EmptySeq
<1>2. ASSUME NEW s \in A, NEW u \in Update PROVE Append(s, u) \in A
  <2>1. s \in Seq(Update) /\ Append(s, u) \in Seq(Update)
    BY AppendProperties
  <2>2. StatesOf(i, Append(s, u)) = Step(i, u, StatesOf(i, s))
    BY <2>1, StatesOfAppend
  <2>3. u.auth \in AuthStates
    BY DEF Update
  <2>4. CASE s = <<>>
    <3>1. Head(Append(s, u)) = u /\ Tail(Append(s, u)) = <<>>
      BY <2>1, <2>4, HeadTailAppend
    <3>2. StatesOf(i, s) = <<>>
      BY <2>4, StatesOfNone
    <3>3. Step(i, u, <<>>) = Front_(Append(s, u)) \o <<>>
      BY <2>3, <3>1 DEF Step
    <3>4. QED
      BY <2>1, <2>2, <2>4, <3>1, <3>2, <3>3
  <2>5. CASE s # <<>>
    <3>1. Head(Append(s, u)) = Head(s) /\ Tail(Append(s, u)) = Append(Tail(s), u)
          /\ Tail(s) \in Seq(Update) /\ Head(s) \in Update
      BY <2>1, <2>5, HeadTailAppend, HeadTailProperties
    <3>2. StatesOf(i, Tail(Append(s, u))) = Step(i, u, StatesOf(i, Tail(s)))
      BY <3>1, StatesOfAppend
    <3>3. PICK box \in Seq(AuthStates) : box = StatesOf(i, Tail(s))
      BY <3>1, StatesTyped
    <3>4. PICK first \in Seq(AuthStates) : first = Front_(s)
      <4>1. Head(s).auth \in AuthStates
        BY <3>1 DEF Update
      <4>2. <<Head(s).auth>> \in Seq(AuthStates) /\ <<>> \in Seq(AuthStates)
        BY <4>1
      <4>3. QED
        BY <4>2
    <3>5. StatesOf(i, s) = first \o box
      BY <2>5, <3>3, <3>4
    <3>6. Step(i, u, first \o box) = first \o Step(i, u, box)
      <4>1. \A a, b \in Seq(AuthStates), e \in AuthStates : a \o Append(b, e) = Append(a \o b, e)
        BY ConcatAppend
      <4>2. QED
        BY <2>3, <4>1 DEF Step
    <3>7. Front_(Append(s, u)) = first
      BY <3>1, <3>4
    <3> HIDE DEF Front_
    <3>8. QED
      BY <2>1, <2>2, <3>2, <3>3, <3>5, <3>6, <3>7
  <2>6. QED
    BY <2>4, <2>5
<1> HIDE DEF A
<1>3. A = Seq(Update)
  <2>1. A \in SUBSET Seq(Update)
    BY DEF A
  <2>2. QED
    BY <1>1, <1>2, <2>1, AllSequences
<1>4. QED
  BY <1>3 DEF A
----------------------------------------------------------------------------
(* What is pending, and the batch it becomes.                              *)

LEMMA UpdatesFacts ==
  ASSUME NEW us
  PROVE  us \in Updates <=> /\ DOMAIN us \subseteq AuthIds
                            /\ us = [i \in DOMAIN us |-> us[i]]
                            /\ \A i \in DOMAIN us : us[i] \in AuthStates
<1>1. ASSUME us \in Updates
      PROVE  /\ DOMAIN us \subseteq AuthIds
             /\ us = [i \in DOMAIN us |-> us[i]]
             /\ \A i \in DOMAIN us : us[i] \in AuthStates
  <2>1. PICK S \in SUBSET AuthIds : us \in [S -> AuthStates]
    BY <1>1 DEF Updates
  <2>2. QED
    BY <2>1
<1>2. ASSUME /\ DOMAIN us \subseteq AuthIds
             /\ us = [i \in DOMAIN us |-> us[i]]
             /\ \A i \in DOMAIN us : us[i] \in AuthStates
      PROVE  us \in Updates
  <2>1. us \in [DOMAIN us -> AuthStates]
    BY <1>2
  <2>2. QED
    BY <1>2, <2>1 DEF Updates
<1>3. QED
  BY <1>1, <1>2

LEMMA NoUpdatesFacts == NoUpdates \in Updates /\ DOMAIN NoUpdates = {}
<1>1. DOMAIN NoUpdates = {} /\ NoUpdates = [i \in DOMAIN NoUpdates |-> NoUpdates[i]]
  BY DEF NoUpdates
<1>2. QED
  BY <1>1, UpdatesFacts

\* A sequence in which every element of S occurs once.
Lists(o, S) ==
  /\ o \in Seq(S)
  /\ \A j, k \in 1..Len(o) : o[j] = o[k] => j = k
  /\ \A i \in S : \E k \in 1..Len(o) : o[k] = i

LEMMA ListFacts ==
  ASSUME NEW S, NEW o
  PROVE  Lists(o, S) <=> o \in Seq(S) /\ IsInjective(o) /\ ToSet(o) = S
<1>1. ASSUME o \in Seq(S) PROVE DOMAIN o = 1..Len(o) /\ \A k \in 1..Len(o) : o[k] \in S
  BY <1>1
<1>2. QED
  BY <1>1 DEF Lists, IsInjective, ToSet

LEMMA SeqsFacts ==
  ASSUME NEW S \in SUBSET AuthIds, NEW first \in SetToSeqs(S)
  PROVE  Lists(first, S)
<1>1. IsFiniteSet(S) /\ Cardinality(S) \in Nat
  BY DispatchAssumption, FS_Subset, FS_CardinalityType
<1>2. first \in [1..Cardinality(S) -> S] /\ \A j, k \in 1..Cardinality(S) : j # k => first[j] # first[k]
  BY DEF SetToSeqs
<1>3. first \in Injection(1..Cardinality(S), S)
  BY <1>2 DEF Injection, IsInjective
<1>4. Cardinality(1..Cardinality(S)) = Cardinality(S)
  BY <1>1, FS_Interval
<1>5. first \in Surjection(1..Cardinality(S), S)
  BY <1>1, <1>3, <1>4, FS_Injection
<1>6. \A i \in S : \E k \in 1..Cardinality(S) : first[k] = i
  BY <1>5 DEF Surjection
<1>7. first \in Seq(S) /\ Len(first) = Cardinality(S)
  BY <1>1, <1>2
<1>8. QED
  BY <1>2, <1>6, <1>7 DEF Lists

LEMMA ListsJoin ==
  ASSUME NEW S, NEW T, S \cap T = {}, NEW a, NEW b, Lists(a, S), Lists(b, T)
  PROVE  Lists(a \o b, S \cup T)
<1>1. /\ a \in Seq(S) /\ b \in Seq(T)
      /\ a \in Seq(S \cup T) /\ b \in Seq(S \cup T)
      /\ Len(a) \in Nat /\ Len(b) \in Nat
  BY SeqMonotonic DEF Lists
<1>2. /\ a \o b \in Seq(S \cup T) /\ Len(a \o b) = Len(a) + Len(b)
      /\ \A k \in 1..(Len(a) + Len(b)) : (a \o b)[k] = IF k <= Len(a) THEN a[k] ELSE b[k - Len(a)]
  BY <1>1, ConcatProperties
<1>3. /\ \A k \in 1..Len(a) : (a \o b)[k] = a[k] /\ a[k] \in S
      /\ \A k \in 1..(Len(a) + Len(b)) : k > Len(a) => k - Len(a) \in 1..Len(b)
      /\ \A k \in 1..(Len(a) + Len(b)) : k > Len(a) => (a \o b)[k] = b[k - Len(a)] /\ b[k - Len(a)] \in T
  BY <1>1, <1>2
<1>4. ASSUME NEW j \in 1..(Len(a) + Len(b)), NEW k \in 1..(Len(a) + Len(b)), (a \o b)[j] = (a \o b)[k]
      PROVE  j = k
  <2>1. CASE j <= Len(a) /\ k <= Len(a)
    BY <1>1, <1>3, <1>4, <2>1 DEF Lists
  <2>2. CASE j > Len(a) /\ k > Len(a)
    <3>1. b[j - Len(a)] = b[k - Len(a)]
      BY <1>3, <1>4, <2>2
    <3>2. j - Len(a) = k - Len(a)
      BY <1>3, <2>2, <3>1 DEF Lists
    <3>3. QED
      BY <1>1, <3>2
  <2>3. CASE j <= Len(a) /\ k > Len(a)
    BY <1>1, <1>3, <1>4, <2>3
  <2>4. CASE j > Len(a) /\ k <= Len(a)
    BY <1>1, <1>3, <1>4, <2>4
  <2>5. QED
    BY <1>1, <2>1, <2>2, <2>3, <2>4
<1>5. ASSUME NEW i \in S \cup T PROVE \E k \in 1..(Len(a) + Len(b)) : (a \o b)[k] = i
  <2>1. CASE i \in S
    <3>1. PICK k \in 1..Len(a) : a[k] = i
      BY <2>1 DEF Lists
    <3>2. k \in 1..(Len(a) + Len(b)) /\ (a \o b)[k] = i
      BY <1>1, <1>3, <3>1
    <3>3. QED
      BY <3>2
  <2>2. CASE i \in T
    <3>1. PICK k \in 1..Len(b) : b[k] = i
      BY <2>2 DEF Lists
    <3>2. k + Len(a) \in 1..(Len(a) + Len(b)) /\ k + Len(a) > Len(a) /\ (k + Len(a)) - Len(a) = k
      BY <1>1
    <3>3. (a \o b)[k + Len(a)] = i
      BY <1>3, <3>1, <3>2
    <3>4. QED
      BY <3>2, <3>3
  <2>3. QED
    BY <2>1, <2>2
<1>6. QED
  BY <1>2, <1>4, <1>5 DEF Lists

\* The batch that `order` and `pending` become.
Batch(o, p) == [k \in 1..Len(o) |-> [id |-> o[k], auth |-> p[o[k]]]]
Waiting(i, p) == IF i \in DOMAIN p THEN <<p[i]>> ELSE <<>>

LEMMA BatchTyped ==
  ASSUME NEW p \in Updates, NEW o, Lists(o, DOMAIN p)
  PROVE  /\ Batch(o, p) \in Seq(Update) /\ Len(Batch(o, p)) = Len(o) /\ Len(o) \in Nat
         /\ \A k \in 1..Len(o) : Batch(o, p)[k].id = o[k] /\ Batch(o, p)[k].auth = p[o[k]]
<1>1. o \in Seq(DOMAIN p) /\ Len(o) \in Nat /\ \A k \in 1..Len(o) : o[k] \in DOMAIN p
  BY DEF Lists
<1>2. \A k \in 1..Len(o) : [id |-> o[k], auth |-> p[o[k]]] \in Update
  BY <1>1, UpdatesFacts DEF Update
<1>3. Batch(o, p) \in [1..Len(o) -> Update]
  BY <1>2 DEF Batch
<1>4. QED
  BY <1>1, <1>3 DEF Batch

LEMMA StatesOfBatch ==
  ASSUME NEW i \in AuthIds, NEW former \in Seq(Update), NEW p \in Updates, NEW o, Lists(o, DOMAIN p)
  PROVE  StatesOf(i, former \o Batch(o, p)) = StatesOf(i, former) \o Waiting(i, p)
<1> DEFINE N == Len(o)
<1>1. PICK batch \in Seq(Update) :
        /\ batch = Batch(o, p) /\ Len(batch) = N /\ N \in Nat
        /\ \A k \in 1..N : batch[k].id = o[k] /\ batch[k].auth = p[o[k]]
  BY BatchTyped
<1>2. PICK box \in Seq(AuthStates) : box = StatesOf(i, former)
  BY StatesTyped
<1> DEFINE First(n) == SubSeq(batch, 1, n)
           Had(n) == \E k \in 1..n : o[k] = i
           A == {n \in Nat : n <= N => StatesOf(i, former \o First(n)) = IF Had(n) THEN Append(box, p[i]) ELSE box}
<1>3. 0 \in A
  <2>1. First(0) = <<>> /\ ~Had(0)
    BY SubSeqEmpty
  <2>2. former \o <<>> = former
    BY ConcatEmptySeq
  <2>3. QED
    BY <1>2, <2>1, <2>2
<1>4. ASSUME NEW n \in A PROVE n + 1 \in A
  <2>1. SUFFICES ASSUME n + 1 <= N
                 PROVE  StatesOf(i, former \o First(n + 1)) = IF Had(n + 1) THEN Append(box, p[i]) ELSE box
    OBVIOUS
  <2>2. n \in Nat /\ n + 1 \in 1..N /\ StatesOf(i, former \o First(n)) = IF Had(n) THEN Append(box, p[i]) ELSE box
    BY <1>1, <2>1
  <2>3. First(n) \in Seq(Update) /\ batch[n + 1] \in Update
    BY <1>1, <2>2
  <2>4. First(n + 1) = Append(First(n), batch[n + 1])
    <3>1. First(n + 1) = SubSeq(batch, 1, (n + 1) - 1) \o <<batch[n + 1]>>
      BY <1>1, <2>2, SubSeqRecursiveSecond
    <3>2. (n + 1) - 1 = n
      BY <2>2
    <3>3. Append(First(n), batch[n + 1]) = First(n) \o <<batch[n + 1]>>
      BY <2>3, AppendIsConcat
    <3>4. QED
      BY <3>1, <3>2, <3>3
  <2>5. former \o First(n) \in Seq(Update)
    BY <2>3, ConcatProperties
  <2> HIDE DEF First
  <2>6. former \o First(n + 1) = Append(former \o First(n), batch[n + 1])
    <3>1. \A a, b \in Seq(Update), e \in Update : a \o Append(b, e) = Append(a \o b, e)
      BY ConcatAppend
    <3>2. PICK a \in Seq(Update), e \in Update : a = First(n) /\ e = batch[n + 1]
      BY <2>3
    <3>3. former \o Append(a, e) = Append(former \o a, e)
      BY <3>1
    <3>4. QED
      BY <2>4, <3>2, <3>3, Zenon
  <2>7. StatesOf(i, former \o First(n + 1)) = Step(i, batch[n + 1], StatesOf(i, former \o First(n)))
    BY <2>3, <2>5, <2>6, StatesOfAppend
  <2>8. CASE o[n + 1] = i
    <3>1. ~Had(n)
      <4>1. \A k \in 1..n : k \in 1..N /\ k # n + 1
        BY <2>2
      <4>2. QED
        BY <2>2, <2>8, <4>1 DEF Lists
    <3>2. Had(n + 1)
      BY <2>2, <2>8
    <3>3. Step(i, batch[n + 1], box) = Append(box, p[i])
      BY <1>1, <2>2, <2>8 DEF Step
    <3> HIDE DEF Had
    <3>4. QED
      BY <2>2, <2>7, <3>1, <3>2, <3>3
  <2>9. CASE o[n + 1] # i
    <3>1. Had(n + 1) <=> Had(n)
      <4>1. \A k \in 1..(n + 1) : k = n + 1 \/ k \in 1..n
        BY <2>2
      <4>2. \A k \in 1..n : k \in 1..(n + 1)
        BY <2>2
      <4>3. QED
        BY <2>9, <4>1, <4>2
    <3>2. \A b : Step(i, batch[n + 1], b) = b
      BY <1>1, <2>2, <2>9 DEF Step
    <3> HIDE DEF Had
    <3>3. QED
      BY <2>2, <2>7, <3>1, <3>2
  <2>10. QED
    BY <2>8, <2>9
<1> HIDE DEF A
<1>5. N \in A
  <2>1. A \in SUBSET Nat
    BY DEF A
  <2>2. A = Nat
    BY <1>3, <1>4, <2>1, AllNumbers
  <2>3. QED
    BY <1>1, <2>2
<1>6. First(N) = batch
  BY <1>1, SubSeqFull
<1> HIDE DEF First, Had
<1>7. StatesOf(i, former \o batch) = IF Had(N) THEN Append(box, p[i]) ELSE box
  <2>1. N <= N
    BY <1>1
  <2>2. StatesOf(i, former \o First(N)) = IF Had(N) THEN Append(box, p[i]) ELSE box
    BY <1>5, <2>1 DEF A
  <2>3. QED
    BY <1>6, <2>2
<1>8. Had(N) <=> i \in DOMAIN p
  BY <1>1 DEF Lists, Had
<1>9. i \in DOMAIN p => Append(box, p[i]) = box \o <<p[i]>>
  BY UpdatesFacts, AppendIsConcat
<1>10. box \o <<>> = box
  BY ConcatEmptySeq
<1>11. QED
  BY <1>1, <1>2, <1>7, <1>8, <1>9, <1>10 DEF Waiting
----------------------------------------------------------------------------
(* What is on its way to the consumer.                                     *)

Way(i, q, b, p) == StatesOf(i, q \o b) \o Waiting(i, p)
Merged(p, us) == [i \in DOMAIN p \cup DOMAIN us |-> IF i \in DOMAIN us THEN us[i] ELSE p[i]]

LEMMA WaitingTyped ==
  ASSUME NEW i \in AuthIds, NEW p \in Updates
  PROVE  Waiting(i, p) \in Seq(AuthStates)
<1>1. CASE i \in DOMAIN p
  <2>1. p[i] \in AuthStates
    BY <1>1, UpdatesFacts
  <2>2. QED
    BY <1>1, <2>1 DEF Waiting
<1>2. CASE i \notin DOMAIN p
  BY <1>2, EmptySeq DEF Waiting
<1>3. QED
  BY <1>1, <1>2

LEMMA WayTyped ==
  ASSUME NEW i \in AuthIds, NEW q \in Seq(Update), NEW b \in Seq(Update), NEW p \in Updates
  PROVE  Way(i, q, b, p) \in Seq(AuthStates)
<1>1. q \o b \in Seq(Update)
  BY ConcatProperties
<1>2. StatesOf(i, q \o b) \in Seq(AuthStates)
  BY <1>1, StatesTyped
<1>3. QED
  BY <1>2, WaitingTyped, ConcatProperties DEF Way

LEMMA MergedFacts ==
  ASSUME NEW p \in Updates, NEW us \in Updates
  PROVE  Merged(p, us) \in Updates /\ DOMAIN Merged(p, us) = DOMAIN p \cup DOMAIN us
<1>1. /\ DOMAIN p \subseteq AuthIds /\ \A i \in DOMAIN p : p[i] \in AuthStates
      /\ DOMAIN us \subseteq AuthIds /\ \A i \in DOMAIN us : us[i] \in AuthStates
  BY UpdatesFacts
<1>2. Merged(p, us) \in [DOMAIN p \cup DOMAIN us -> AuthStates]
  BY <1>1 DEF Merged
<1>3. DOMAIN p \cup DOMAIN us \in SUBSET AuthIds
  BY <1>1
<1>4. QED
  BY <1>2, <1>3 DEF Updates

\* A merge appends to a mailbox or replaces the newest that waits.
LEMMA WayMerged ==
  ASSUME NEW i \in AuthIds, NEW q \in Seq(Update), NEW b \in Seq(Update),
         NEW p \in Updates, NEW us \in Updates
  PROVE  /\ i \notin DOMAIN us => Way(i, q, b, Merged(p, us)) = Way(i, q, b, p)
         /\ i \in DOMAIN us =>
              \/ Way(i, q, b, Merged(p, us)) = Append(Way(i, q, b, p), us[i])
              \/ /\ Way(i, q, b, p) # <<>>
                 /\ Way(i, q, b, Merged(p, us)) = Append(Front(Way(i, q, b, p)), us[i])
<1>1. PICK box \in Seq(AuthStates) : box = StatesOf(i, q \o b)
  BY ConcatProperties, StatesTyped
<1>2. DOMAIN Merged(p, us) = DOMAIN p \cup DOMAIN us
      /\ \A j \in DOMAIN p \cup DOMAIN us : Merged(p, us)[j] = IF j \in DOMAIN us THEN us[j] ELSE p[j]
  BY DEF Merged
<1>3. CASE i \notin DOMAIN us
  <2>1. Waiting(i, Merged(p, us)) = Waiting(i, p)
    BY <1>2, <1>3 DEF Waiting
  <2>2. QED
    BY <1>3, <2>1 DEF Way
<1>4. CASE i \in DOMAIN us
  <2>1. PICK s \in AuthStates : s = us[i]
    BY <1>4, UpdatesFacts
  <2>2. Way(i, q, b, Merged(p, us)) = box \o <<s>> /\ box \o <<s>> = Append(box, s)
    BY <1>1, <1>2, <1>4, <2>1, AppendIsConcat DEF Way, Waiting
  <2>3. CASE i \in DOMAIN p
    <3>1. PICK r \in AuthStates : r = p[i]
      BY <2>3, UpdatesFacts
    <3>2. Way(i, q, b, p) = Append(box, r)
      BY <1>1, <2>3, <3>1, AppendIsConcat DEF Way, Waiting
    <3>3. Append(box, r) # <<>> /\ Front(Append(box, r)) = box
      <4>1. Append(box, r) # <<>> /\ Append(box, r) \in Seq(AuthStates)
        BY AppendProperties
      <4>2. QED
        BY <4>1 DEF Front
    <3>4. QED
      BY <1>4, <2>1, <2>2, <3>2, <3>3
  <2>4. CASE i \notin DOMAIN p
    <3>1. Way(i, q, b, p) = box
      BY <1>1, <2>4, ConcatEmptySeq DEF Way, Waiting
    <3>2. QED
      BY <1>4, <2>1, <2>2, <3>1
  <2>5. QED
    BY <2>3, <2>4
<1>5. QED
  BY <1>3, <1>4

LEMMA WayBatched ==
  ASSUME NEW i \in AuthIds, NEW q \in Seq(Update), NEW p \in Updates, NEW o, Lists(o, DOMAIN p)
  PROVE  Way(i, q, Batch(o, p), NoUpdates) = Way(i, q, <<>>, p)
<1>1. PICK w \in Seq(AuthStates) : w = StatesOf(i, q \o Batch(o, p))
  BY BatchTyped, ConcatProperties, StatesTyped
<1>2. Waiting(i, NoUpdates) = <<>>
  BY NoUpdatesFacts DEF Waiting
<1>3. w = StatesOf(i, q) \o Waiting(i, p)
  BY <1>1, StatesOfBatch
<1>4. q \o <<>> = q /\ w \o <<>> = w
  BY ConcatEmptySeq
<1>5. QED
  BY <1>1, <1>2, <1>3, <1>4 DEF Way

LEMMA SentKept ==
  ASSUME NEW q \in Seq(Update), NEW b \in Seq(Update), b # <<>>
  PROVE  /\ Append(q, Head(b)) \o Tail(b) = q \o b
         /\ Head(b) \in Update /\ Tail(b) \in Seq(Update) /\ Append(q, Head(b)) \in Seq(Update)
<1>1. Head(b) \in Update /\ Tail(b) \in Seq(Update) /\ <<Head(b)>> \in Seq(Update)
      /\ b = <<Head(b)>> \o Tail(b)
  BY HeadTailProperties
<1>2. Append(q, Head(b)) = q \o <<Head(b)>> /\ Append(q, Head(b)) \in Seq(Update)
  BY <1>1, AppendIsConcat, AppendProperties
<1>3. (q \o <<Head(b)>>) \o Tail(b) = q \o (<<Head(b)>> \o Tail(b))
  BY <1>1, ConcatAssociative
<1>4. QED
  BY <1>1, <1>2, <1>3

LEMMA WayConsumed ==
  ASSUME NEW i \in AuthIds, NEW q \in Seq(Update), NEW b \in Seq(Update), NEW p \in Updates,
         q # <<>>
  PROVE  Way(i, q, b, p) =
           (IF Head(q).id = i THEN <<Head(q).auth>> ELSE <<>>) \o Way(i, Tail(q), b, p)
<1>1. q \o b \in Seq(Update) \ {<<>>} /\ Head(q \o b) = Head(q) /\ Tail(q \o b) = Tail(q) \o b
      /\ Tail(q) \o b \in Seq(Update) /\ Head(q) \in Update
  OBVIOUS
<1>2. PICK first \in Seq(AuthStates) : first = IF Head(q).id = i THEN <<Head(q).auth>> ELSE <<>>
  <2>1. Head(q).auth \in AuthStates
    BY <1>1 DEF Update
  <2>2. <<Head(q).auth>> \in Seq(AuthStates) /\ <<>> \in Seq(AuthStates)
    BY <2>1
  <2>3. QED
    BY <2>2
<1>3. PICK box \in Seq(AuthStates) : box = StatesOf(i, Tail(q) \o b)
  BY <1>1, StatesTyped
<1>4. StatesOf(i, q \o b) = first \o box
  <2>1. \A updates \in Seq(Update) \ {<<>>} :
           StatesOf(i, updates) =
             (IF Head(updates).id = i THEN <<Head(updates).auth>> ELSE <<>>) \o StatesOf(i, Tail(updates))
    BY StatesOfTail
  <2>2. QED
    BY <1>1, <1>2, <1>3, <2>1
<1>5. PICK w \in Seq(AuthStates) : w = Waiting(i, p)
  BY WaitingTyped
<1>6. (first \o box) \o w = first \o (box \o w)
  BY ConcatAssociative
<1>7. QED
  BY <1>2, <1>3, <1>4, <1>5, <1>6 DEF Way

LEMMA PartKept ==
  ASSUME NEW S, NEW s \in Seq(S), NEW r \in Seq(S), NEW w \in Seq(S)
  PROVE  Mail!PartOf(s \o w, (s \o r) \o w)
<1> DEFINE at == [k \in 1..(Len(s) + Len(w)) |-> IF k <= Len(s) THEN k ELSE k + Len(r)]
<1>1. Len(s) \in Nat /\ Len(r) \in Nat /\ Len(w) \in Nat
  OBVIOUS
<1>2. PICK short \in Seq(S) :
        /\ short = s \o w /\ DOMAIN short = 1..(Len(s) + Len(w))
        /\ \A k \in 1..(Len(s) + Len(w)) : short[k] = IF k <= Len(s) THEN s[k] ELSE w[k - Len(s)]
  <2>1. s \o w \in Seq(S) /\ DOMAIN (s \o w) = 1..(Len(s) + Len(w))
        /\ \A k \in 1..(Len(s) + Len(w)) : (s \o w)[k] = IF k <= Len(s) THEN s[k] ELSE w[k - Len(s)]
    OBVIOUS
  <2>2. QED
    BY <2>1
<1>3. PICK mid \in Seq(S) :
        /\ mid = s \o r /\ Len(mid) = Len(s) + Len(r) /\ \A k \in 1..Len(s) : mid[k] = s[k]
  <2>1. s \o r \in Seq(S) /\ Len(s \o r) = Len(s) + Len(r) /\ \A k \in 1..Len(s) : (s \o r)[k] = s[k]
    OBVIOUS
  <2>2. QED
    BY <2>1
<1>4. PICK long \in Seq(S) :
        /\ long = mid \o w /\ DOMAIN long = 1..(Len(mid) + Len(w))
        /\ \A k \in 1..(Len(mid) + Len(w)) : long[k] = IF k <= Len(mid) THEN mid[k] ELSE w[k - Len(mid)]
  <2>1. mid \o w \in Seq(S) /\ DOMAIN (mid \o w) = 1..(Len(mid) + Len(w))
        /\ \A k \in 1..(Len(mid) + Len(w)) : (mid \o w)[k] = IF k <= Len(mid) THEN mid[k] ELSE w[k - Len(mid)]
    OBVIOUS
  <2>2. QED
    BY <2>1
<1>5. at \in [DOMAIN short -> DOMAIN long]
  BY <1>1, <1>2, <1>3, <1>4
<1>6. \A j, k \in DOMAIN short : j < k => at[j] < at[k]
  BY <1>1, <1>2
<1>7. ASSUME NEW k \in DOMAIN short PROVE short[k] = long[at[k]]
  <2>1. CASE k <= Len(s)
    BY <1>1, <1>2, <1>3, <1>4, <2>1
  <2>2. CASE k > Len(s)
    <3>1. at[k] = k + Len(r) /\ k + Len(r) \in 1..(Len(mid) + Len(w)) /\ k + Len(r) > Len(mid)
          /\ (k + Len(r)) - Len(mid) = k - Len(s)
      BY <1>1, <1>2, <1>3, <2>2
    <3>2. QED
      BY <1>1, <1>2, <1>4, <2>2, <3>1
  <2>3. QED
    BY <1>1, <1>2, <2>1, <2>2
<1> HIDE DEF at
<1>8. Mail!PartOf(short, long)
  BY <1>5, <1>6, <1>7 DEF Mail!PartOf
<1>9. QED
  BY <1>2, <1>3, <1>4, <1>8
----------------------------------------------------------------------------
(* Types.                                                                  *)

\* The loop holds a batch exactly while it sends it, and a refresher holds
\* updates only between its diff and its dispatch.
InHands ==
  /\ loop.batch # <<>> <=> loop.pc = "sending"
  /\ \A t \in Refreshers : refreshers[t].pc # "dispatch" => refreshers[t].updates = NoUpdates

Typed == DispatchTypeOK /\ InHands

LEMMA OrderLists ==
  ASSUME NEW p \in Updates, NEW o
  PROVE  Lists(o, DOMAIN p) <=> o \in Seq(AuthIds) /\ IsInjective(o) /\ ToSet(o) = DOMAIN p
<1>1. DOMAIN p \subseteq AuthIds
  BY UpdatesFacts
<1>2. ASSUME o \in Seq(AuthIds), ToSet(o) = DOMAIN p PROVE o \in Seq(DOMAIN p)
  BY <1>2 DEF ToSet
<1>3. ASSUME o \in Seq(DOMAIN p) PROVE o \in Seq(AuthIds)
  BY <1>1, <1>3, SeqMonotonic
<1>4. QED
  BY <1>2, <1>3, ListFacts

\* What dispatchAuthUpdates makes of what is pending.
LEMMA Dispatched ==
  ASSUME Typed, NEW us \in Updates, DispatchAuthUpdates(us)
  PROVE  /\ pending' \in Updates /\ Lists(order', DOMAIN pending')
         /\ loop' \in Loop /\ loop'.batch = loop.batch /\ (loop'.pc = "sending" <=> loop.pc = "sending")
         /\ \/ ~Attached /\ pending' = pending
            \/ Attached /\ pending' = Merged(pending, us)
<1>1. pending \in Updates /\ Lists(order, DOMAIN pending) /\ loop \in Loop
  BY OrderLists DEF Typed, DispatchTypeOK
<1>2. CASE ~Attached /\ UNCHANGED <<pending, order, loop>>
  BY <1>1, <1>2
<1>3. ASSUME Attached, NEW first \in SetToSeqs(DOMAIN us \ DOMAIN pending), Merge(us, first)
      PROVE  /\ pending' = Merged(pending, us) /\ pending' \in Updates
             /\ Lists(order', DOMAIN pending')
             /\ loop' \in Loop /\ loop'.batch = loop.batch
             /\ (loop'.pc = "sending" <=> loop.pc = "sending")
  <2>1. pending' = Merged(pending, us)
    BY <1>3 DEF Merge, Merged
  <2>2. pending' \in Updates /\ DOMAIN pending' = DOMAIN pending \cup DOMAIN us
    BY <1>1, <2>1, MergedFacts
  <2>3. Lists(first, DOMAIN us \ DOMAIN pending)
    <3>1. DOMAIN us \ DOMAIN pending \in SUBSET AuthIds
      BY UpdatesFacts
    <3>2. QED
      BY <1>3, <3>1, SeqsFacts
  <2>4. Lists(order', DOMAIN pending')
    <3>1. Lists(order \o first, DOMAIN pending \cup (DOMAIN us \ DOMAIN pending))
      BY <1>1, <2>3, ListsJoin
    <3>2. DOMAIN pending \cup (DOMAIN us \ DOMAIN pending) = DOMAIN pending'
      BY <2>2
    <3>3. QED
      BY <1>3, <3>1, <3>2 DEF Merge
  <2>5. loop' \in Loop /\ loop'.batch = loop.batch /\ (loop'.pc = "sending" <=> loop.pc = "sending")
    BY <1>1, <1>3 DEF Merge, Loop
  <2>6. QED
    BY <2>1, <2>2, <2>4, <2>5
<1>4. QED
  BY <1>2, <1>3 DEF DispatchAuthUpdates

LEMMA TypedAtFirst ==
  DispatchInit => Typed
<1> SUFFICES ASSUME DispatchInit PROVE Typed
  OBVIOUS
<1>1. NoUpdates \in Updates /\ DOMAIN NoUpdates = {}
  BY NoUpdatesFacts
<1>2. Lists(<<>>, DOMAIN NoUpdates)
  BY <1>1, EmptySeq DEF Lists
<1>3. pending \in Updates /\ order \in Seq(AuthIds) /\ IsInjective(order) /\ ToSet(order) = DOMAIN pending
  BY <1>1, <1>2, OrderLists DEF DispatchInit
<1>4. Gone \in AuthStates
  BY DEF AuthStates
<1>5. refreshers \in [Refreshers -> Refresher]
  <2>1. NothingFound \in [FileAuths -> AuthStates]
    BY <1>4 DEF NothingFound
  <2>2. \A t \in Refreshers : RefreshLimit[t] \in Nat
    BY DispatchAssumption
  <2>3. QED
    BY <1>1, <2>1, <2>2 DEF DispatchInit, Refresher
<1>6. relays \in [RuntimeAuths -> Relay]
  BY <1>1, DispatchAssumption DEF DispatchInit, Relay
<1>7. loop \in Loop /\ loop.batch = <<>> /\ loop.pc = "waiting"
  BY EmptySeq DEF DispatchInit, Loop
<1>8. queue \in Seq(Update) /\ Len(queue) <= QueueSize
  BY EmptySeq, DispatchAssumption DEF DispatchInit
<1>9. InHands
  BY <1>7 DEF InHands, DispatchInit
<1>10. /\ runtime \in [RuntimeAuths -> AuthStates] /\ current \in [AuthIds -> AuthStates]
       /\ applied \in [AuthIds -> AuthStates] /\ consumer \in {"select", "drain", "ended"}
       /\ stop \in {"no", "cancelled", "cleared", "detached"}
       /\ heldTwice \subseteq AuthIds /\ forgotten \subseteq AuthIds
  BY <1>4 DEF DispatchInit
<1>11. QED
  BY <1>3, <1>5, <1>6, <1>7, <1>8, <1>9, <1>10 DEF Typed, DispatchTypeOK

LEMMA RefresherFields ==
  ASSUME Typed, NEW t \in Refreshers
  PROVE  /\ refreshers \in [Refreshers -> Refresher] /\ refreshers[t] \in Refresher
         /\ refreshers[t].pc \in {"idle", "reload", "diff", "dispatch"}
         /\ refreshers[t].found \in [FileAuths -> AuthStates]
         /\ refreshers[t].updates \in Updates /\ refreshers[t].left \in Nat
<1>1. refreshers \in [Refreshers -> Refresher] /\ refreshers[t] \in Refresher
  BY DEF Typed, DispatchTypeOK
<1>2. QED
  BY <1>1 DEF Refresher

LEMMA ForgetTyped ==
  ASSUME Typed, NEW t \in Refreshers, Forget(t)
  PROVE  Typed' /\ \A o \in Refreshers : refreshers'[o].updates = refreshers[o].updates
<1>1. PICK drop \in SUBSET {i \in AuthIds : current[i] # Gone} \ {{}} :
        /\ current' = [i \in AuthIds |-> IF i \in drop THEN Gone ELSE current[i]]
        /\ forgotten' = forgotten \cup drop
  BY DEF Forget
<1>2. current' \in [AuthIds -> AuthStates] /\ forgotten' \subseteq AuthIds
  BY <1>1 DEF Typed, DispatchTypeOK, AuthStates
<1>3. PICK next : next = refreshers'
  OBVIOUS
<1>4. next \in [Refreshers -> Refresher] /\ next[t].pc = "reload" /\ next[t].updates = refreshers[t].updates
      /\ \A o \in Refreshers \ {t} : next[o] = refreshers[o]
  <2>1. next = [refreshers EXCEPT ![t].pc = "reload"]
    BY <1>3 DEF Forget
  <2>2. next[t] = [refreshers[t] EXCEPT !.pc = "reload"] /\ \A o \in Refreshers \ {t} : next[o] = refreshers[o]
    BY <2>1, RefresherFields
  <2>3. next[t] \in Refresher /\ next[t].pc = "reload" /\ next[t].updates = refreshers[t].updates
    BY <2>2, RefresherFields DEF Refresher
  <2>4. DOMAIN next = Refreshers /\ next = [o \in DOMAIN next |-> next[o]]
    BY <2>1, RefresherFields
  <2>5. \A o \in Refreshers : next[o] \in Refresher
    BY <2>2, <2>3, RefresherFields
  <2>6. QED
    BY <2>2, <2>3, <2>4, <2>5
<1>5. InHands'
  <2>1. refreshers[t].updates = NoUpdates
    BY DEF Forget, Typed, InHands
  <2>2. UNCHANGED loop
    BY DEF Forget
  <2>3. QED
    BY <1>3, <1>4, <2>1, <2>2 DEF Typed, InHands
<1>6. \A o \in Refreshers : refreshers'[o].updates = refreshers[o].updates
  BY <1>3, <1>4
<1>7. QED
  BY <1>2, <1>3, <1>4, <1>5, <1>6 DEF Typed, DispatchTypeOK, Forget

LEMMA SnapshotTyped ==
  ASSUME Typed, NEW t \in Refreshers, Snapshot(t)
  PROVE  Typed' /\ \A o \in Refreshers : refreshers'[o].updates = refreshers[o].updates
<1>1. PICK found \in [FileAuths -> AuthStates] :
        refreshers' = [refreshers EXCEPT ![t].pc = "diff", ![t].found = found, ![t].left = @ - 1]
  BY DEF Snapshot
<1>2. PICK next : next = refreshers'
  OBVIOUS
<1>3. PICK left \in Nat : left = refreshers[t].left - 1
  BY RefresherFields DEF Snapshot
<1>4. next[t] = [refreshers[t] EXCEPT !.pc = "diff", !.found = found, !.left = left]
      /\ \A o \in Refreshers \ {t} : next[o] = refreshers[o]
  BY <1>1, <1>2, <1>3, RefresherFields
<1>5. next[t] \in Refresher /\ next[t].pc = "diff" /\ next[t].updates = refreshers[t].updates
  BY <1>4, RefresherFields DEF Refresher
<1>6. next \in [Refreshers -> Refresher]
  <2>1. DOMAIN next = Refreshers /\ next = [o \in DOMAIN next |-> next[o]]
    BY <1>1, <1>2, RefresherFields
  <2>2. \A o \in Refreshers : next[o] \in Refresher
    BY <1>4, <1>5, RefresherFields
  <2>3. QED
    BY <2>1, <2>2
<1>7. InHands'
  <2>1. refreshers[t].updates = NoUpdates
    BY DEF Snapshot, Typed, InHands
  <2>2. UNCHANGED loop
    BY DEF Snapshot
  <2>3. QED
    BY <1>2, <1>4, <1>5, <2>1, <2>2 DEF Typed, InHands
<1>8. \A o \in Refreshers : refreshers'[o].updates = refreshers[o].updates
  BY <1>2, <1>4, <1>5
<1>9. QED
  BY <1>2, <1>6, <1>7, <1>8 DEF Typed, DispatchTypeOK, Snapshot

\* A diff: what it finds becomes current, and what changed is in its hands.
LEMMA PrepareTyped ==
  ASSUME Typed, NEW t \in Refreshers, PrepareAuthUpdates(t)
  PROVE  /\ Typed'
         /\ \E ids \in SUBSET AuthIds :
              /\ DOMAIN refreshers'[t].updates = ids
              /\ \A i \in ids : refreshers'[t].updates[i] = current'[i]
              /\ heldTwice' = heldTwice \cup (ids \cap HeldUpdates)
              /\ Attached => \A i \in AuthIds \ ids : current'[i] = current[i]
         /\ forgotten' = {i \in forgotten : current'[i] = Gone}
         /\ \A o \in Refreshers \ {t} : refreshers'[o] = refreshers[o]
<1> DEFINE new == Known(refreshers[t].found)
<1>1. PICK force \in BOOLEAN :
        LET ids == IF Attached THEN Changed(new, force) ELSE {}
        IN /\ refreshers' = [refreshers EXCEPT
                     ![t].pc = IF ids = {} THEN "idle" ELSE "dispatch",
                     ![t].found = NothingFound,
                     ![t].updates = [i \in ids |-> new[i]]]
           /\ heldTwice' = heldTwice \cup (ids \cap HeldUpdates)
  BY DEF PrepareAuthUpdates
<1> DEFINE ids == IF Attached THEN Changed(new, force) ELSE {}
<1>2. new \in [AuthIds -> AuthStates]
  BY RefresherFields DEF Known, Typed, DispatchTypeOK, AuthIds
<1>3. current' = new /\ forgotten' = {i \in forgotten : new[i] = Gone}
  BY DEF PrepareAuthUpdates
<1>4. ids \in SUBSET AuthIds /\ (Attached => \A i \in AuthIds \ ids : new[i] = current[i])
  BY DEF Changed
<1>5. PICK us : us = [i \in ids |-> new[i]]
  OBVIOUS
<1>6. PICK pc : pc = IF ids = {} THEN "idle" ELSE "dispatch"
  OBVIOUS
<1>7. PICK next : next = refreshers'
  OBVIOUS
<1>8. next = [refreshers EXCEPT ![t].pc = pc, ![t].found = NothingFound, ![t].updates = us]
      /\ heldTwice' = heldTwice \cup (ids \cap HeldUpdates)
  BY <1>1, <1>5, <1>6, <1>7
<1> HIDE DEF ids, new
<1>9. us \in Updates /\ DOMAIN us = ids /\ \A i \in ids : us[i] = new[i]
  <2>1. DOMAIN us = ids /\ us = [i \in DOMAIN us |-> us[i]] /\ \A i \in ids : us[i] = new[i]
    BY <1>5
  <2>2. QED
    BY <1>2, <1>4, <2>1, UpdatesFacts
<1>10. NothingFound \in [FileAuths -> AuthStates]
  BY DEF NothingFound, AuthStates
<1>11. next[t] = [refreshers[t] EXCEPT !.pc = pc, !.found = NothingFound, !.updates = us]
       /\ \A o \in Refreshers \ {t} : next[o] = refreshers[o]
  BY <1>8, RefresherFields
<1>12. next[t] \in Refresher /\ next[t].pc = pc /\ next[t].updates = us
  BY <1>6, <1>9, <1>10, <1>11, RefresherFields DEF Refresher
<1>13. next \in [Refreshers -> Refresher]
  <2>1. DOMAIN next = Refreshers /\ next = [o \in DOMAIN next |-> next[o]]
    BY <1>8, RefresherFields
  <2>2. \A o \in Refreshers : next[o] \in Refresher
    BY <1>11, <1>12, RefresherFields
  <2>3. QED
    BY <2>1, <2>2
<1>14. pc # "dispatch" => us = NoUpdates
  BY <1>5, <1>6 DEF NoUpdates
<1>15. InHands'
  <2>1. UNCHANGED loop
    BY DEF PrepareAuthUpdates
  <2>2. QED
    BY <1>7, <1>11, <1>12, <1>14, <2>1 DEF Typed, InHands
<1>16. heldTwice' \subseteq AuthIds /\ forgotten' \subseteq AuthIds
  BY <1>3, <1>4, <1>8 DEF Typed, DispatchTypeOK
<1>17. Typed'
  BY <1>2, <1>3, <1>7, <1>13, <1>15, <1>16 DEF Typed, DispatchTypeOK, PrepareAuthUpdates
<1>18. /\ DOMAIN refreshers'[t].updates = ids
       /\ \A i \in ids : refreshers'[t].updates[i] = current'[i]
       /\ Attached => \A i \in AuthIds \ ids : current'[i] = current[i]
  BY <1>3, <1>4, <1>7, <1>9, <1>12
<1>19. forgotten' = {i \in forgotten : current'[i] = Gone}
  BY <1>3
<1>20. \A o \in Refreshers \ {t} : refreshers'[o] = refreshers[o]
  BY <1>7, <1>11
<1>21. QED
  BY <1>4, <1>8, <1>17, <1>18, <1>19, <1>20


LEMMA DispatchTyped ==
  ASSUME Typed, NEW t \in Refreshers, Dispatch(t)
  PROVE  /\ Typed' /\ DOMAIN refreshers'[t].updates = {}
         /\ \A o \in Refreshers \ {t} : refreshers'[o] = refreshers[o]
         /\ loop'.batch = loop.batch
         /\ \/ ~Attached /\ pending' = pending
            \/ Attached /\ pending' = Merged(pending, refreshers[t].updates)
<1>1. /\ pending' \in Updates /\ Lists(order', DOMAIN pending')
      /\ loop' \in Loop /\ loop'.batch = loop.batch /\ (loop'.pc = "sending" <=> loop.pc = "sending")
      /\ \/ ~Attached /\ pending' = pending
         \/ Attached /\ pending' = Merged(pending, refreshers[t].updates)
  <2>1. refreshers[t].updates \in Updates /\ DispatchAuthUpdates(refreshers[t].updates)
    BY RefresherFields DEF Dispatch
  <2>2. QED
    BY <2>1, Dispatched
<1>2. order' \in Seq(AuthIds) /\ IsInjective(order') /\ ToSet(order') = DOMAIN pending'
  <2>1. \A o : Lists(o, DOMAIN pending') <=>
                 o \in Seq(AuthIds) /\ IsInjective(o) /\ ToSet(o) = DOMAIN pending'
    BY <1>1, OrderLists
  <2>2. QED
    BY <1>1, <2>1
<1>3. PICK next : next = refreshers'
  OBVIOUS
<1>4. next = [refreshers EXCEPT ![t].pc = "idle", ![t].updates = NoUpdates]
  BY <1>3 DEF Dispatch
<1>5. next[t] = [refreshers[t] EXCEPT !.pc = "idle", !.updates = NoUpdates]
      /\ \A o \in Refreshers \ {t} : next[o] = refreshers[o]
  BY <1>4, RefresherFields
<1>6. next[t] \in Refresher /\ next[t].pc = "idle" /\ next[t].updates = NoUpdates
  BY <1>5, RefresherFields, NoUpdatesFacts DEF Refresher
<1>7. next \in [Refreshers -> Refresher]
  <2>1. DOMAIN next = Refreshers /\ next = [o \in DOMAIN next |-> next[o]]
    BY <1>4, RefresherFields
  <2>2. \A o \in Refreshers : next[o] \in Refresher
    BY <1>5, <1>6, RefresherFields
  <2>3. QED
    BY <2>1, <2>2
<1>8. InHands'
  BY <1>1, <1>3, <1>5, <1>6 DEF Typed, InHands
<1>9. DispatchTypeOK'
  BY <1>1, <1>2, <1>3, <1>7 DEF Typed, DispatchTypeOK, Dispatch
<1>10. QED
  BY <1>1, <1>3, <1>5, <1>6, <1>8, <1>9, NoUpdatesFacts DEF Typed

LEMMA RelayFields ==
  ASSUME Typed, NEW i \in RuntimeAuths
  PROVE  /\ relays \in [RuntimeAuths -> Relay] /\ relays[i] \in Relay
         /\ relays[i].updates \in Updates /\ relays[i].left \in 0..RelayLimit
<1>1. relays \in [RuntimeAuths -> Relay] /\ relays[i] \in Relay
  BY DEF Typed, DispatchTypeOK
<1>2. QED
  BY <1>1 DEF Relay

\* A websocket connects or disconnects: its relay holds what became current.
LEMMA RelayTyped ==
  ASSUME Typed, NEW i \in RuntimeAuths, RelayUpdate(i)
  PROVE  /\ Typed'
         /\ DOMAIN relays'[i].updates = {i} /\ relays'[i].updates[i] = current'[i]
         /\ \A j \in RuntimeAuths \ {i} : relays'[j] = relays[j]
         /\ \A j \in AuthIds \ {i} : current'[j] = current[j]
<1>1. PICK auth \in IF runtime[i] = Gone THEN AuthContents ELSE {Gone} :
        /\ runtime' = [runtime EXCEPT ![i] = auth]
        /\ current' = [current EXCEPT ![i] = auth]
        /\ relays' = [relays EXCEPT ![i].updates = [j \in {i} |-> auth], ![i].left = @ - 1]
  BY DEF RelayUpdate
<1>2. auth \in AuthStates /\ i \in AuthIds
  BY DEF AuthStates, AuthIds
<1>3. /\ runtime' \in [RuntimeAuths -> AuthStates] /\ current' \in [AuthIds -> AuthStates]
      /\ current'[i] = auth /\ \A j \in AuthIds \ {i} : current'[j] = current[j]
  BY <1>1, <1>2 DEF Typed, DispatchTypeOK
<1>4. PICK us : us = [j \in {i} |-> auth]
  OBVIOUS
<1>5. us \in Updates /\ DOMAIN us = {i} /\ us[i] = auth
  <2>1. DOMAIN us = {i} /\ us[i] = auth /\ us = [j \in DOMAIN us |-> us[j]]
    BY <1>4
  <2>2. QED
    BY <1>2, <2>1, UpdatesFacts
<1>6. PICK left \in 0..RelayLimit : left = relays[i].left - 1
  BY RelayFields, DispatchAssumption DEF RelayUpdate
<1>7. PICK next : next = relays'
  OBVIOUS
<1>8. next[i] = [relays[i] EXCEPT !.updates = us, !.left = left]
      /\ \A j \in RuntimeAuths \ {i} : next[j] = relays[j]
  BY <1>1, <1>4, <1>6, <1>7, RelayFields
<1>9. next[i] \in Relay /\ next[i].updates = us
  BY <1>5, <1>8, RelayFields DEF Relay
<1>10. next \in [RuntimeAuths -> Relay]
  <2>1. DOMAIN next = RuntimeAuths /\ next = [j \in DOMAIN next |-> next[j]]
    BY <1>1, <1>7, RelayFields
  <2>2. \A j \in RuntimeAuths : next[j] \in Relay
    BY <1>8, <1>9, RelayFields
  <2>3. QED
    BY <2>1, <2>2
<1>11. heldTwice' \subseteq AuthIds /\ forgotten' \subseteq AuthIds
  BY <1>2 DEF RelayUpdate, Typed, DispatchTypeOK
<1>12. Typed'
  BY <1>3, <1>7, <1>10, <1>11 DEF Typed, DispatchTypeOK, InHands, RelayUpdate
<1>13. QED
  BY <1>3, <1>5, <1>7, <1>8, <1>9, <1>12

LEMMA RelayDispatchTyped ==
  ASSUME Typed, NEW i \in RuntimeAuths, RelayDispatch(i)
  PROVE  /\ Typed' /\ DOMAIN relays'[i].updates = {}
         /\ \A j \in RuntimeAuths \ {i} : relays'[j] = relays[j]
         /\ loop'.batch = loop.batch
         /\ \/ ~Attached /\ pending' = pending
            \/ Attached /\ pending' = Merged(pending, relays[i].updates)
<1>1. /\ pending' \in Updates /\ Lists(order', DOMAIN pending')
      /\ loop' \in Loop /\ loop'.batch = loop.batch /\ (loop'.pc = "sending" <=> loop.pc = "sending")
      /\ \/ ~Attached /\ pending' = pending
         \/ Attached /\ pending' = Merged(pending, relays[i].updates)
  <2>1. relays[i].updates \in Updates /\ DispatchAuthUpdates(relays[i].updates)
    BY RelayFields DEF RelayDispatch
  <2>2. QED
    BY <2>1, Dispatched
<1>2. order' \in Seq(AuthIds) /\ IsInjective(order') /\ ToSet(order') = DOMAIN pending'
  <2>1. \A o : Lists(o, DOMAIN pending') <=>
                 o \in Seq(AuthIds) /\ IsInjective(o) /\ ToSet(o) = DOMAIN pending'
    BY <1>1, OrderLists
  <2>2. QED
    BY <1>1, <2>1
<1>3. PICK next : next = relays'
  OBVIOUS
<1>4. next = [relays EXCEPT ![i].updates = NoUpdates]
  BY <1>3 DEF RelayDispatch
<1>5. next[i] = [relays[i] EXCEPT !.updates = NoUpdates]
      /\ \A j \in RuntimeAuths \ {i} : next[j] = relays[j]
  BY <1>4, RelayFields
<1>6. next[i] \in Relay /\ next[i].updates = NoUpdates
  BY <1>5, RelayFields, NoUpdatesFacts DEF Relay
<1>7. next \in [RuntimeAuths -> Relay]
  <2>1. DOMAIN next = RuntimeAuths /\ next = [j \in DOMAIN next |-> next[j]]
    BY <1>4, RelayFields
  <2>2. \A j \in RuntimeAuths : next[j] \in Relay
    BY <1>5, <1>6, RelayFields
  <2>3. QED
    BY <2>1, <2>2
<1>8. InHands'
  BY <1>1 DEF Typed, InHands, RelayDispatch
<1>9. DispatchTypeOK'
  BY <1>1, <1>2, <1>3, <1>7 DEF Typed, DispatchTypeOK, RelayDispatch
<1>10. QED
  BY <1>1, <1>3, <1>5, <1>6, <1>8, <1>9, NoUpdatesFacts DEF Typed

\* A step of the loop moves updates on, or gives them up once cancelled.
LEMMA LoopTyped ==
  ASSUME Typed, LoopStep
  PROVE  /\ Typed'
         /\ \/ queue' \o loop'.batch = queue \o loop.batch /\ pending' = pending
            \/ loop.batch = <<>> /\ queue' = queue /\ loop'.batch = Batch(order, pending) /\ pending' = NoUpdates
            \/ Cancelled /\ queue' = queue /\ loop'.batch = <<>> /\ pending' = pending
<1>1. loop \in Loop /\ loop.batch \in Seq(Update) /\ queue \in Seq(Update) /\ Len(queue) <= QueueSize
      /\ pending \in Updates /\ Lists(order, DOMAIN pending)
  BY OrderLists DEF Typed, DispatchTypeOK, Loop
<1>2. CASE Wait \/ LeaveWait
  <2>1. /\ loop' \in Loop /\ loop'.batch = loop.batch /\ loop.pc # "sending" /\ loop'.pc # "sending"
        /\ UNCHANGED <<pending, order, queue>>
    BY <1>1, <1>2 DEF Wait, LeaveWait, Loop
  <2>2. QED
    BY <2>1 DEF Typed, DispatchTypeOK, InHands, LoopStep
<1>3. CASE TakeBatch
  <2>1. loop' = [pc |-> "sending", batch |-> Batch(order, pending)]
        /\ pending' = NoUpdates /\ order' = <<>> /\ queue' = queue /\ order # <<>>
        /\ loop.pc # "sending"
    BY <1>3 DEF TakeBatch, Batch
  <2>2. Batch(order, pending) \in Seq(Update) /\ Len(Batch(order, pending)) = Len(order)
        /\ order \in Seq(DOMAIN pending)
    BY <1>1, BatchTyped DEF Lists
  <2>3. Batch(order, pending) # <<>>
    BY <2>1, <2>2
  <2>4. loop' \in Loop /\ loop'.batch = Batch(order, pending) /\ loop'.pc = "sending"
    BY <2>1, <2>2 DEF Loop
  <2>5. pending' \in Updates /\ order' \in Seq(AuthIds) /\ IsInjective(order') /\ ToSet(order') = DOMAIN pending'
    <3>1. Lists(<<>>, DOMAIN NoUpdates)
      BY NoUpdatesFacts, EmptySeq DEF Lists
    <3>2. QED
      BY <2>1, <3>1, NoUpdatesFacts, OrderLists
  <2>6. loop.batch = <<>>
    BY <2>1 DEF Typed, InHands
  <2>7. Typed'
    BY <2>1, <2>3, <2>4, <2>5 DEF Typed, DispatchTypeOK, InHands, LoopStep
  <2>8. QED
    BY <2>1, <2>4, <2>6, <2>7
<1>4. CASE Send
  <2>1. loop.batch # <<>> /\ Len(queue) < QueueSize
    BY <1>4 DEF Send, Typed, InHands
  <2>2. /\ queue' = Append(queue, Head(loop.batch)) /\ loop'.batch = Tail(loop.batch)
        /\ loop'.pc = IF Len(loop.batch) = 1 THEN "idle" ELSE "sending"
        /\ loop' = [pc |-> loop'.pc, batch |-> loop'.batch]
        /\ UNCHANGED <<pending, order>>
    BY <1>4 DEF Send
  <2>3. queue' \o loop'.batch = queue \o loop.batch /\ queue' \in Seq(Update) /\ loop'.batch \in Seq(Update)
    BY <1>1, <2>1, <2>2, SentKept
  <2>4. Len(queue') <= QueueSize
    <3>1. Len(queue') = Len(queue) + 1 /\ Len(queue) \in Nat
      BY <1>1, <2>1, <2>2, SentKept, AppendProperties
    <3>2. QED
      BY <2>1, <3>1, DispatchAssumption
  <2>5. loop' \in Loop
    BY <2>2, <2>3 DEF Loop
  <2>6. loop'.batch # <<>> <=> loop'.pc = "sending"
    <3>1. Tail(loop.batch) # <<>> <=> Len(loop.batch) # 1
      <4>1. Tail(loop.batch) \in Seq(Update) /\ Len(Tail(loop.batch)) = Len(loop.batch) - 1
            /\ Len(loop.batch) \in Nat
        BY <1>1, <2>1, HeadTailProperties
      <4>2. Tail(loop.batch) = <<>> <=> Len(Tail(loop.batch)) = 0
        BY <4>1, EmptySeq
      <4>3. QED
        BY <4>1, <4>2
    <3>2. QED
      BY <2>2, <3>1
  <2>7. Typed'
    BY <2>2, <2>3, <2>4, <2>5, <2>6 DEF Typed, DispatchTypeOK, InHands, LoopStep
  <2>8. QED
    BY <2>2, <2>3, <2>7
<1>5. CASE LeaveSend
  <2>1. loop' \in Loop /\ loop'.batch = <<>> /\ loop'.pc = "ended" /\ Cancelled
        /\ UNCHANGED <<pending, order, queue>>
    BY <1>5, EmptySeq DEF LeaveSend, Loop
  <2>2. QED
    BY <2>1 DEF Typed, DispatchTypeOK, InHands, LoopStep
<1>6. QED
  BY <1>2, <1>3, <1>4, <1>5 DEF LoopStep

LEMMA ConsumeTyped ==
  ASSUME Typed, ConsumeUpdate
  PROVE  Typed'
<1>1. queue \in Seq(Update) /\ queue # <<>> /\ Len(queue) \in Nat /\ Len(queue) <= QueueSize
  BY DEF Typed, DispatchTypeOK, ConsumeUpdate
<1>2. Head(queue) \in Update /\ Tail(queue) \in Seq(Update) /\ Len(Tail(queue)) = Len(queue) - 1
  BY <1>1, HeadTailProperties
<1>3. Len(Tail(queue)) <= QueueSize
  BY <1>1, <1>2, DispatchAssumption
<1>4. applied' \in [AuthIds -> AuthStates]
  BY <1>2 DEF ConsumeUpdate, Typed, DispatchTypeOK, Update
<1>5. QED
  BY <1>2, <1>3, <1>4 DEF Typed, DispatchTypeOK, InHands, ConsumeUpdate

LEMMA ConsumerTyped ==
  ASSUME Typed, ConsumerDrained \/ ConsumerEnds
  PROVE  Typed'
BY DEF Typed, DispatchTypeOK, InHands, ConsumerDrained, ConsumerEnds

LEMMA StopTyped ==
  ASSUME Typed, StopStep
  PROVE  /\ Typed' /\ loop'.batch = loop.batch
         /\ \/ pending' = pending
            \/ Cancelled /\ pending' = NoUpdates
<1>1. CASE StopCancel \/ StopDetach
  BY <1>1 DEF StopCancel, StopDetach, StopStep, Typed, DispatchTypeOK, InHands
<1>2. CASE StopClear
  <2>1. loop' \in Loop /\ loop'.batch = loop.batch /\ (loop'.pc = "sending" <=> loop.pc = "sending")
    BY <1>2 DEF StopClear, Typed, DispatchTypeOK, Loop
  <2>2. pending' = NoUpdates /\ order' = <<>> /\ Cancelled /\ stop' = "cleared"
    BY <1>2 DEF StopClear, Cancelled
  <2>3. pending' \in Updates /\ order' \in Seq(AuthIds) /\ IsInjective(order') /\ ToSet(order') = DOMAIN pending'
    <3>1. Lists(<<>>, DOMAIN NoUpdates)
      BY NoUpdatesFacts, EmptySeq DEF Lists
    <3>2. QED
      BY <2>2, <3>1, NoUpdatesFacts, OrderLists
  <2>4. Typed'
    BY <2>1, <2>2, <2>3 DEF Typed, DispatchTypeOK, InHands, StopStep
  <2>5. QED
    BY <2>1, <2>2, <2>4
<1>3. QED
  BY <1>1, <1>2 DEF StopStep

LEMMA StepsTyped ==
  Typed /\ [DispatchNext]_dispatchVars => Typed'
<1> SUFFICES ASSUME Typed, [DispatchNext]_dispatchVars PROVE Typed'
  OBVIOUS
<1>1. ASSUME NEW t \in Refreshers, Forget(t) \/ Snapshot(t) \/ PrepareAuthUpdates(t) \/ Dispatch(t)
      PROVE  Typed'
  BY <1>1, ForgetTyped, SnapshotTyped, PrepareTyped, DispatchTyped
<1>2. ASSUME NEW i \in RuntimeAuths, RelayUpdate(i) \/ RelayDispatch(i) PROVE Typed'
  BY <1>2, RelayTyped, RelayDispatchTyped
<1>3. CASE LoopStep \/ ConsumerStep \/ ConsumerEnds \/ StopStep
  BY <1>3, LoopTyped, ConsumeTyped, ConsumerTyped, StopTyped DEF ConsumerStep
<1>4. CASE UNCHANGED dispatchVars
  BY <1>4 DEF dispatchVars, Typed, DispatchTypeOK, InHands
<1>5. QED
  BY <1>1, <1>2, <1>3, <1>4 DEF DispatchNext

----------------------------------------------------------------------------
(* The mailboxes.                                                          *)

LEMMA WayOfEach ==
  ASSUME NEW i
  PROVE  /\ OnTheWay(i) = Way(i, queue, loop.batch, pending)
         /\ OnTheWay(i)' = Way(i, queue', loop'.batch, pending')
  BY DEF OnTheWay, Way, Waiting

\* What is pending and in the loop's hands, for the lemmas on ways.
LEMMA HeldFacts ==
  ASSUME Typed
  PROVE  /\ queue \in Seq(Update) /\ loop.batch \in Seq(Update) /\ pending \in Updates
         /\ Lists(order, DOMAIN pending)
  BY OrderLists DEF Typed, DispatchTypeOK, Loop

\* Updates become owed, at the end of their mailboxes.
LEMMA MergeSubmits ==
  ASSUME Typed, NEW us \in Updates, pending' = Merged(pending, us),
         loop'.batch = loop.batch, queue' = queue, UNCHANGED <<applied, stop, consumer>>
  PROVE  Mail!Submit
<1>1. ASSUME NEW i \in AuthIds PROVE OnTheWay(i)' \in Mail!Extended(OnTheWay(i))
  <2>1. PICK q \in Seq(Update), b \in Seq(Update), p \in Updates :
          q = queue /\ b = loop.batch /\ p = pending
    BY HeldFacts
  <2>2. OnTheWay(i) = Way(i, q, b, p) /\ OnTheWay(i)' = Way(i, q, b, Merged(p, us))
    BY <2>1, WayOfEach
  <2>3. CASE i \notin DOMAIN us
    <3>1. Way(i, q, b, Merged(p, us)) = Way(i, q, b, p)
      BY <2>3, WayMerged
    <3>2. QED
      BY <2>2, <3>1 DEF Mail!Extended
  <2>4. CASE i \in DOMAIN us
    <3>1. us[i] \in AuthStates
      BY <2>4, UpdatesFacts
    <3>2. \/ Way(i, q, b, Merged(p, us)) = Append(Way(i, q, b, p), us[i])
          \/ /\ Way(i, q, b, p) # <<>>
             /\ Way(i, q, b, Merged(p, us)) = Append(Front(Way(i, q, b, p)), us[i])
      BY <2>4, WayMerged
    <3>3. PICK box, more, s : box = OnTheWay(i) /\ more = OnTheWay(i)' /\ s = us[i]
      OBVIOUS
    <3>4. s \in AuthStates /\ (more = Append(box, s) \/ (box # <<>> /\ more = Append(Front(box), s)))
      BY <2>2, <3>1, <3>2, <3>3
    <3>5. more \in Mail!Extended(box)
      <4>1. CASE more = Append(box, s)
        BY <3>4, <4>1 DEF Mail!Extended
      <4>2. CASE box # <<>> /\ more = Append(Front(box), s)
        <5>1. more \in IF box = <<>> THEN {} ELSE {Append(Front(box), e) : e \in AuthStates}
          BY <3>4, <4>2
        <5>2. QED
          BY <5>1 DEF Mail!Extended, Mail!Front, Front
      <4>3. QED
        BY <3>4, <4>1, <4>2
    <3>6. QED
      BY <3>3, <3>5
  <2>5. QED
    BY <2>3, <2>4
<1>2. DeliveryOver' = DeliveryOver
  BY DEF DeliveryOver, Cancelled
<1>3. QED
  BY <1>1, <1>2 DEF Mail!Submit

\* What stays on the way stays owed.
LEMMA WaysStay ==
  ASSUME \A i \in AuthIds : OnTheWay(i)' = OnTheWay(i), UNCHANGED <<applied, stop, consumer>>
  PROVE  UNCHANGED Mail!mailVars
  BY DEF Mail!mailVars, DeliveryOver, Cancelled

LEMMA UnchangedWays ==
  ASSUME queue' = queue, loop'.batch = loop.batch, pending' = pending
  PROVE  \A i \in AuthIds : OnTheWay(i)' = OnTheWay(i)
  BY WayOfEach

\* The loop moves updates on.
LEMMA LoopWays ==
  ASSUME Typed, LoopStep, NEW i \in AuthIds
  PROVE  \/ OnTheWay(i)' = OnTheWay(i)
         \/ Cancelled /\ Mail!PartOf(OnTheWay(i)', OnTheWay(i))
<1>1. PICK q \in Seq(Update), b \in Seq(Update), p \in Updates :
        q = queue /\ b = loop.batch /\ p = pending
  BY HeldFacts
<1>2. CASE queue' \o loop'.batch = queue \o loop.batch /\ pending' = pending
  BY <1>2, WayOfEach DEF Way
<1>3. CASE loop.batch = <<>> /\ queue' = queue /\ loop'.batch = Batch(order, pending) /\ pending' = NoUpdates
  <2>1. Way(i, q, Batch(order, p), NoUpdates) = Way(i, q, <<>>, p)
    <3>1. Lists(order, DOMAIN p)
      BY <1>1, HeldFacts
    <3>2. QED
      BY <3>1, WayBatched
  <2>2. QED
    BY <1>1, <1>3, <2>1, WayOfEach
<1>4. CASE Cancelled /\ queue' = queue /\ loop'.batch = <<>> /\ pending' = pending
  <2>1. PICK w \in Seq(AuthStates), s \in Seq(AuthStates) : w = Waiting(i, p) /\ s = StatesOf(i, q)
    BY WaitingTyped, StatesTyped
  <2>2. PICK r \in Seq(AuthStates) : StatesOf(i, q \o b) = s \o r
    <3>1. \A later \in Seq(Update) : \E rest \in Seq(AuthStates) :
            StatesOf(i, q \o later) = StatesOf(i, q) \o rest
      BY StatesOfLonger
    <3>2. QED
      BY <2>1, <3>1
  <2>3. OnTheWay(i) = (s \o r) \o w
    BY <1>1, <2>1, <2>2, WayOfEach DEF Way
  <2>4. q \o <<>> = q
    BY ConcatEmptySeq
  <2>5. OnTheWay(i)' = s \o w
    BY <1>1, <1>4, <2>1, <2>4, WayOfEach DEF Way
  <2>6. Mail!PartOf(s \o w, (s \o r) \o w)
    BY PartKept
  <2>7. QED
    BY <1>4, <2>3, <2>5, <2>6
<1>5. QED
  BY <1>2, <1>3, <1>4, LoopTyped

LEMMA WayPartOfItself ==
  ASSUME Typed, NEW i \in AuthIds
  PROVE  Mail!PartOf(OnTheWay(i), OnTheWay(i))
<1>1. PICK w \in Seq(AuthStates) : w = OnTheWay(i)
  BY HeldFacts, WayTyped, WayOfEach
<1>2. <<>> \in Seq(AuthStates) /\ w \o <<>> = w
  BY EmptySeq, ConcatEmptySeq
<1>3. Mail!PartOf(w \o <<>>, (w \o <<>>) \o <<>>)
  BY <1>2, PartKept
<1>4. QED
  BY <1>1, <1>2, <1>3

LEMMA LoopImplements ==
  ASSUME Typed, LoopStep
  PROVE  Mail!Abandon \/ UNCHANGED Mail!mailVars
<1>1. UNCHANGED <<applied, stop, consumer>> /\ DeliveryOver' = DeliveryOver
  BY DEF LoopStep, DeliveryOver, Cancelled
<1>2. CASE Cancelled
  <2>1. ASSUME NEW i \in AuthIds PROVE Mail!PartOf(OnTheWay(i)', OnTheWay(i))
    BY LoopWays, WayPartOfItself
  <2>2. QED
    BY <1>1, <1>2, <2>1 DEF Mail!Abandon, DeliveryOver
<1>3. CASE ~Cancelled
  <2>1. \A i \in AuthIds : OnTheWay(i)' = OnTheWay(i)
    BY <1>3, LoopWays
  <2>2. QED
    BY <1>1, <2>1, WaysStay
<1>4. QED
  BY <1>2, <1>3

\* The consumer is handed the oldest update of a mailbox.
LEMMA ConsumeWays ==
  ASSUME Typed, ConsumeUpdate, NEW i \in AuthIds
  PROVE  OnTheWay(i) = (IF Head(queue).id = i THEN <<Head(queue).auth>> ELSE <<>>) \o OnTheWay(i)'
         /\ OnTheWay(i)' \in Seq(AuthStates)
<1>1. PICK q \in Seq(Update), b \in Seq(Update), p \in Updates :
        q = queue /\ b = loop.batch /\ p = pending
  BY HeldFacts
<1>2. q # <<>> /\ queue' = Tail(q) /\ loop' = loop /\ pending' = pending
  BY <1>1 DEF ConsumeUpdate
<1>3. Way(i, q, b, p) = (IF Head(q).id = i THEN <<Head(q).auth>> ELSE <<>>) \o Way(i, Tail(q), b, p)
  BY <1>2, WayConsumed
<1>4. OnTheWay(i)' = Way(i, Tail(q), b, p) /\ Tail(q) \in Seq(Update)
  BY <1>1, <1>2, WayOfEach, HeadTailProperties
<1>5. OnTheWay(i)' \in Seq(AuthStates)
  BY <1>4, WayTyped
<1>6. QED
  BY <1>1, <1>3, <1>4, <1>5, WayOfEach

LEMMA ConsumeImplements ==
  ASSUME Typed, ConsumeUpdate
  PROVE  \E i \in AuthIds : Mail!Hand(i)
<1>1. PICK i, s : i = Head(queue).id /\ s = Head(queue).auth
  OBVIOUS
<1>2. i \in AuthIds /\ s \in AuthStates
  <2>1. Head(queue) \in Update
    BY HeldFacts, HeadTailProperties DEF ConsumeUpdate
  <2>2. QED
    BY <1>1, <2>1 DEF Update
<1>3. PICK rest \in Seq(AuthStates) : rest = OnTheWay(i)' /\ OnTheWay(i) = <<s>> \o rest
  BY <1>1, <1>2, ConsumeWays
<1>4. <<s>> \o rest # <<>> /\ Head(<<s>> \o rest) = s /\ Tail(<<s>> \o rest) = rest
  BY <1>2
<1>5. ASSUME NEW j \in AuthIds \ {i} PROVE OnTheWay(j)' = OnTheWay(j)
  <2>1. PICK w \in Seq(AuthStates) : w = OnTheWay(j)' /\ OnTheWay(j) = <<>> \o w
    BY <1>1, ConsumeWays
  <2>2. QED
    BY <2>1, ConcatEmptySeq
<1>6. [j \in AuthIds |-> OnTheWay(j)]' = [[j \in AuthIds |-> OnTheWay(j)] EXCEPT ![i] = rest]
  BY <1>2, <1>3, <1>5
<1>7. applied' = [applied EXCEPT ![i] = s] /\ DeliveryOver' = DeliveryOver
  BY <1>1 DEF ConsumeUpdate, DeliveryOver, Cancelled
<1>8. Mail!Hand(i)
  BY <1>2, <1>3, <1>4, <1>6, <1>7 DEF Mail!Hand
<1>9. QED
  BY <1>2, <1>8

\* A consumer that goes leaves what is on its way where it is.
LEMMA ConsumerImplements ==
  ASSUME Typed, ConsumerDrained \/ ConsumerEnds
  PROVE  Mail!Close \/ UNCHANGED Mail!mailVars
<1>1. UNCHANGED <<queue, loop, pending, applied, stop>>
  BY DEF ConsumerDrained, ConsumerEnds
<1>2. \A i \in AuthIds : OnTheWay(i)' = OnTheWay(i)
  BY <1>1, UnchangedWays
<1>3. DeliveryOver' = DeliveryOver \/ DeliveryOver' = TRUE
  BY <1>1 DEF DeliveryOver, Cancelled, ConsumerDrained, ConsumerEnds
<1>4. QED
  BY <1>1, <1>2, <1>3 DEF Mail!Close, Mail!mailVars

LEMMA StopImplements ==
  ASSUME Typed, StopStep
  PROVE  Mail!Close \/ Mail!Abandon \/ UNCHANGED Mail!mailVars
<1>1. UNCHANGED <<applied, queue, consumer>> /\ loop'.batch = loop.batch
  BY StopTyped DEF StopStep
<1>2. CASE StopCancel
  <2>1. \A i \in AuthIds : OnTheWay(i)' = OnTheWay(i)
    BY <1>1, <1>2, UnchangedWays DEF StopCancel
  <2>2. DeliveryOver' = TRUE
    BY <1>2 DEF StopCancel, DeliveryOver, Cancelled
  <2>3. QED
    BY <1>1, <2>1, <2>2 DEF Mail!Close
<1>3. CASE StopDetach
  <2>1. \A i \in AuthIds : OnTheWay(i)' = OnTheWay(i)
    BY <1>1, <1>3, UnchangedWays DEF StopDetach
  <2>2. DeliveryOver' = DeliveryOver
    BY <1>1, <1>3 DEF StopDetach, DeliveryOver, Cancelled
  <2>3. QED
    BY <1>1, <2>1, <2>2 DEF Mail!mailVars
<1>4. CASE StopClear
  <2>1. DeliveryOver /\ DeliveryOver' = DeliveryOver /\ pending' = NoUpdates
    BY <1>1, <1>4 DEF StopClear, DeliveryOver, Cancelled
  <2>2. ASSUME NEW i \in AuthIds PROVE Mail!PartOf(OnTheWay(i)', OnTheWay(i))
    <3>1. PICK q \in Seq(Update), b \in Seq(Update), p \in Updates :
            q = queue /\ b = loop.batch /\ p = pending
      BY HeldFacts
    <3>2. PICK s \in Seq(AuthStates), w \in Seq(AuthStates) : s = StatesOf(i, q \o b) /\ w = Waiting(i, p)
      BY StatesTyped, WaitingTyped, ConcatProperties
    <3>3. OnTheWay(i) = s \o w
      BY <3>1, <3>2, WayOfEach DEF Way
    <3>4. Waiting(i, NoUpdates) = <<>>
      BY NoUpdatesFacts DEF Waiting
    <3>5. OnTheWay(i)' = s \o <<>>
      BY <1>1, <2>1, <3>1, <3>2, <3>4, WayOfEach DEF Way
    <3>6. <<>> \in Seq(AuthStates) /\ (s \o w) \o <<>> = s \o w
      BY EmptySeq, ConcatEmptySeq, ConcatProperties
    <3>7. Mail!PartOf(s \o <<>>, (s \o w) \o <<>>)
      BY <3>6, PartKept
    <3>8. QED
      BY <3>3, <3>5, <3>6, <3>7
  <2>3. QED
    BY <1>1, <2>1, <2>2 DEF Mail!Abandon
<1>5. QED
  BY <1>2, <1>3, <1>4 DEF StopStep

LEMMA RefresherImplements ==
  ASSUME Typed, NEW t \in Refreshers, Forget(t) \/ Snapshot(t) \/ PrepareAuthUpdates(t) \/ Dispatch(t)
  PROVE  Mail!Submit \/ UNCHANGED Mail!mailVars
<1>1. CASE Forget(t) \/ Snapshot(t) \/ PrepareAuthUpdates(t)
  <2>1. UNCHANGED <<queue, loop, pending, applied, stop, consumer>>
    BY <1>1 DEF Forget, Snapshot, PrepareAuthUpdates
  <2>2. QED
    BY <2>1, UnchangedWays, WaysStay
<1>2. CASE Dispatch(t)
  <2>1. UNCHANGED <<queue, applied, stop, consumer>> /\ loop'.batch = loop.batch
        /\ (pending' = pending \/ pending' = Merged(pending, refreshers[t].updates))
    BY <1>2, DispatchTyped DEF Dispatch
  <2>2. CASE pending' = pending
    BY <2>1, <2>2, UnchangedWays, WaysStay
  <2>3. CASE pending' = Merged(pending, refreshers[t].updates)
    BY <2>1, <2>3, RefresherFields, MergeSubmits
  <2>4. QED
    BY <2>1, <2>2, <2>3
<1>3. QED
  BY <1>1, <1>2

LEMMA RelayImplements ==
  ASSUME Typed, NEW i \in RuntimeAuths, RelayUpdate(i) \/ RelayDispatch(i)
  PROVE  Mail!Submit \/ UNCHANGED Mail!mailVars
<1>1. CASE RelayUpdate(i)
  <2>1. UNCHANGED <<queue, loop, pending, applied, stop, consumer>>
    BY <1>1 DEF RelayUpdate
  <2>2. QED
    BY <2>1, UnchangedWays, WaysStay
<1>2. CASE RelayDispatch(i)
  <2>1. UNCHANGED <<queue, applied, stop, consumer>> /\ loop'.batch = loop.batch
        /\ (pending' = pending \/ pending' = Merged(pending, relays[i].updates))
    BY <1>2, RelayDispatchTyped DEF RelayDispatch
  <2>2. CASE pending' = pending
    BY <2>1, <2>2, UnchangedWays, WaysStay
  <2>3. CASE pending' = Merged(pending, relays[i].updates)
    BY <2>1, <2>3, RelayFields, MergeSubmits
  <2>4. QED
    BY <2>1, <2>2, <2>3
<1>3. QED
  BY <1>1, <1>2

LEMMA StepsImplement ==
  Typed /\ [DispatchNext]_dispatchVars => [Mail!MailNext]_Mail!mailVars
<1> SUFFICES ASSUME Typed, [DispatchNext]_dispatchVars PROVE Mail!MailNext \/ UNCHANGED Mail!mailVars
  OBVIOUS
<1>1. ASSUME NEW t \in Refreshers, Forget(t) \/ Snapshot(t) \/ PrepareAuthUpdates(t) \/ Dispatch(t)
      PROVE  Mail!MailNext \/ UNCHANGED Mail!mailVars
  BY <1>1, RefresherImplements DEF Mail!MailNext
<1>2. ASSUME NEW i \in RuntimeAuths, RelayUpdate(i) \/ RelayDispatch(i)
      PROVE  Mail!MailNext \/ UNCHANGED Mail!mailVars
  BY <1>2, RelayImplements DEF Mail!MailNext
<1>3. CASE LoopStep
  BY <1>3, LoopImplements DEF Mail!MailNext
<1>4. CASE ConsumerStep \/ ConsumerEnds
  BY <1>4, ConsumeImplements, ConsumerImplements DEF ConsumerStep, Mail!MailNext
<1>5. CASE StopStep
  BY <1>5, StopImplements DEF Mail!MailNext
<1>6. CASE UNCHANGED dispatchVars
  <2>1. UNCHANGED <<queue, loop, pending, applied, stop, consumer>>
    BY <1>6 DEF dispatchVars
  <2>2. QED
    BY <2>1, UnchangedWays, WaysStay
<1>7. QED
  BY <1>1, <1>2, <1>3, <1>4, <1>5, <1>6 DEF DispatchNext

LEMMA InitImplements ==
  DispatchInit => Mail!MailInit
<1> SUFFICES ASSUME DispatchInit PROVE Mail!MailInit
  OBVIOUS
<1>1. ASSUME NEW i \in AuthIds PROVE OnTheWay(i) = <<>>
  <2>1. queue = <<>> /\ loop.batch = <<>> /\ pending = NoUpdates
    BY DEF DispatchInit
  <2>2. <<>> \o <<>> = <<>>
    OBVIOUS
  <2>3. Waiting(i, NoUpdates) = <<>>
    BY NoUpdatesFacts DEF Waiting
  <2>4. QED
    BY <2>1, <2>2, <2>3, StatesOfNone, WayOfEach DEF Way
<1>2. applied \in [AuthIds -> AuthStates] /\ ~DeliveryOver
  BY TypedAtFirst DEF DispatchInit, Typed, DispatchTypeOK, DeliveryOver, Cancelled
<1>3. QED
  BY <1>1, <1>2 DEF Mail!MailInit

\* The types of the dispatcher hold in every state: each refresher, relay and
\* update is of its kind, the pending map and its order hold the same auths
\* without repeats, and the queue never exceeds its capacity.
THEOREM DispatchTypes == DispatchSpec => []DispatchTypeOK
<1>1. DispatchInit => Typed
  BY TypedAtFirst
<1>2. Typed /\ [DispatchNext]_dispatchVars => Typed'
  BY StepsTyped
<1>3. Typed => DispatchTypeOK
  BY DEF Typed
<1>4. QED
  BY <1>1, <1>2, <1>3, PTL DEF DispatchSpec

\* The pending map, the batch in the loop's hands and the bounded channel
\* behave as one mailbox per auth: updates are handed over in order, a newer one
\* replaces only one that waits, and none is dropped before the watcher or its consumer is stopped.
THEOREM DispatcherIsMail == DispatchSpec => Mail!MailSpec
<1>1. DispatchInit => Typed /\ Mail!MailInit
  BY TypedAtFirst, InitImplements
<1>2. Typed /\ [DispatchNext]_dispatchVars => Typed' /\ [Mail!MailNext]_Mail!mailVars
  BY StepsTyped, StepsImplement
<1>3. QED
  BY <1>1, <1>2, PTL DEF DispatchSpec, Mail!MailSpec

----------------------------------------------------------------------------
(* The consumer follows currentAuths.                                      *)

\* What the consumer makes of an auth when `box` is on its way and it has made
\* `auth` of it so far.
Result(box, auth) == IF box = <<>> THEN auth ELSE Last(box)

Follows(i) ==
  /\ \A t \in Refreshers : i \in DOMAIN refreshers[t].updates => refreshers[t].updates[i] = current[i]
  /\ \A j \in RuntimeAuths : i \in DOMAIN relays[j].updates => relays[j].updates[i] = current[i]
  /\ i \notin HeldUpdates => Outcome(i) = current[i]

\* Whoever holds an update alone holds what became current, what nobody holds
\* is on its way or applied; and a reload leaves nothing of what it dropped.
FollowInv ==
  /\ \A i \in forgotten : current[i] = Gone
  /\ stop = "no" => \A i \in AuthIds \ (heldTwice \cup forgotten) : Follows(i)

LEMMA OutcomeOfEach ==
  ASSUME NEW i
  PROVE  Outcome(i) = Result(OnTheWay(i), applied[i]) /\ Outcome(i)' = Result(OnTheWay(i)', applied'[i])
  BY DEF Outcome, Result

LEMMA HolderFacts ==
  ASSUME NEW i
  PROVE  /\ i \in HeldUpdates <=> \/ \E t \in Refreshers : i \in DOMAIN refreshers[t].updates
                                  \/ \E j \in RuntimeAuths : i \in DOMAIN relays[j].updates
         /\ i \in HeldUpdates' <=> \/ \E t \in Refreshers : i \in DOMAIN refreshers'[t].updates
                                   \/ \E j \in RuntimeAuths : i \in DOMAIN relays'[j].updates
  BY DEF HeldUpdates

LEMMA LastAppended ==
  ASSUME NEW S, NEW s \in Seq(S), NEW e \in S, NEW a
  PROVE  Result(Append(s, e), a) = e
<1>1. Append(s, e) # <<>> /\ Len(Append(s, e)) = Len(s) + 1 /\ Append(s, e)[Len(s) + 1] = e
  BY AppendProperties
<1>2. QED
  BY <1>1 DEF Result, Last

\* A merged update is what the consumer will end with.
LEMMA OutcomeMerged ==
  ASSUME Typed, NEW us \in Updates, pending' = Merged(pending, us), loop'.batch = loop.batch,
         UNCHANGED <<queue, applied>>, NEW i \in AuthIds
  PROVE  Outcome(i)' = IF i \in DOMAIN us THEN us[i] ELSE Outcome(i)
<1>1. PICK q \in Seq(Update), b \in Seq(Update), p \in Updates :
        q = queue /\ b = loop.batch /\ p = pending
  BY HeldFacts
<1>2. OnTheWay(i) = Way(i, q, b, p) /\ OnTheWay(i)' = Way(i, q, b, Merged(p, us))
  BY <1>1, WayOfEach
<1>3. CASE i \notin DOMAIN us
  <2>1. OnTheWay(i)' = OnTheWay(i)
    BY <1>2, <1>3, WayMerged
  <2>2. QED
    BY <1>3, <2>1, OutcomeOfEach
<1>4. CASE i \in DOMAIN us
  <2>1. PICK box \in Seq(AuthStates), s \in AuthStates : box = OnTheWay(i) /\ s = us[i]
    BY <1>2, <1>4, WayTyped, UpdatesFacts
  <2>2. OnTheWay(i)' = Append(box, s) \/ (box # <<>> /\ OnTheWay(i)' = Append(Front(box), s))
    BY <1>2, <1>4, <2>1, WayMerged
  <2>3. box # <<>> => Front(box) \in Seq(AuthStates)
    BY DEF Front
  <2>4. \A some \in Seq(AuthStates) : \A a : Result(Append(some, s), a) = s
    BY LastAppended
  <2>5. Result(OnTheWay(i)', applied'[i]) = s
    BY <2>2, <2>3, <2>4
  <2>6. QED
    BY <1>4, <2>1, <2>5, OutcomeOfEach
<1>5. QED
  BY <1>3, <1>4

LEMMA OutcomeConsumed ==
  ASSUME Typed, ConsumeUpdate, NEW i \in AuthIds
  PROVE  Outcome(i)' = Outcome(i)
<1>1. PICK u \in Update : u = Head(queue) /\ applied' = [applied EXCEPT ![u.id] = u.auth]
  BY HeldFacts, HeadTailProperties DEF ConsumeUpdate
<1>2. PICK w \in Seq(AuthStates) : w = OnTheWay(i)'
  BY ConsumeWays
<1>3. OnTheWay(i) = (IF u.id = i THEN <<u.auth>> ELSE <<>>) \o w
  BY <1>1, <1>2, ConsumeWays
<1>4. applied \in [AuthIds -> AuthStates] /\ u.auth \in AuthStates
  BY DEF Typed, DispatchTypeOK, Update
<1>5. CASE u.id = i
  <2>1. applied'[i] = u.auth /\ OnTheWay(i) = <<u.auth>> \o w
    BY <1>1, <1>3, <1>4, <1>5
  <2>2. CASE w = <<>>
    <3>1. <<u.auth>> \o w = <<u.auth>>
      BY <1>4, <2>2
    <3>2. Result(<<u.auth>>, applied[i]) = u.auth
      BY DEF Result, Last
    <3>3. QED
      BY <1>2, <2>1, <2>2, <3>1, <3>2, OutcomeOfEach DEF Result
  <2>3. CASE w # <<>>
    <3>1. /\ <<u.auth>> \o w # <<>> /\ Len(<<u.auth>> \o w) = Len(w) + 1 /\ Len(w) \in Nat \ {0}
          /\ (<<u.auth>> \o w)[Len(w) + 1] = w[Len(w)]
      BY <1>4, <2>3
    <3>2. Last(<<u.auth>> \o w) = Last(w)
      BY <3>1 DEF Last
    <3>3. QED
      BY <1>2, <2>1, <2>3, <3>1, <3>2, OutcomeOfEach DEF Result
  <2>4. QED
    BY <2>2, <2>3
<1>6. CASE u.id # i
  <2>1. applied'[i] = applied[i]
    BY <1>1, <1>4, <1>6
  <2>2. <<>> \o w = w
    BY ConcatEmptySeq
  <2>3. QED
    BY <1>2, <1>3, <1>6, <2>1, <2>2, OutcomeOfEach
<1>7. QED
  BY <1>5, <1>6

\* Nobody's hands, nor what is current, change.
LEMMA FollowKept ==
  ASSUME FollowInv,
         \A t \in Refreshers : refreshers'[t].updates = refreshers[t].updates,
         UNCHANGED <<current, relays, heldTwice, forgotten>>,
         stop' = "no" => stop = "no",
         stop' = "no" => \A i \in AuthIds : Outcome(i)' = Outcome(i)
  PROVE  FollowInv'
<1>1. ASSUME stop' = "no", NEW i \in AuthIds \ (heldTwice \cup forgotten) PROVE Follows(i)'
  <2>1. Follows(i) /\ Outcome(i)' = Outcome(i)
    BY <1>1 DEF FollowInv
  <2>2. i \in HeldUpdates' <=> i \in HeldUpdates
    BY HolderFacts
  <2>3. QED
    BY <2>1, <2>2 DEF Follows
<1>2. QED
  BY <1>1 DEF FollowInv

LEMMA OutcomeKept ==
  ASSUME queue' = queue, loop'.batch = loop.batch, pending' = pending, applied' = applied
  PROVE  \A i \in AuthIds : Outcome(i)' = Outcome(i)
  BY UnchangedWays, OutcomeOfEach

LEMMA ForgetFollows ==
  ASSUME Typed, FollowInv, NEW t \in Refreshers, Forget(t)
  PROVE  FollowInv'
<1>1. PICK drop \in SUBSET AuthIds :
        /\ current' = [i \in AuthIds |-> IF i \in drop THEN Gone ELSE current[i]]
        /\ forgotten' = forgotten \cup drop
  BY DEF Forget
<1>2. \A o \in Refreshers : refreshers'[o].updates = refreshers[o].updates
  BY ForgetTyped
<1>3. UNCHANGED <<relays, heldTwice, stop>> /\ \A i \in AuthIds : Outcome(i)' = Outcome(i)
  BY OutcomeKept DEF Forget
<1>4. \A i \in forgotten' : current'[i] = Gone
  BY <1>1 DEF FollowInv, Typed, DispatchTypeOK
<1>5. ASSUME stop' = "no", NEW i \in AuthIds \ (heldTwice' \cup forgotten') PROVE Follows(i)'
  <2>1. current'[i] = current[i]
    BY <1>1, <1>5
  <2>2. Follows(i) /\ Outcome(i)' = Outcome(i)
    BY <1>1, <1>3, <1>5 DEF FollowInv
  <2>3. i \in HeldUpdates' <=> i \in HeldUpdates
    BY <1>2, <1>3, HolderFacts
  <2>4. QED
    BY <1>2, <1>3, <2>1, <2>2, <2>3 DEF Follows
<1>6. QED
  BY <1>4, <1>5 DEF FollowInv

LEMMA PrepareFollows ==
  ASSUME Typed, FollowInv, NEW t \in Refreshers, PrepareAuthUpdates(t)
  PROVE  FollowInv'
<1>1. PICK ids \in SUBSET AuthIds :
        /\ DOMAIN refreshers'[t].updates = ids
        /\ \A i \in ids : refreshers'[t].updates[i] = current'[i]
        /\ heldTwice' = heldTwice \cup (ids \cap HeldUpdates)
        /\ Attached => \A i \in AuthIds \ ids : current'[i] = current[i]
  BY PrepareTyped
<1>2. /\ forgotten' = {i \in forgotten : current'[i] = Gone}
      /\ \A o \in Refreshers \ {t} : refreshers'[o] = refreshers[o]
  BY PrepareTyped
<1>3. UNCHANGED <<relays, stop>> /\ \A i \in AuthIds : Outcome(i)' = Outcome(i)
  BY OutcomeKept DEF PrepareAuthUpdates
<1>4. DOMAIN refreshers[t].updates = {}
  BY NoUpdatesFacts DEF PrepareAuthUpdates, Typed, InHands
<1>5. ASSUME stop' = "no", NEW i \in AuthIds \ (heldTwice' \cup forgotten') PROVE Follows(i)'
  <2>1. Attached
    BY <1>3, <1>5 DEF Attached
  <2>2. CASE i \in ids
    <3>1. i \notin HeldUpdates /\ i \in HeldUpdates'
      BY <1>1, <1>5, <2>2, HolderFacts
    <3>2. \A o \in Refreshers \ {t} : i \notin DOMAIN refreshers'[o].updates
      BY <1>2, <3>1, HolderFacts
    <3>3. \A j \in RuntimeAuths : i \notin DOMAIN relays'[j].updates
      BY <1>3, <3>1, HolderFacts
    <3>4. QED
      BY <1>1, <2>2, <3>1, <3>2, <3>3 DEF Follows
  <2>3. CASE i \notin ids
    <3>1. current'[i] = current[i]
      BY <1>1, <2>1, <2>3
    <3>2. i \notin forgotten
      BY <1>2, <1>5, <3>1 DEF FollowInv
    <3>3. Follows(i) /\ Outcome(i)' = Outcome(i)
      BY <1>1, <1>3, <1>5, <3>2 DEF FollowInv
    <3>4. i \in HeldUpdates' <=> i \in HeldUpdates
      BY <1>1, <1>2, <1>3, <1>4, <2>3, HolderFacts
    <3>5. QED
      BY <1>1, <1>2, <1>3, <2>3, <3>1, <3>3, <3>4 DEF Follows
  <2>4. QED
    BY <2>2, <2>3
<1>6. QED
  BY <1>2, <1>5 DEF FollowInv

LEMMA DispatchFollows ==
  ASSUME Typed, FollowInv, NEW t \in Refreshers, Dispatch(t)
  PROVE  FollowInv'
<1>1. UNCHANGED <<current, relays, queue, applied, stop, heldTwice, forgotten>>
  BY DEF Dispatch
<1>2. /\ DOMAIN refreshers'[t].updates = {} /\ loop'.batch = loop.batch
      /\ \A o \in Refreshers \ {t} : refreshers'[o] = refreshers[o]
      /\ \/ ~Attached /\ pending' = pending
         \/ Attached /\ pending' = Merged(pending, refreshers[t].updates)
  BY DispatchTyped
<1>3. ASSUME stop' = "no", NEW i \in AuthIds \ (heldTwice \cup forgotten) PROVE Follows(i)'
  <2>1. Follows(i) /\ pending' = Merged(pending, refreshers[t].updates)
    BY <1>1, <1>2, <1>3 DEF FollowInv, Attached
  <2>2. Outcome(i)' = IF i \in DOMAIN refreshers[t].updates THEN refreshers[t].updates[i] ELSE Outcome(i)
    <3>1. PICK us \in Updates : us = refreshers[t].updates
      BY RefresherFields
    <3>2. QED
      BY <1>1, <1>2, <2>1, <3>1, OutcomeMerged
  <2>3. i \notin DOMAIN refreshers[t].updates => (i \in HeldUpdates' <=> i \in HeldUpdates)
    BY <1>1, <1>2, HolderFacts
  <2>4. i \notin HeldUpdates' => Outcome(i)' = current'[i]
    BY <1>1, <2>1, <2>2, <2>3 DEF Follows
  <2>5. QED
    BY <1>1, <1>2, <2>1, <2>4 DEF Follows
<1>4. QED
  BY <1>1, <1>3 DEF FollowInv

LEMMA RelayFollows ==
  ASSUME Typed, FollowInv, NEW i \in RuntimeAuths, RelayUpdate(i)
  PROVE  FollowInv'
<1>1. /\ DOMAIN relays'[i].updates = {i} /\ relays'[i].updates[i] = current'[i]
      /\ \A j \in RuntimeAuths \ {i} : relays'[j] = relays[j]
      /\ \A j \in AuthIds \ {i} : current'[j] = current[j]
  BY RelayTyped
<1>2. UNCHANGED <<refreshers, stop>> /\ \A k \in AuthIds : Outcome(k)' = Outcome(k)
  BY OutcomeKept DEF RelayUpdate
<1>3. heldTwice' = heldTwice \cup ({i} \cap HeldUpdates) /\ forgotten' = forgotten \ {i}
  BY DEF RelayUpdate
<1>4. DOMAIN relays[i].updates = {}
  BY NoUpdatesFacts DEF RelayUpdate
<1>5. ASSUME stop' = "no", NEW k \in AuthIds \ (heldTwice' \cup forgotten') PROVE Follows(k)'
  <2>1. CASE k = i
    <3>1. i \notin HeldUpdates /\ i \in HeldUpdates'
      BY <1>1, <1>3, <1>5, <2>1, HolderFacts
    <3>2. \A t \in Refreshers : i \notin DOMAIN refreshers'[t].updates
      BY <1>2, <3>1, HolderFacts
    <3>3. \A j \in RuntimeAuths \ {i} : i \notin DOMAIN relays'[j].updates
      BY <1>1, <3>1, HolderFacts
    <3>4. QED
      BY <1>1, <2>1, <3>1, <3>2, <3>3 DEF Follows
  <2>2. CASE k # i
    <3>1. current'[k] = current[k] /\ Follows(k) /\ Outcome(k)' = Outcome(k)
      BY <1>1, <1>2, <1>3, <1>5, <2>2 DEF FollowInv
    <3>2. k \in HeldUpdates' <=> k \in HeldUpdates
      BY <1>1, <1>2, <1>4, <2>2, HolderFacts
    <3>3. QED
      BY <1>1, <1>2, <2>2, <3>1, <3>2 DEF Follows
  <2>3. QED
    BY <2>1, <2>2
<1>6. \A k \in forgotten' : current'[k] = Gone
  BY <1>1, <1>3 DEF FollowInv, Typed, DispatchTypeOK
<1>7. QED
  BY <1>5, <1>6 DEF FollowInv

LEMMA RelayDispatchFollows ==
  ASSUME Typed, FollowInv, NEW j \in RuntimeAuths, RelayDispatch(j)
  PROVE  FollowInv'
<1>1. UNCHANGED <<current, refreshers, queue, applied, stop, heldTwice, forgotten>>
  BY DEF RelayDispatch
<1>2. /\ DOMAIN relays'[j].updates = {} /\ loop'.batch = loop.batch
      /\ \A o \in RuntimeAuths \ {j} : relays'[o] = relays[o]
      /\ \/ ~Attached /\ pending' = pending
         \/ Attached /\ pending' = Merged(pending, relays[j].updates)
  BY RelayDispatchTyped
<1>3. ASSUME stop' = "no", NEW i \in AuthIds \ (heldTwice \cup forgotten) PROVE Follows(i)'
  <2>1. Follows(i) /\ pending' = Merged(pending, relays[j].updates)
    BY <1>1, <1>2, <1>3 DEF FollowInv, Attached
  <2>2. Outcome(i)' = IF i \in DOMAIN relays[j].updates THEN relays[j].updates[i] ELSE Outcome(i)
    <3>1. PICK us \in Updates : us = relays[j].updates
      BY RelayFields
    <3>2. QED
      BY <1>1, <1>2, <2>1, <3>1, OutcomeMerged
  <2>3. i \notin DOMAIN relays[j].updates => (i \in HeldUpdates' <=> i \in HeldUpdates)
    BY <1>1, <1>2, HolderFacts
  <2>4. i \notin HeldUpdates' => Outcome(i)' = current'[i]
    BY <1>1, <2>1, <2>2, <2>3 DEF Follows
  <2>5. QED
    BY <1>1, <1>2, <2>1, <2>4 DEF Follows
<1>4. QED
  BY <1>1, <1>3 DEF FollowInv

LEMMA FollowSteps ==
  Typed /\ FollowInv /\ [DispatchNext]_dispatchVars => FollowInv'
<1> SUFFICES ASSUME Typed, FollowInv, [DispatchNext]_dispatchVars PROVE FollowInv'
  OBVIOUS
<1>1. ASSUME NEW t \in Refreshers, Snapshot(t) PROVE FollowInv'
  <2>1. \A o \in Refreshers : refreshers'[o].updates = refreshers[o].updates
    BY <1>1, SnapshotTyped
  <2>2. UNCHANGED <<current, relays, heldTwice, forgotten, stop>>
        /\ \A i \in AuthIds : Outcome(i)' = Outcome(i)
    BY <1>1, OutcomeKept DEF Snapshot
  <2>3. QED
    BY <2>1, <2>2, FollowKept
<1>2. ASSUME NEW t \in Refreshers, Forget(t) \/ PrepareAuthUpdates(t) \/ Dispatch(t) PROVE FollowInv'
  BY <1>2, ForgetFollows, PrepareFollows, DispatchFollows
<1>3. ASSUME NEW i \in RuntimeAuths, RelayUpdate(i) \/ RelayDispatch(i) PROVE FollowInv'
  BY <1>3, RelayFollows, RelayDispatchFollows
<1>4. CASE LoopStep
  <2>1. UNCHANGED <<current, refreshers, relays, applied, stop, heldTwice, forgotten>>
    BY <1>4 DEF LoopStep
  <2>2. stop' = "no" => \A i \in AuthIds : Outcome(i)' = Outcome(i)
    BY <1>4, <2>1, LoopWays, OutcomeOfEach DEF Cancelled
  <2>3. QED
    BY <2>1, <2>2, FollowKept
<1>5. CASE ConsumerStep \/ ConsumerEnds
  <2>1. UNCHANGED <<current, refreshers, relays, stop, heldTwice, forgotten>>
    BY <1>5 DEF ConsumerStep, ConsumeUpdate, ConsumerDrained, ConsumerEnds
  <2>2. ConsumeUpdate \/ UNCHANGED <<queue, loop, pending, applied>>
    BY <1>5 DEF ConsumerStep, ConsumerDrained, ConsumerEnds
  <2>3. \A i \in AuthIds : Outcome(i)' = Outcome(i)
    BY <2>2, OutcomeConsumed, OutcomeKept
  <2>4. QED
    BY <2>1, <2>3, FollowKept
<1>6. CASE StopStep
  <2>1. UNCHANGED <<current, refreshers, relays, heldTwice, forgotten>> /\ stop' # "no"
    BY <1>6 DEF StopStep, StopCancel, StopClear, StopDetach
  <2>2. QED
    BY <2>1, FollowKept
<1>7. CASE UNCHANGED dispatchVars
  <2>1. UNCHANGED <<current, refreshers, relays, queue, loop, pending, applied, stop, heldTwice, forgotten>>
    BY <1>7 DEF dispatchVars
  <2>2. \A i \in AuthIds : Outcome(i)' = Outcome(i)
    BY <2>1, OutcomeKept
  <2>3. QED
    BY <2>1, <2>2, FollowKept
<1>8. QED
  BY <1>1, <1>2, <1>3, <1>4, <1>5, <1>6, <1>7 DEF DispatchNext

LEMMA FollowAtFirst ==
  DispatchInit => FollowInv
<1> SUFFICES ASSUME DispatchInit PROVE FollowInv
  OBVIOUS
<1>1. ASSUME NEW i \in AuthIds PROVE Follows(i)
  <2>1. OnTheWay(i) = <<>>
    <3>1. queue = <<>> /\ loop.batch = <<>> /\ pending = NoUpdates
      BY DEF DispatchInit
    <3>2. <<>> \o <<>> = <<>> /\ Waiting(i, NoUpdates) = <<>>
      BY NoUpdatesFacts DEF Waiting
    <3>3. QED
      BY <3>1, <3>2, StatesOfNone, WayOfEach DEF Way
  <2>2. Outcome(i) = current[i]
    BY <2>1 DEF Outcome, DispatchInit
  <2>3. \A t \in Refreshers : DOMAIN refreshers[t].updates = {}
    BY NoUpdatesFacts DEF DispatchInit
  <2>4. \A j \in RuntimeAuths : DOMAIN relays[j].updates = {}
    BY NoUpdatesFacts DEF DispatchInit
  <2>5. QED
    BY <2>2, <2>3, <2>4 DEF Follows
<1>2. forgotten = {}
  BY DEF DispatchInit
<1>3. QED
  BY <1>1, <1>2 DEF FollowInv

\* While the watcher runs, whatever nobody holds an update for ends up with the
\* consumer as it is in currentAuths; but for auths that two goroutines held
\* updates of at once, or that a reload dropped and nobody has found again.
THEOREM ConsumerAgrees == DispatchSpec => []ConsumerFollows
<1>1. DispatchInit => Typed /\ FollowInv
  BY TypedAtFirst, FollowAtFirst
<1>2. Typed /\ FollowInv /\ [DispatchNext]_dispatchVars => Typed' /\ FollowInv'
  BY StepsTyped, FollowSteps
<1>3. FollowInv => ConsumerFollows
  BY DEF FollowInv, Follows, ConsumerFollows
<1>4. QED
  BY <1>1, <1>2, <1>3, PTL DEF DispatchSpec

=============================================================================
