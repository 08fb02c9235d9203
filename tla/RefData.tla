------------------------------- MODULE RefData -------------------------------
(***************************************************************************)
(* The item or monster database in development: the snapshot that is       *)
(* served, the source files, the cache of the parsed result, the watcher   *)
(* with its debounce timer, and the guard that lets one reload run at a    *)
(* time.  Files are edited at any moment, also while they are parsed and   *)
(* while the cache hashes them after that.                                 *)
(***************************************************************************)
EXTENDS Integers, Sequences

CONSTANTS
  NSources,                  \* the configured source files, in order
  Texts,                     \* what a file may say and parse
  DataEdits, DataReloads, DataRestarts  \* bounds

ASSUME DataBounds == NSources \in Nat \ {0} /\ {DataEdits, DataReloads, DataRestarts} \subseteq Nat

SourceFiles == 1..NSources
Bad  == "bad"   \* the file does not parse
Gone == "gone"  \* there is no such file

VARIABLES
  files,      \* of each source its text and its stamp: size, and seconds of mtime
  cacheFile,  \* the blob: the value, and what hashSources saw of the files
  snap,       \* the snapshot that is served, or NoSnap
  lastError,  \* whether LastError says something
  reload,     \* the reload in progress; its lock is held unless it is idle
  event, timer,  \* a change the watcher has not read, and its timer
  missed,     \* ghost: why changes were made that no reload is going to load:
              \* the panel was starting ("start"), the reload for it was refused
              \* ("refused"), or the watcher passes it over ("removed")
  dataLeft    \* the edits, admin reloads and restarts that are left

dataVars == <<files, cacheFile, snap, lastError, reload, event, timer, missed, dataLeft>>

NoSnap == <<>>
NoCache == [value |-> <<>>, seen |-> <<>>]
Start(pc, boot) == [pc |-> pc, boot |-> boot, next |-> 1, value |-> <<>>, seen |-> <<>>]
Resting == Start("idle", FALSE)

DataInit ==
  /\ \E text \in Texts : files = [s \in SourceFiles |-> [text |-> text, stamp |-> 0]]
  /\ cacheFile = NoCache /\ snap = NoSnap /\ lastError = FALSE
  /\ reload = Start("cache", TRUE) /\ event = FALSE /\ timer = FALSE /\ missed = {}
  /\ dataLeft = [edits |-> DataEdits, reloads |-> DataReloads, restarts |-> DataRestarts]

-----------------------------------------------------------------------------
(* The files and the watcher                                               *)

\* Watcher.matches: a file that is written, created or renamed, also one that
\* is renamed away.  fsnotify reports one that is deleted as Remove.
Matches(op) == op \in {"Write", "Create", "Rename"}

\* What fsnotify may report of a change from one text to another.
Reported(from, to) ==
  IF to = Gone THEN {"Rename", "Remove"} ELSE IF from = Gone THEN {"Create"} ELSE {"Write", "Create"}

\* Two writes within a second that leave the size as it was keep the stamp.
\* The watcher starts after the first load, and hears of what follows.
Edit(s, text) ==
  /\ dataLeft.edits > 0 /\ dataLeft' = [dataLeft EXCEPT !.edits = @ - 1]
  /\ text # files[s].text
  /\ \E stamp \in {files[s].stamp, files[s].stamp + 1} :
       files' = [files EXCEPT ![s] = [text |-> text, stamp |-> stamp]]
  /\ IF reload.boot THEN missed' = missed \cup {"start"} /\ UNCHANGED event
     ELSE \E op \in Reported(files[s].text, text) :
            IF Matches(op) THEN event' = TRUE /\ UNCHANGED missed
            ELSE missed' = missed \cup {"removed"} /\ UNCHANGED event
  /\ UNCHANGED <<cacheFile, snap, lastError, reload, timer>>

\* Watcher.run: an event stops the timer and arms a new one.
IgnoredWhileArmed == timer' = ~timer  \* mutant: the second event only stops the timer
Armed == timer' = TRUE
Notice ==
  /\ event /\ event' = FALSE /\ Armed
  /\ UNCHANGED <<files, cacheFile, snap, lastError, reload, missed, dataLeft>>

\* Reload of the guard: TryLock, or ErrReloadConflict
TryReload(refused) ==
  IF reload.pc = "idle"
  THEN reload' = Start("cache", FALSE) /\ missed' = {}
  ELSE missed' = missed \cup refused /\ UNCHANGED reload

\* fire: what the running reload has already read of the files is not read again.
Fire ==
  /\ timer /\ timer' = FALSE
  /\ TryReload({"refused"})
  /\ UNCHANGED <<files, cacheFile, snap, lastError, event, dataLeft>>

\* doReload
AdminReload ==
  /\ ~reload.boot
  /\ dataLeft.reloads > 0 /\ dataLeft' = [dataLeft EXCEPT !.reloads = @ - 1]
  /\ TryReload({})
  /\ UNCHANGED <<files, cacheFile, snap, lastError, event, timer>>

-----------------------------------------------------------------------------
(* ParseSources                                                            *)

\* verifySources: a file is unchanged when its stamp or its hash is the same,
\* and every file the cache was made of must still be there.
Verified(blob) ==
  /\ blob # NoCache
  /\ \A s \in SourceFiles :
       IF files[s].text = Gone \/ blob.seen[s].text = Gone
       THEN files[s].text = blob.seen[s].text
       ELSE files[s].stamp = blob.seen[s].stamp \/ files[s].text = blob.seen[s].text
VerifiedPaths(blob) ==  \* mutant: the cache is good as long as the files are there
  blob # NoCache /\ \A s \in SourceFiles : (files[s].text = Gone) <=> (blob.seen[s].text = Gone)
CacheHit(blob) == Verified(blob)

TryLoadFromCache ==
  /\ reload.pc = "cache"
  /\ reload' = IF CacheHit(cacheFile) THEN [reload EXCEPT !.pc = "store", !.value = cacheFile.value]
               ELSE [reload EXCEPT !.pc = "parse"]
  /\ UNCHANGED <<files, cacheFile, snap, lastError, event, timer, missed, dataLeft>>

\* parseAndBuildItems reads one source after the other; one that is missing
\* is skipped, one that does not parse fails the load, which at the start of
\* the panel is a panic.
ParseNext ==
  LET text == files[reload.next].text
      value == Append(reload.value, text)
  IN /\ reload.pc = "parse"
     /\ \/ /\ text = Bad /\ lastError' = TRUE
           /\ reload' = IF reload.boot THEN Start("down", TRUE) ELSE Resting
        \/ /\ text # Bad /\ UNCHANGED lastError
           /\ reload' = IF reload.next < NSources THEN [reload EXCEPT !.next = @ + 1, !.value = value]
                        ELSE [reload EXCEPT !.pc = IF \A s \in SourceFiles : value[s] = Gone
                                                   THEN "store" ELSE "hash",
                                            !.next = 1, !.value = value]
     /\ UNCHANGED <<files, cacheFile, snap, event, timer, missed, dataLeft>>

\* Save: hashSources, and then the temporary file and its rename, which may
\* fail and leave the old cache
HashNext ==
  LET seen == Append(reload.seen, files[reload.next])
  IN /\ reload.pc = "hash"
     /\ reload' = [reload EXCEPT !.next = @ + 1, !.seen = seen,
                                 !.pc = IF reload.next < NSources THEN "hash" ELSE "save"]
     /\ UNCHANGED <<files, cacheFile, snap, lastError, event, timer, missed, dataLeft>>

Save ==
  /\ reload.pc = "save" /\ reload' = [reload EXCEPT !.pc = "store"]
  /\ cacheFile' \in {cacheFile, [value |-> reload.value, seen |-> reload.seen]}
  /\ UNCHANGED <<files, snap, lastError, event, timer, missed, dataLeft>>

Store ==
  /\ reload.pc = "store" /\ reload' = Resting
  /\ snap' = reload.value /\ lastError' = FALSE
  /\ UNCHANGED <<files, cacheFile, event, timer, missed, dataLeft>>

\* The panel stops, with the reload and the timer, and is started again.
RestartPanel ==
  /\ dataLeft.restarts > 0 /\ dataLeft' = [dataLeft EXCEPT !.restarts = @ - 1]
  /\ reload' = Start("cache", TRUE) /\ snap' = NoSnap /\ lastError' = FALSE
  /\ event' = FALSE /\ timer' = FALSE /\ missed' = {}
  /\ UNCHANGED <<files, cacheFile>>

DataNext ==
  \/ \E s \in SourceFiles, text \in Texts \cup {Bad, Gone} : Edit(s, text)
  \/ Notice \/ Fire \/ AdminReload
  \/ TryLoadFromCache \/ ParseNext \/ HashNext \/ Save \/ Store
  \/ RestartPanel

-----------------------------------------------------------------------------
(* Properties                                                              *)

\* The cache holds what its hashes say it does: no file was edited after it
\* was parsed and before it was hashed.
CacheMadeOf ==
  cacheFile # NoCache => \A s \in SourceFiles : cacheFile.value[s] = cacheFile.seen[s].text

\* Its stamps still tell the files apart: no edit kept second and size.
StampsTell ==
  cacheFile # NoCache => \A s \in SourceFiles :
    files[s].stamp = cacheFile.seen[s].stamp => files[s].text = cacheFile.seen[s].text

AtRest == ~event /\ ~timer /\ reload.pc = "idle"

\* The snapshot is what the files say, or LastError says that one does not parse.
SnapshotCurrent ==
  IF \E s \in SourceFiles : files[s].text = Bad THEN lastError
  ELSE ~lastError /\ snap = [s \in SourceFiles |-> files[s].text]

\* Edits hot-reload: when the watcher has nothing left to do, the snapshot is
\* what the files say, whether it came from the cache or from the parser and
\* whatever was edited while it was made; or a file does not parse, and
\* LastError says so.  The exceptions are, until another reload starts, a file
\* that was deleted, a change whose reload was refused because another was
\* running and one that was made while the panel started; and a cache that
\* does not tell the edits apart.  A reload that fails takes nothing away.
EditsHotReload ==
  /\ AtRest /\ missed = {} /\ CacheMadeOf /\ StampsTell => SnapshotCurrent
  /\ ~reload.boot => snap # NoSnap
=============================================================================
