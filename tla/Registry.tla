------------------------------ MODULE Registry ------------------------------
(***************************************************************************)
(* A tool or skill registry with its watcher: items added by callers, and  *)
(* items found in files, which a discovery scan reads one directory and    *)
(* one file at a time while callers edit the registry, the files change    *)
(* and the watcher asks for another pass.  Only the name of an item and    *)
(* where its text comes from are kept.                                     *)
(***************************************************************************)
EXTENDS Naturals, Sequences, FiniteSets

CONSTANTS
    Layout,     \* the search directories in order, each the sequence of its files
    Names,      \* item names
    None,
    MaxEdits    \* bound: changes of files and calls of the registry's API

Dirs == 1..Len(Layout)
Places(d) == 1..Len(Layout[d])
FilesOf(d) == {Layout[d][i] : i \in Places(d)}
Files == UNION {FilesOf(d) : d \in Dirs}

\* The files up to a place, in the order in which a scan comes to them.
UpTo(d, i) == (UNION {FilesOf(c) : c \in 1..d-1}) \cup {Layout[d][j] : j \in 1..i}

\* What a tool file yields: without frontmatter it is invalid.
ToolContents == Names \cup {"absent", "invalid"}

\* What a skill file yields: without frontmatter it is plain.
Contents == ToolContents \cup {"plain"}

Texts == {"added", "read", "updated"}
Found == Names \X {"read", "updated"}
Paths == [Files -> Found \cup {None}]
Views == [Names -> Texts \cup {None}]

\* A pass of the discovery loop (DiscoveryScan): the replacement epoch it began in, the directory
\* it is in, the files listed there that it has still to read, the items by file it has and the
\* ones the registry had when it began, and whether it could read everything.
Passes == [epoch : Nat, dir : Nat, todo : SUBSET Files, found : Paths, previous : Paths,
           clean : BOOLEAN]

ASSUME ConstantsAssumption ==
    /\ Layout \in Seq(Seq(Files))
    /\ Names \cap {"absent", "invalid", "plain"} = {}
    /\ None \notin Nat /\ None \notin Texts /\ None \notin Found /\ None \notin Passes
    /\ MaxEdits \in Nat

VARIABLES
    disk,           \* the files: absent, invalid, no item at all, or the name of their item
    events,         \* changes chokidar has not reported yet
    manual,         \* _manualItems: the text by name
    byPath,         \* _discoveredItemsByPath: <<name, text>> by file
    items,          \* _items: the text of what get() and has() see
    cache,          \* the entry "all" of the discovery cache
    discovered, discoveredCount,
    epoch,          \* _replacementEpoch
    queued,         \* _queuedRefreshEpoch
    scan,           \* the running pass of _discoveryPromise, None if there is none
    watcher,        \* what _pendingRefresh waits for
    refreshQueued, stopped,
    edits,
    superseded,     \* history: clear() or setAll() was called since the pass began
    touched,        \* history: discovered items were edited since the last pass began
    degraded        \* history: the last published pass could not read something

catalogueVars == <<manual, byPath, items, cache, discovered, discoveredCount>>
watcherVars == <<watcher, refreshQueued, stopped>>
vars == <<disk, events, catalogueVars, epoch, queued, scan, watcherVars, edits, superseded,
          touched, degraded>>

NoFiles == [f \in Files |-> None]
NoNames == [n \in Names |-> None]

TypeOK ==
    /\ disk \in [Files -> Contents]
    /\ events \in 0..MaxEdits
    /\ manual \in Views
    /\ byPath \in Paths
    /\ items \in Views
    /\ cache \in Views \cup {None}
    /\ discovered \in BOOLEAN /\ refreshQueued \in BOOLEAN /\ stopped \in BOOLEAN
    /\ superseded \in BOOLEAN /\ touched \in BOOLEAN /\ degraded \in BOOLEAN
    /\ discoveredCount \in 0..Cardinality(Files)
    /\ epoch \in 0..MaxEdits
    /\ queued \in {None, epoch}
    /\ scan \in Passes \cup {None}
    /\ scan # None => scan.epoch <= epoch /\ scan.dir <= Len(Layout) + 1
    /\ watcher \in {"idle", "waiting", "resuming"}
    /\ edits \in 0..MaxEdits

Init ==
    /\ disk \in [Files -> Contents]
    /\ events = 0
    /\ manual = NoNames /\ byPath = NoFiles /\ items = NoNames /\ cache = None
    /\ discovered = FALSE /\ discoveredCount = 0
    /\ epoch = 0 /\ queued = None /\ scan = None
    /\ watcher = "idle" /\ refreshQueued = FALSE /\ stopped = FALSE
    /\ edits = 0
    /\ superseded = FALSE /\ touched = FALSE /\ degraded = FALSE

Edit == edits < MaxEdits /\ edits' = edits + 1

--------------------------------------------------------------------------------
(* The catalogue: what callers added hides what was found under the same name. *)

NamesIn(paths) == {paths[f][1] : f \in {g \in Files : paths[g] # None}}
TextIn(paths, n) == (CHOOSE e \in {paths[f] : f \in Files} : e # None /\ e[1] = n)[2]

Visible(added, paths) ==
    [n \in Names |-> IF added[n] # None THEN added[n]
                     ELSE IF n \in NamesIn(paths) THEN TextIn(paths, n)
                     ELSE None]

CountOf(added, paths) == Cardinality({n \in NamesIn(paths) : added[n] = None})

Rebuild ==
    /\ items' = Visible(manual', byPath')
    /\ discoveredCount' = CountOf(manual', byPath')

\* invalidate('all'), clear()
Invalidated == None

Add(n) ==
    /\ Edit
    /\ items[n] = None
    /\ items' = [items EXCEPT ![n] = "added"]
    /\ manual' = [manual EXCEPT ![n] = "added"]
    /\ cache' = Invalidated
    /\ UNCHANGED <<disk, events, byPath, discovered, discoveredCount, epoch, queued, scan,
                   watcherVars, superseded, touched, degraded>>

\* A manual item goes alone: what it hid becomes visible.
Remove(n) ==
    /\ Edit
    /\ items[n] # None
    /\ manual' = [manual EXCEPT ![n] = None]
    /\ byPath' = IF manual[n] # None THEN byPath
                 ELSE [f \in Files |-> IF byPath[f] # None /\ byPath[f][1] = n THEN None ELSE byPath[f]]
    /\ Rebuild
    /\ cache' = Invalidated
    /\ touched' = (touched \/ manual[n] = None)
    /\ UNCHANGED <<disk, events, discovered, epoch, queued, scan, watcherVars, superseded, degraded>>

Update(n) ==
    /\ Edit
    /\ items[n] # None
    /\ items' = [items EXCEPT ![n] = "updated"]
    /\ IF manual[n] # None
       THEN manual' = [manual EXCEPT ![n] = "updated"] /\ UNCHANGED <<byPath, touched>>
       ELSE /\ byPath' = [f \in Files |-> IF byPath[f] # None /\ byPath[f][1] = n
                                          THEN <<n, "updated">> ELSE byPath[f]]
            /\ touched' = TRUE
            /\ UNCHANGED manual
    /\ cache' = Invalidated
    /\ UNCHANGED <<disk, events, discovered, discoveredCount, epoch, queued, scan, watcherVars,
                   superseded, degraded>>

\* Mutant: a replacement leaves the epoch alone.
SameEpoch == epoch

\* The epoch and the queue a replacement begins with.
NewEpoch == epoch + 1

NewQueue == None

\* clear(), and setAll() with items: a new epoch, and the queued pass is dropped.
Replace(given) ==
    /\ Edit
    /\ epoch' = NewEpoch
    /\ queued' = NewQueue
    /\ manual' = [n \in Names |-> IF n \in given THEN "added" ELSE None]
    /\ items' = manual'
    /\ byPath' = NoFiles
    /\ discovered' = FALSE /\ discoveredCount' = 0
    /\ cache' = Invalidated
    /\ superseded' = (scan # None)
    /\ touched' = TRUE
    /\ UNCHANGED <<disk, events, scan, watcherVars, degraded>>

\* DiscoveryCache.get: an expired entry is dropped and missed.
Cached(expiry) == IF expiry THEN None ELSE cache

SetCache(view) == cache' = view

\* A hit returns a copy of the entry, a miss or an expired entry is replaced.
GetAll ==
    /\ \E expiry \in BOOLEAN : SetCache(IF Cached(expiry) = None THEN items ELSE Cached(expiry))
    /\ UNCHANGED <<disk, events, manual, byPath, items, discovered, discoveredCount, epoch, queued,
                   scan, watcherVars, edits, superseded, touched, degraded>>

--------------------------------------------------------------------------------
(* Discovery. *)

Pass(e) == [epoch |-> e, dir |-> 0, todo |-> {}, found |-> NoFiles, previous |-> byPath, clean |-> TRUE]

Begin(e) ==
    /\ scan' = Pass(e)
    /\ superseded' = FALSE
    /\ touched' = FALSE

\* refreshAsync: joins the running loop and has it make one more pass.
Refresh ==
    IF scan # None
    THEN queued' = epoch /\ UNCHANGED <<scan, superseded, touched>>
    ELSE Begin(epoch) /\ UNCHANGED queued

CallRefresh ==
    /\ Edit
    /\ Refresh
    /\ UNCHANGED <<disk, events, catalogueVars, epoch, watcherVars, degraded>>

\* discoverAsync: only a pass made void by a replacement is repeated.
CallDiscover ==
    /\ Edit
    /\ ~discovered
    /\ IF scan # None
       THEN /\ queued' = IF scan.epoch # epoch THEN epoch ELSE queued
            /\ UNCHANGED <<scan, superseded, touched>>
       ELSE Begin(epoch) /\ UNCHANGED queued
    /\ UNCHANGED <<disk, events, catalogueVars, epoch, watcherVars, degraded>>

Scanning == scan # None /\ scan.dir \in 0..Len(Layout)

Scanned(newScan) ==
    /\ scan' = newScan
    /\ UNCHANGED <<disk, events, catalogueVars, epoch, queued, watcherVars, edits, superseded,
                   touched, degraded>>

\* The first file of a name claims it.
Claim(found, f, entry) ==
    IF entry # None /\ entry[1] \notin NamesIn(found) THEN [found EXCEPT ![f] = entry] ELSE found

\* The last known items of a directory, all of different names, claim those that are free.
RetainDirectory(found, d, previous) ==
    [f \in Files |-> IF f \in FilesOf(d) /\ previous[f] # None /\ previous[f][1] \notin NamesIn(found)
                     THEN previous[f] ELSE found[f]]

\* readdir lists what is there now; if it fails the directory keeps its last known items.
ScanDirectory ==
    /\ Scanning
    /\ scan.todo = {}
    /\ scan.dir < Len(Layout)
    /\ LET d == scan.dir + 1
       IN  \/ Scanned([scan EXCEPT !.dir = d, !.todo = {f \in FilesOf(d) : disk[f] # "absent"}])
           \/ Scanned([scan EXCEPT !.dir = d, !.clean = FALSE,
                                   !.found = RetainDirectory(@, d, scan.previous)])

\* The listed file whose turn it is.
IsNext(f) ==
    /\ f \in scan.todo
    /\ \E i \in Places(scan.dir) :
        /\ Layout[scan.dir][i] = f
        /\ \A j \in 1..i-1 : Layout[scan.dir][j] \notin scan.todo

\* A file that is gone or cannot be read, or is invalid, keeps its last known good item.
ScanFile(f) ==
    /\ Scanning
    /\ IsNext(f)
    /\ LET read(entry) == [scan EXCEPT !.todo = @ \ {f}, !.found = Claim(@, f, entry)]
           kept == read(scan.previous[f])
       IN  \/ disk[f] \in Names /\ Scanned(read(<<disk[f], "read">>))
           \/ disk[f] = "plain" /\ Scanned(read(None))
           \/ disk[f] \in {"invalid", "absent"} /\ Scanned(kept)
           \/ disk[f] \notin {"invalid", "absent"} /\ Scanned([kept EXCEPT !.clean = FALSE])

\* A pass of an older epoch publishes nothing.
Publish ==
    /\ Scanning
    /\ scan.todo = {}
    /\ scan.dir = Len(Layout)
    /\ scan' = [scan EXCEPT !.dir = @ + 1]
    /\ IF scan.epoch # epoch
       THEN UNCHANGED <<byPath, items, discoveredCount, discovered, cache, degraded>>
       ELSE /\ byPath' = scan.found
            /\ items' = Visible(manual, byPath')
            /\ discoveredCount' = CountOf(manual, byPath')
            /\ discovered' = TRUE
            /\ SetCache(items')
            /\ degraded' = ~scan.clean
    /\ UNCHANGED <<disk, events, manual, epoch, queued, watcherVars, edits, superseded, touched>>

\* Mutant: a refresh asked for during a pass is taken to be served by it.
NoFollower == None

\* The epoch of the pass that follows.
Follower == queued

\* The loop makes the pass that was queued, or settles the promise.
Continue ==
    /\ scan # None /\ ~Scanning
    /\ queued' = None
    /\ IF Follower # None
       THEN Begin(Follower) /\ UNCHANGED watcher
       ELSE /\ scan' = None
            /\ watcher' = IF watcher = "waiting" THEN "resuming" ELSE watcher
            /\ UNCHANGED <<superseded, touched>>
    /\ UNCHANGED <<disk, events, catalogueVars, epoch, refreshQueued, stopped, edits, degraded>>

--------------------------------------------------------------------------------
(* The files and the watcher. *)

ChangeFile(f) ==
    /\ Edit
    /\ disk' \in {[disk EXCEPT ![f] = c] : c \in Contents \ {disk[f]}}
    /\ events' = events + 1
    /\ UNCHANGED <<catalogueVars, epoch, queued, scan, watcherVars, superseded, touched, degraded>>

\* _handleEvent, and _drainRefreshes up to its first await.
HandleEvent ==
    /\ events > 0
    /\ events' = events - 1
    /\ IF stopped
       THEN UNCHANGED <<watcherVars, queued, scan, superseded, touched>>
       ELSE /\ IF watcher = "idle"
               THEN watcher' = "waiting" /\ Refresh /\ UNCHANGED refreshQueued
               ELSE refreshQueued' = TRUE /\ UNCHANGED <<watcher, queued, scan, superseded, touched>>
            /\ UNCHANGED stopped
    /\ UNCHANGED <<disk, catalogueVars, epoch, edits, degraded>>

\* Mutant: the loop does not take the queued refresh, so it never leaves.
RefreshLeft == refreshQueued

RefreshTaken == FALSE

\* _drainRefreshes after its await.
DrainRefreshes ==
    /\ watcher = "resuming"
    /\ IF refreshQueued
       THEN watcher' = "waiting" /\ refreshQueued' = RefreshTaken /\ Refresh
       ELSE watcher' = "idle" /\ UNCHANGED <<refreshQueued, queued, scan, superseded, touched>>
    /\ UNCHANGED <<disk, events, catalogueVars, epoch, stopped, edits, degraded>>

\* The promise of stop() settles with the pending refresh: when the watcher is idle.
StopWatcher ==
    /\ ~stopped
    /\ stopped' = TRUE
    /\ UNCHANGED <<disk, events, catalogueVars, epoch, queued, scan, watcher, refreshQueued, edits,
                   superseded, touched, degraded>>

Api ==
    \/ \E n \in Names : Add(n) \/ Remove(n) \/ Update(n)
    \/ \E given \in SUBSET Names : Replace(given)
    \/ GetAll
    \/ CallRefresh
    \/ CallDiscover

Scan == ScanDirectory \/ (\E f \in Files : ScanFile(f)) \/ Publish \/ Continue

Next ==
    \/ Api
    \/ Scan
    \/ \E f \in Files : ChangeFile(f)
    \/ HandleEvent
    \/ DrainRefreshes
    \/ StopWatcher

Spec == Init /\ [][Next]_vars

\* File operations complete, events are reported, continuations run.
FairSpec == Spec /\ WF_vars(Scan) /\ WF_vars(HandleEvent) /\ WF_vars(DrainRefreshes)

--------------------------------------------------------------------------------
(* What could go wrong. *)

\* However edits and passes interleave, all views agree: no name comes from two files, has(),
\* size() and the list of getAll() show the same items, and the count is of the visible ones.
ViewsAgree ==
    /\ items = Visible(manual, byPath)
    /\ discoveredCount = CountOf(manual, byPath)
    /\ cache \in {None, items}
    /\ \A f, g \in Files : byPath[f] # None /\ byPath[g] # None /\ byPath[f][1] = byPath[g][1] => f = g

\* What a pass had collected before clear() or setAll() never appears after it.
ReplacementIsFinal == [][superseded => \A f \in Files : byPath'[f] # None => byPath[f] # None]_vars

\* When every change was reported and every pass is over, the registry shows the files as they
\* are: an item of every valid file unless an earlier file has its name, and no item of a file
\* that is gone or names another.  (Not after an edit of what was found, or an unreadable file.)
Quiet == events = 0 /\ scan = None /\ watcher = "idle"

ShowsFiles ==
    /\ \A f \in Files : byPath[f] # None => disk[f] \in {byPath[f][1], "invalid"}
    /\ \A d \in Dirs : \A i \in Places(d) :
          disk[Layout[d][i]] \in Names =>
              \E f \in UpTo(d, i) : byPath[f] # None /\ byPath[f][1] = disk[Layout[d][i]]

QuietRegistryIsCurrent ==
    Quiet /\ discovered /\ ~stopped /\ ~touched /\ ~degraded => ShowsFiles

\* Nothing a caller can see is stale: not between the views, and not against the files once
\* everything is quiet.
CatalogueIsCurrent == ViewsAgree /\ QuietRegistryIsCurrent

\* Refreshes, whoever asks for them and whenever the watcher is stopped, come to an end: the
\* promises of refreshAsync(), discoverAsync() and the watcher's stop() settle.
RefreshesSettle == []<>Quiet
=============================================================================
