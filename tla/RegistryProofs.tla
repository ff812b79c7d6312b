--------------------------- MODULE RegistryProofs ---------------------------
(***************************************************************************)
(* Proofs about Registry: the views of a registry agree, a replacement is  *)
(* final, and a quiet registry shows its files.                            *)
(***************************************************************************)
EXTENDS Registry, FiniteSetTheorems, TLAPS

-----------------------------------------------------------------------------
(* The inductive invariant.                                                  *)

\* No name comes from two files.
OnePathPerName(paths) ==
    \A f, g \in Files : paths[f] # None /\ paths[g] # None /\ paths[f][1] = paths[g][1] => f = g

\* A change of a file that no running or finished pass can have missed is not forgotten: its event
\* is to come, or the watcher or the discovery loop has another pass to make.
Pending == events > 0 \/ refreshQueued \/ queued # None

\* A pass p is done with the file at a place: it has read it, or did not find it listed.
Done(p, d, i) == d < p.dir \/ (d = p.dir /\ Layout[d][i] \notin p.todo)

\* What a pass has found is at places before the first that it is not done with.
FoundBehind(p) ==
    \A f \in Files : p.found[f] # None =>
        \E d \in Dirs : \E i \in Places(d) :
            Layout[d][i] = f /\ d <= p.dir /\ \A j \in 1..i : Done(p, d, j)

\* What a pass holds if no file changed since it began and it could read everything: what the
\* files say or, of an invalid file, its last known item; and the items of all files it is done with.
ReadAsIs(p, files) ==
    /\ \A f \in Files : p.found[f] # None =>
          \/ p.found[f] = <<files[f], "read">>
          \/ files[f] = "invalid" /\ p.found[f] = p.previous[f]
    /\ \A d \in Dirs : \A i \in Places(d) :
          files[Layout[d][i]] \in Names /\ Done(p, d, i) =>
              \E f \in UpTo(d, i) : p.found[f] # None /\ p.found[f][1] = files[Layout[d][i]]
    /\ \A f \in p.todo : files[f] # "absent"

PassIsSound ==
    scan # None =>
        /\ OnePathPerName(scan.found) /\ OnePathPerName(scan.previous)
        /\ FoundBehind(scan)
        /\ scan.todo # {} => scan.dir \in Dirs
        /\ superseded => scan.epoch # epoch
        /\ scan.epoch # epoch => touched

PassReadsAsIs ==
    Scanning /\ scan.epoch = epoch /\ scan.clean /\ ~stopped /\ ~Pending => ReadAsIs(scan, disk)

RefreshesAreOwed ==
    /\ refreshQueued => watcher # "idle"
    /\ queued # None => scan # None

CatalogueShowsFiles ==
    discovered /\ ~touched /\ ~degraded /\ ~Scanning /\ ~stopped /\ ~Pending => ShowsFiles

Counted == events <= edits /\ epoch <= edits

IInv ==
    /\ TypeOK
    /\ Counted
    /\ ViewsAgree
    /\ PassIsSound
    /\ PassReadsAsIs
    /\ RefreshesAreOwed
    /\ CatalogueShowsFiles

-----------------------------------------------------------------------------
(* The directories, and what a registry shows of items by file.              *)

LEMMA Layouts ==
  /\ Len(Layout) \in Nat
  /\ Dirs \subseteq Nat \ {0}
  /\ \A d \in Dirs : /\ Places(d) \subseteq Nat \ {0}
                     /\ \A i \in Places(d) : Layout[d][i] \in Files
                     /\ \A i \in Places(d) : \A j \in 1..i : j \in Places(d)
                     /\ FilesOf(d) \subseteq Files
<1>1. Len(Layout) \in Nat /\ Dirs \subseteq Nat \ {0}
  BY ConstantsAssumption DEF ConstantsAssumption, Dirs
<1>2. ASSUME NEW d \in Dirs
      PROVE  /\ Places(d) \subseteq Nat \ {0}
             /\ \A i \in Places(d) : Layout[d][i] \in Files
             /\ \A i \in Places(d) : \A j \in 1..i : j \in Places(d)
  <2>1. Layout[d] \in Seq(Files)
    BY <1>2, ConstantsAssumption DEF ConstantsAssumption, Dirs
  <2> QED
    BY <2>1 DEF Places
<1> QED
  BY <1>1, <1>2 DEF FilesOf

\* The files that a scan has come to at a place.
LEMMA PlacesUpTo ==
  ASSUME NEW d \in Dirs, NEW i \in Places(d)
  PROVE  /\ UpTo(d, i) \subseteq Files
         /\ Layout[d][i] \in UpTo(d, i)
         /\ \A c \in Dirs : \A j \in Places(c) :
              c < d \/ (c = d /\ j <= i) => Layout[c][j] \in UpTo(d, i)
<1>1. d \in Nat \ {0} /\ i \in Nat \ {0}
  BY Layouts
<1>2. \A c \in 1..d-1 : c \in Dirs
  BY <1>1, Layouts DEF Dirs
<1>3. UpTo(d, i) \subseteq Files
  BY <1>1, <1>2, Layouts DEF UpTo
<1>4. ASSUME NEW c \in Dirs, NEW j \in Places(c), c < d
      PROVE  Layout[c][j] \in UpTo(d, i)
  <2>1. c \in 1..d-1
    BY <1>1, <1>4, Layouts
  <2> QED
    BY <2>1 DEF UpTo, FilesOf
<1>5. ASSUME NEW j \in Places(d), j <= i
      PROVE  Layout[d][j] \in UpTo(d, i)
  <2>1. j \in 1..i
    BY <1>1, <1>5, Layouts
  <2> QED
    BY <2>1 DEF UpTo
<1> QED
  BY <1>1, <1>3, <1>4, <1>5

LEMMA FilesAreFinite == IsFiniteSet(Files)
<1>1. ASSUME NEW d \in Dirs
      PROVE  IsFiniteSet(FilesOf(d))
  <2> DEFINE F == [i \in Places(d) |-> Layout[d][i]]
  <2>1. F \in Surjection(Places(d), FilesOf(d))
    BY DEF Surjection, FilesOf
  <2>2. 1 \in Int /\ Len(Layout[d]) \in Int
    BY <1>1, ConstantsAssumption DEF ConstantsAssumption, Dirs
  <2>3. IsFiniteSet(Places(d))
    <3>1. IsFiniteSet(1..Len(Layout[d]))
      BY <2>2, FS_Interval, Zenon
    <3> QED
      BY <3>1 DEF Places
  <2> QED
    BY <2>1, <2>3, FS_Surjection
<1> DEFINE G == [d \in Dirs |-> FilesOf(d)]
<1>2. G \in Surjection(Dirs, {FilesOf(d) : d \in Dirs})
  BY DEF Surjection
<1>3. IsFiniteSet(Dirs)
  <2>1. 1 \in Int /\ Len(Layout) \in Int
    BY Layouts
  <2>2. IsFiniteSet(1..Len(Layout))
    BY <2>1, FS_Interval, Zenon
  <2> QED
    BY <2>2 DEF Dirs
<1>4. IsFiniteSet({FilesOf(d) : d \in Dirs})
  BY <1>2, <1>3, FS_Surjection
<1> QED
  BY <1>1, <1>4, FS_UNION DEF Files

LEMMA PathsTyped ==
  ASSUME NEW paths \in Paths
  PROVE  /\ \A f \in Files : paths[f] # None =>
              /\ paths[f] \in Found
              /\ paths[f][1] \in Names /\ paths[f][2] \in {"read", "updated"}
              /\ paths[f] = <<paths[f][1], paths[f][2]>>
         /\ NamesIn(paths) = {n \in Names : \E f \in Files : paths[f] # None /\ paths[f][1] = n}
BY DEF Paths, Found, NamesIn

\* The text under a name is that of the one file that has it.
LEMMA TextOfPath ==
  ASSUME NEW paths \in Paths, OnePathPerName(paths), NEW f \in Files, paths[f] # None
  PROVE  TextIn(paths, paths[f][1]) = paths[f][2]
<1> DEFINE n == paths[f][1]
           e == CHOOSE x \in {paths[g] : g \in Files} : x # None /\ x[1] = n
<1>1. e \in {paths[g] : g \in Files} /\ e # None /\ e[1] = n
  OBVIOUS
<1>2. PICK g \in Files : e = paths[g]
  BY <1>1
<1>3. g = f
  BY <1>1, <1>2 DEF OnePathPerName
<1> QED
  BY <1>2, <1>3 DEF TextIn

LEMMA VisibleTyped ==
  ASSUME NEW added \in Views, NEW paths \in Paths, OnePathPerName(paths)
  PROVE  Visible(added, paths) \in Views
<1>1. ASSUME NEW n \in NamesIn(paths)
      PROVE  TextIn(paths, n) \in Texts
  BY <1>1, PathsTyped, TextOfPath DEF Texts
<1> QED
  BY <1>1 DEF Visible, Views

LEMMA CountBounded ==
  ASSUME NEW added, NEW paths \in Paths
  PROVE  CountOf(added, paths) \in 0..Cardinality(Files)
<1> DEFINE S == {f \in Files : paths[f] # None /\ added[paths[f][1]] = None}
           T == {n \in NamesIn(paths) : added[n] = None}
           F == [f \in S |-> paths[f][1]]
<1>1. F \in Surjection(S, T)
  BY DEF Surjection, NamesIn
<1>2. IsFiniteSet(S) /\ Cardinality(S) <= Cardinality(Files)
  BY FilesAreFinite, FS_Subset
<1>3. IsFiniteSet(T) /\ Cardinality(T) <= Cardinality(S)
  BY <1>1, <1>2, FS_Surjection
<1>4. Cardinality(T) \in Nat /\ Cardinality(S) \in Nat /\ Cardinality(Files) \in Nat
  BY <1>2, <1>3, FilesAreFinite, FS_CardinalityType
<1>5. CountOf(added, paths) = Cardinality(T)
  BY DEF CountOf
<1> QED
  BY <1>2, <1>3, <1>4, <1>5

-----------------------------------------------------------------------------
(* What the operations do to items by file.                                  *)

LEMMA NoFilesTyped ==
  /\ NoFiles \in Paths
  /\ OnePathPerName(NoFiles)
  /\ NamesIn(NoFiles) = {}
BY DEF NoFiles, Paths, OnePathPerName, NamesIn

\* remove() of what was found under a name.
LEMMA NameDropped ==
  ASSUME NEW paths \in Paths, OnePathPerName(paths), NEW n \in Names, NEW left,
         left = [f \in Files |-> IF paths[f] # None /\ paths[f][1] = n THEN None ELSE paths[f]]
  PROVE  /\ left \in Paths
         /\ OnePathPerName(left)
BY DEF Paths, OnePathPerName

\* update() of what was found under a name.
LEMMA NameUpdated ==
  ASSUME NEW paths \in Paths, OnePathPerName(paths), NEW n \in NamesIn(paths),
         NEW added \in Views, added[n] = None, NEW new,
         new = [f \in Files |-> IF paths[f] # None /\ paths[f][1] = n THEN <<n, "updated">> ELSE paths[f]]
  PROVE  /\ new \in Paths
         /\ OnePathPerName(new)
         /\ Visible(added, new) = [Visible(added, paths) EXCEPT ![n] = "updated"]
         /\ CountOf(added, new) = CountOf(added, paths)
<1>1. n \in Names
  BY PathsTyped
<1>2. <<n, "updated">> \in Found /\ <<n, "updated">> # None
  BY <1>1, ConstantsAssumption DEF ConstantsAssumption, Found
<1>3. new \in Paths
  BY <1>2 DEF Paths
<1>4. \A f \in Files : /\ new[f] = None <=> paths[f] = None
                       /\ paths[f] # None => new[f][1] = paths[f][1]
  BY <1>2
<1>5. OnePathPerName(new)
  BY <1>4 DEF OnePathPerName
<1>6. NamesIn(new) = NamesIn(paths)
  BY <1>4 DEF NamesIn
<1>7. ASSUME NEW m \in NamesIn(paths)
      PROVE  TextIn(new, m) = IF m = n THEN "updated" ELSE TextIn(paths, m)
  <2>1. PICK f \in Files : paths[f] # None /\ paths[f][1] = m
    BY <1>7 DEF NamesIn
  <2>2. TextIn(paths, m) = paths[f][2]
    BY <2>1, TextOfPath
  <2>3. TextIn(new, m) = new[f][2]
    BY <2>1, <1>3, <1>4, <1>5, TextOfPath
  <2>4. new[f] = IF m = n THEN <<n, "updated">> ELSE paths[f]
    BY <2>1
  <2> QED
    BY <2>2, <2>3, <2>4
<1>8. Visible(added, new) = [Visible(added, paths) EXCEPT ![n] = "updated"]
  <2> DEFINE u == Visible(added, new)
             v == Visible(added, paths)
  <2>1. ASSUME NEW m \in Names
        PROVE  u[m] = IF m = n THEN "updated" ELSE v[m]
    BY <1>1, <1>6, <1>7 DEF Visible
  <2>2. u = [m \in Names |-> u[m]] /\ v = [m \in Names |-> v[m]]
    BY DEF Visible
  <2> HIDE DEF u, v
  <2>3. u = [v EXCEPT ![n] = "updated"]
    BY <1>1, <2>1, <2>2
  <2> QED
    BY <2>3 DEF u, v
<1>9. CountOf(added, new) = CountOf(added, paths)
  BY <1>6 DEF CountOf
<1> QED
  BY <1>3, <1>5, <1>8, <1>9

\* What a scan reads or keeps of a file, if its name is free.
LEMMA Claims ==
  ASSUME NEW found \in Paths, OnePathPerName(found), NEW f \in Files, NEW entry \in Found \cup {None},
         NEW claimed, claimed = Claim(found, f, entry)
  PROVE  /\ claimed \in Paths
         /\ OnePathPerName(claimed)
         /\ \A g \in Files : claimed[g] # found[g] => g = f /\ claimed[g] = entry
         /\ entry # None => \E g \in Files : claimed[g] # None /\ claimed[g][1] = entry[1]
         /\ claimed = found \/ (entry # None /\ claimed[f] = entry /\ entry[1] \notin NamesIn(found))
<1>1. CASE entry # None /\ entry[1] \notin NamesIn(found)
  <2>1. claimed = [found EXCEPT ![f] = entry]
    BY <1>1 DEF Claim
  <2>2. claimed \in Paths /\ claimed[f] = entry
    BY <2>1 DEF Paths
  <2>3. \A g \in Files : g # f => claimed[g] = found[g]
    BY <2>1 DEF Paths
  <2>4. \A g \in Files : found[g] # None => found[g][1] # entry[1]
    BY <1>1 DEF NamesIn
  <2> QED
    BY <1>1, <2>2, <2>3, <2>4 DEF OnePathPerName
<1>2. CASE ~(entry # None /\ entry[1] \notin NamesIn(found))
  BY <1>2 DEF Claim, NamesIn
<1> QED
  BY <1>1, <1>2

\* A directory that cannot be listed keeps its last known items.
LEMMA Retains ==
  ASSUME NEW found \in Paths, OnePathPerName(found), NEW previous \in Paths, OnePathPerName(previous),
         NEW d, NEW kept, kept = RetainDirectory(found, d, previous)
  PROVE  /\ kept \in Paths
         /\ OnePathPerName(kept)
         /\ \A g \in Files : kept[g] # found[g] => g \in FilesOf(d)
<1>1. \A f \in Files :
         \/ kept[f] = found[f]
         \/ /\ f \in FilesOf(d) /\ kept[f] = previous[f] /\ previous[f] # None
            /\ \A g \in Files : found[g] # None => found[g][1] # previous[f][1]
  BY DEF RetainDirectory, NamesIn
<1>2. kept \in Paths
  BY DEF RetainDirectory, Paths
<1>3. OnePathPerName(kept)
  BY <1>1 DEF OnePathPerName
<1> QED
  BY <1>1, <1>2, <1>3

-----------------------------------------------------------------------------
(* Types, and the agreement of the views.                                    *)

Sources == manual \in Views /\ byPath \in Paths

LEMMA ItemsTyped ==
  ASSUME NEW i, NEW count, NEW c, NEW added \in Views, NEW paths \in Paths, OnePathPerName(paths),
         i = Visible(added, paths), count = CountOf(added, paths), c \in {None, i}
  PROVE  i \in Views /\ count \in 0..Cardinality(Files) /\ c \in Views \cup {None}
BY VisibleTyped, CountBounded

\* What every edit, hit or miss of the cache, and published pass keeps.
LEMMA ViewsKept ==
  ASSUME TypeOK, ViewsAgree, PassIsSound, Next
  PROVE  Sources' /\ ViewsAgree'
<1> USE DEF Sources
<1>1. Sources /\ OnePathPerName(byPath) /\ NamesIn(byPath) \subseteq Names
  BY PathsTyped DEF TypeOK, ViewsAgree, OnePathPerName
<1>2. items = Visible(manual, byPath) /\ discoveredCount = CountOf(manual, byPath) /\ cache \in {None, items}
  BY DEF ViewsAgree
<1>3. SUFFICES /\ manual' \in Views /\ byPath' \in Paths
               /\ OnePathPerName(byPath')
               /\ items' = Visible(manual', byPath')
               /\ discoveredCount' = CountOf(manual', byPath')
               /\ cache' \in {None, items'}
  BY DEF ViewsAgree, OnePathPerName
<1>4. ASSUME UNCHANGED <<manual, byPath, items, cache, discoveredCount>>
      PROVE  /\ manual' \in Views /\ byPath' \in Paths
             /\ OnePathPerName(byPath')
             /\ items' = Visible(manual', byPath')
             /\ discoveredCount' = CountOf(manual', byPath')
             /\ cache' \in {None, items'}
  BY <1>1, <1>2, <1>4
<1>5. ASSUME NEW n \in Names, Add(n)
      PROVE  /\ manual' \in Views /\ byPath' = byPath
             /\ items' = Visible(manual', byPath)
             /\ discoveredCount' = CountOf(manual', byPath)
             /\ cache' = None
  <2>1. items[n] = None /\ items' = [items EXCEPT ![n] = "added"] /\ byPath' = byPath /\ cache' = None
    BY <1>5 DEF Add, Invalidated
  <2>2. manual' = [manual EXCEPT ![n] = "added"] /\ discoveredCount' = discoveredCount
    BY <1>5 DEF Add
  <2>3. manual' \in Views
    BY <1>1, <2>2 DEF Views, Texts
  <2>4. manual[n] = None /\ n \notin NamesIn(byPath)
    <3>1. ASSUME n \in NamesIn(byPath)
          PROVE  TextIn(byPath, n) # None
      <4>1. PICK f \in Files : byPath[f] # None /\ byPath[f][1] = n
        BY <3>1 DEF NamesIn
      <4>2. TextIn(byPath, n) = byPath[f][2] /\ byPath[f][2] \in {"read", "updated"}
        BY <1>1, <4>1, TextOfPath, PathsTyped
      <4> QED
        BY <4>2, ConstantsAssumption DEF ConstantsAssumption, Texts
    <3> QED
      BY <1>2, <2>1, <3>1 DEF Visible
  <2>5. "added" # None
    BY ConstantsAssumption DEF ConstantsAssumption, Texts
  <2>6. items' = Visible(manual', byPath)
    <3>1. \A m \in Names : manual'[m] = IF m = n THEN "added" ELSE manual[m]
      BY <1>1, <2>2 DEF Views
    <3> QED
      BY <1>2, <2>1, <2>5, <3>1 DEF Visible
  <2>7. {m \in NamesIn(byPath) : manual'[m] = None} = {m \in NamesIn(byPath) : manual[m] = None}
    BY <1>1, <2>2, <2>4 DEF Views
  <2> QED
    BY <1>2, <2>1, <2>2, <2>3, <2>6, <2>7 DEF CountOf
<1>6. ASSUME NEW n \in Names, Remove(n)
      PROVE  /\ manual' \in Views /\ byPath' \in Paths
             /\ OnePathPerName(byPath')
             /\ items' = Visible(manual', byPath')
             /\ discoveredCount' = CountOf(manual', byPath')
             /\ cache' = None
  <2>1. manual' = [manual EXCEPT ![n] = None] /\ cache' = None
    BY <1>6 DEF Remove, Invalidated
  <2>2. items' = Visible(manual', byPath') /\ discoveredCount' = CountOf(manual', byPath')
    BY <1>6 DEF Remove, Rebuild
  <2>3. byPath' \in Paths /\ OnePathPerName(byPath')
    BY <1>1, <1>6, NameDropped DEF Remove
  <2> QED
    BY <1>1, <2>1, <2>2, <2>3 DEF Views
<1>7. ASSUME NEW n \in Names, Update(n)
      PROVE  /\ manual' \in Views /\ byPath' \in Paths
             /\ OnePathPerName(byPath')
             /\ items' = Visible(manual', byPath')
             /\ discoveredCount' = CountOf(manual', byPath')
             /\ cache' = None
  <2>1. /\ items[n] # None /\ items' = [items EXCEPT ![n] = "updated"]
        /\ discoveredCount' = discoveredCount /\ cache' = None
    BY <1>7 DEF Update, Invalidated
  <2>2. CASE manual[n] # None
    <3>1. manual' = [manual EXCEPT ![n] = "updated"] /\ byPath' = byPath
      BY <1>7, <2>2 DEF Update
    <3>2. manual' \in Views /\ "updated" # None
      BY <1>1, <3>1, ConstantsAssumption DEF ConstantsAssumption, Views, Texts
    <3>3. \A m \in Names : manual'[m] = IF m = n THEN "updated" ELSE manual[m]
      BY <1>1, <3>1 DEF Views
    <3>4. items' = Visible(manual', byPath)
      BY <1>2, <2>1, <3>2, <3>3 DEF Visible
    <3>5. {m \in NamesIn(byPath) : manual'[m] = None} = {m \in NamesIn(byPath) : manual[m] = None}
      BY <1>1, <2>2, <3>2, <3>3
    <3> QED
      BY <1>1, <1>2, <2>1, <3>1, <3>2, <3>4, <3>5 DEF CountOf
  <2>3. CASE manual[n] = None
    <3>1. /\ manual' = manual
          /\ byPath' = [f \in Files |-> IF byPath[f] # None /\ byPath[f][1] = n
                                        THEN <<n, "updated">> ELSE byPath[f]]
      BY <1>7, <2>3 DEF Update
    <3>2. n \in NamesIn(byPath)
      BY <1>2, <2>1, <2>3 DEF Visible
    <3>3. /\ byPath' \in Paths /\ OnePathPerName(byPath')
          /\ Visible(manual, byPath') = [Visible(manual, byPath) EXCEPT ![n] = "updated"]
          /\ CountOf(manual, byPath') = CountOf(manual, byPath)
      BY <1>1, <2>3, <3>1, <3>2, NameUpdated
    <3> QED
      BY <1>1, <1>2, <2>1, <3>1, <3>3
  <2> QED
    BY <2>2, <2>3
<1>8. ASSUME NEW given \in SUBSET Names, Replace(given)
      PROVE  /\ manual' \in Views /\ byPath' = NoFiles
             /\ items' = Visible(manual', NoFiles)
             /\ discoveredCount' = CountOf(manual', NoFiles)
             /\ cache' = None
  <2>1. manual' = [n \in Names |-> IF n \in given THEN "added" ELSE None] /\ items' = manual'
    BY <1>8 DEF Replace
  <2>2. byPath' = NoFiles /\ discoveredCount' = 0 /\ cache' = None
    BY <1>8 DEF Replace, Invalidated
  <2>3. manual' \in Views
    BY <2>1 DEF Views, Texts
  <2>4. Visible(manual', NoFiles) = manual'
    BY <2>1, NoFilesTyped DEF Visible
  <2>5. {n \in NamesIn(NoFiles) : manual'[n] = None} = {}
    BY NoFilesTyped
  <2>6. CountOf(manual', NoFiles) = 0
    BY <2>5, FS_EmptySet DEF CountOf
  <2> QED
    BY <2>1, <2>2, <2>3, <2>4, <2>6
<1>9. CASE GetAll
  <2>1. cache' \in {None, items} /\ UNCHANGED <<manual, byPath, items, discoveredCount>>
    BY <1>2, <1>9 DEF GetAll, SetCache, Cached
  <2> QED
    BY <1>1, <1>2, <2>1
<1>10. CASE Publish
  <2>1. CASE scan.epoch # epoch
    BY <1>4, <1>10, <2>1 DEF Publish
  <2>2. CASE scan.epoch = epoch
    <3>1. /\ byPath' = scan.found /\ manual' = manual
          /\ items' = Visible(manual, byPath') /\ discoveredCount' = CountOf(manual, byPath')
          /\ cache' = items'
      BY <1>10, <2>2 DEF Publish, SetCache
    <3>2. scan # None
      BY <1>10 DEF Publish, Scanning
    <3>3. scan.found \in Paths /\ OnePathPerName(scan.found)
      BY <3>2 DEF TypeOK, Passes, PassIsSound
    <3> QED
      BY <1>1, <3>1, <3>3
  <2> QED
    BY <2>1, <2>2
<1>11. CASE Api
  BY <1>1, <1>4, <1>5, <1>6, <1>7, <1>8, <1>9, <1>11, NoFilesTyped
  DEF Api, CallRefresh, CallDiscover, catalogueVars
<1>12. CASE Scan
  BY <1>4, <1>10, <1>12 DEF Scan, ScanDirectory, ScanFile, Continue, Scanned, catalogueVars
<1>13. CASE (\E f \in Files : ChangeFile(f)) \/ HandleEvent \/ DrainRefreshes \/ StopWatcher
  BY <1>4, <1>13 DEF ChangeFile, HandleEvent, DrainRefreshes, StopWatcher, catalogueVars
<1> QED
  BY <1>11, <1>12, <1>13 DEF Next

-----------------------------------------------------------------------------
(* The steps of a pass.                                                      *)

LEMMA PassTyped ==
  ASSUME NEW p \in Passes
  PROVE  /\ p.epoch \in Nat /\ p.dir \in Nat /\ p.todo \subseteq Files
         /\ p.found \in Paths /\ p.previous \in Paths /\ p.clean \in BOOLEAN
         /\ p # None
BY ConstantsAssumption DEF ConstantsAssumption, Passes

PassFields == {"epoch", "dir", "todo", "found", "previous", "clean"}

LEMMA PassHasFields ==
  ASSUME NEW p \in Passes
  PROVE  p = [x \in PassFields |-> p[x]]
BY DEF Passes, PassFields

LEMMA HasFieldsOfPass ==
  ASSUME NEW q, q = [x \in PassFields |-> q[x]], q.epoch \in Nat, q.dir \in Nat, q.todo \subseteq Files,
         q.found \in Paths, q.previous \in Paths, q.clean \in BOOLEAN
  PROVE  q \in Passes
BY DEF Passes, PassFields

\* What a pass has found lies before every file it has not yet read.
LEMMA FoundUpTo ==
  ASSUME NEW p \in Passes, FoundBehind(p), NEW f \in Files, p.found[f] # None,
         p.dir \in Dirs, NEW i \in Places(p.dir), Layout[p.dir][i] \in p.todo
  PROVE  f \in UpTo(p.dir, i)
<1> DEFINE d == p.dir
<1>0. PICK c \in Dirs : \E j \in Places(c) :
         Layout[c][j] = f /\ c <= d /\ \A k \in 1..j : Done(p, c, k)
  BY DEF FoundBehind
<1>1. PICK j \in Places(c) : Layout[c][j] = f /\ c <= d /\ \A k \in 1..j : Done(p, c, k)
  BY <1>0
<1>2. c \in Nat /\ d \in Nat /\ i \in Nat \ {0} /\ j \in Nat \ {0}
  BY PassTyped, Layouts
<1>3. c < d \/ (c = d /\ j <= i)
  <2>1. ASSUME c = d, i < j
        PROVE  FALSE
    <3>1. i \in 1..j
      BY <1>2, <2>1
    <3>2. Done(p, d, i)
      BY <1>1, <2>1, <3>1
    <3> QED
      BY <1>2, <3>2 DEF Done
  <2> QED
    BY <1>1, <1>2, <2>1
<1> QED
  BY <1>1, <1>3, PlacesUpTo

\* readdir: every file of the directory that is there is listed, or what was known is kept.
LEMMA DirectoryListed ==
  ASSUME NEW p \in Passes, OnePathPerName(p.found), OnePathPerName(p.previous), FoundBehind(p),
         p.todo = {}, p.dir < Len(Layout),
         NEW q \in Passes, q.epoch = p.epoch, q.previous = p.previous, q.dir = p.dir + 1,
         q.found = p.found \/ (q.found = RetainDirectory(p.found, q.dir, p.previous) /\ q.todo = {})
  PROVE  /\ OnePathPerName(q.found)
         /\ FoundBehind(q)
         /\ q.dir \in Dirs
<1>1. p.dir \in Nat /\ p.dir + 1 \in Dirs /\ Len(Layout) \in Nat
  BY PassTyped, Layouts DEF Dirs
<1>2. ASSUME NEW d \in Dirs, NEW i \in Places(d), d <= p.dir
      PROVE  Done(q, d, i)
  BY <1>1, <1>2, Layouts DEF Done
<1>3. CASE q.found = p.found
  <2>1. FoundBehind(q)
    <3> SUFFICES ASSUME NEW f \in Files, q.found[f] # None
                 PROVE  \E d \in Dirs : \E i \in Places(d) :
                           Layout[d][i] = f /\ d <= q.dir /\ \A j \in 1..i : Done(q, d, j)
      BY DEF FoundBehind
    <3>1. PICK d \in Dirs : \E i \in Places(d) : Layout[d][i] = f /\ d <= p.dir
      BY <1>3 DEF FoundBehind
    <3>2. PICK i \in Places(d) : Layout[d][i] = f /\ d <= p.dir
      BY <3>1
    <3>3. \A j \in 1..i : Done(q, d, j)
      BY <1>2, <3>2, Layouts
    <3>4. d <= q.dir
      BY <1>1, <3>2, Layouts
    <3> QED
      BY <3>2, <3>3, <3>4
  <2> QED
    BY <1>1, <1>3, <2>1
<1>4. CASE q.found = RetainDirectory(p.found, q.dir, p.previous) /\ q.todo = {}
  <2>1. PICK found \in Paths, previous \in Paths, kept \in Paths :
           found = p.found /\ previous = p.previous /\ kept = q.found
    BY PassTyped
  <2>2. OnePathPerName(found) /\ OnePathPerName(previous) /\ kept = RetainDirectory(found, q.dir, previous)
    BY <1>4, <2>1
  <2>3. OnePathPerName(kept) /\ \A g \in Files : kept[g] # found[g] => g \in FilesOf(q.dir)
    BY <2>2, Retains
  <2>4. FoundBehind(q)
    <3> SUFFICES ASSUME NEW f \in Files, q.found[f] # None
                 PROVE  \E d \in Dirs : \E i \in Places(d) :
                           Layout[d][i] = f /\ d <= q.dir /\ \A j \in 1..i : Done(q, d, j)
      BY DEF FoundBehind
    <3>1. PICK d \in Dirs : \E i \in Places(d) : Layout[d][i] = f /\ d <= q.dir
      <4>1. CASE p.found[f] # None
        <5>1. PICK d \in Dirs : \E i \in Places(d) : Layout[d][i] = f /\ d <= p.dir
          BY <4>1 DEF FoundBehind
        <5>2. PICK i \in Places(d) : Layout[d][i] = f /\ d <= p.dir
          BY <5>1
        <5>3. d <= q.dir
          BY <1>1, <5>2, Layouts
        <5> QED
          BY <5>2, <5>3
      <4>2. CASE p.found[f] = None
        BY <1>1, <2>1, <2>3, <4>2 DEF FilesOf
      <4> QED
        BY <4>1, <4>2
    <3>2. PICK i \in Places(d) : Layout[d][i] = f /\ d <= q.dir
      BY <3>1
    <3>3. \A j \in 1..i : Done(q, d, j)
      <4> SUFFICES ASSUME NEW j \in 1..i
                   PROVE  Done(q, d, j)
        OBVIOUS
      <4>1. d < q.dir \/ d = q.dir
        BY <1>1, <3>2, Layouts
      <4> QED
        BY <1>4, <4>1 DEF Done
    <3> QED
      BY <3>2, <3>3
  <2> QED
    BY <1>1, <2>1, <2>3, <2>4
<1> QED
  BY <1>3, <1>4

\* readFile: the file is read, or its last known item is kept.
LEMMA FileRead ==
  ASSUME NEW p \in Passes, OnePathPerName(p.found), FoundBehind(p), p.dir \in Dirs,
         NEW i \in Places(p.dir), NEW f \in Files, f = Layout[p.dir][i],
         \A j \in 1..i-1 : Layout[p.dir][j] \notin p.todo,
         NEW entry \in Found \cup {None},
         NEW q \in Passes, q.dir = p.dir, q.todo = p.todo \ {f}, q.found = Claim(p.found, f, entry)
  PROVE  OnePathPerName(q.found) /\ FoundBehind(q)
<1>1. p.found \in Paths /\ p.dir \in Nat /\ i \in Nat \ {0}
  BY PassTyped, Layouts
<1>2. OnePathPerName(q.found)
  <2>1. PICK found \in Paths : found = p.found
    BY <1>1
  <2>2. OnePathPerName(Claim(found, f, entry))
    BY <2>1, Claims
  <2> QED
    BY <2>1, <2>2
<1>3. \A g \in Files : q.found[g] # p.found[g] => g = f
  BY <1>1 DEF Claim, Paths
<1>4. FoundBehind(q)
  <2> SUFFICES ASSUME NEW g \in Files, q.found[g] # None
               PROVE  \E d \in Dirs : \E j \in Places(d) :
                         Layout[d][j] = g /\ d <= q.dir /\ \A k \in 1..j : Done(q, d, k)
    BY DEF FoundBehind
  <2>1. CASE p.found[g] # None
    <3>1. PICK d \in Dirs : \E j \in Places(d) :
             Layout[d][j] = g /\ d <= p.dir /\ \A k \in 1..j : Done(p, d, k)
      BY <2>1 DEF FoundBehind
    <3>2. PICK j \in Places(d) : Layout[d][j] = g /\ d <= p.dir /\ \A k \in 1..j : Done(p, d, k)
      BY <3>1
    <3>3. \A k \in 1..j : Done(q, d, k)
      BY <3>2 DEF Done
    <3> QED
      BY <3>2, <3>3
  <2>2. CASE p.found[g] = None
    <3>1. g = f
      BY <1>3, <2>2
    <3>2. ASSUME NEW k \in 1..i
          PROVE  Layout[p.dir][k] \notin q.todo
      <4>1. k = i \/ k \in 1..i-1
        BY <1>1
      <4> QED
        BY <4>1
    <3>3. \A k \in 1..i : Done(q, p.dir, k)
      BY <3>2 DEF Done
    <3>4. p.dir <= q.dir
      BY <1>1
    <3> QED
      BY <3>1, <3>3, <3>4
  <2> QED
    BY <2>1, <2>2
<1> QED
  BY <1>2, <1>4

-----------------------------------------------------------------------------
(* Passes of the discovery loop are sound, and refreshes are not forgotten.  *)

SoundPass(p, e, void, dirty) ==
  /\ OnePathPerName(p.found) /\ OnePathPerName(p.previous)
  /\ FoundBehind(p)
  /\ p.todo # {} => p.dir \in Dirs
  /\ void => p.epoch # e
  /\ p.epoch # e => dirty
  /\ p.epoch <= e /\ p.dir <= Len(Layout) + 1

\* What a step may do to the loop: nothing, begin a pass, make it void, go on with it or end.
LEMMA LoopSteps ==
  ASSUME TypeOK, Next
  PROVE  \/ UNCHANGED <<scan, superseded, epoch>> /\ (touched => touched')
         \/ Begin(epoch) /\ UNCHANGED epoch
         \/ epoch' = epoch + 1 /\ superseded' = (scan # None) /\ touched' = TRUE /\ UNCHANGED scan
         \/ /\ ScanDirectory \/ (\E f \in Files : ScanFile(f)) \/ Publish
            /\ UNCHANGED <<epoch, superseded, touched>>
         \/ scan' = None /\ UNCHANGED epoch
<1>1. CASE Api
  BY <1>1 DEF Api, Add, Remove, Update, Replace, GetAll, CallRefresh, CallDiscover, Refresh, NewEpoch
<1>2. CASE ScanDirectory \/ (\E f \in Files : ScanFile(f)) \/ Publish
  BY <1>2 DEF ScanDirectory, ScanFile, Publish, Scanned
<1>3. CASE Continue
  BY <1>3 DEF Continue, Follower, TypeOK
<1>4. CASE (\E f \in Files : ChangeFile(f)) \/ HandleEvent \/ DrainRefreshes \/ StopWatcher
  BY <1>4 DEF ChangeFile, HandleEvent, DrainRefreshes, StopWatcher, Refresh
<1> QED
  BY <1>1, <1>2, <1>3, <1>4 DEF Next, Scan

LEMMA FreshPass ==
  ASSUME NEW e \in Nat, NEW p, p = Pass(e), byPath \in Paths,
         OnePathPerName(byPath)
  PROVE  p \in Passes /\ p.epoch = e /\ p.dir = 0 /\ p.todo = {} /\ SoundPass(p, e, FALSE, FALSE)
<1>1. p \in Passes
  BY NoFilesTyped DEF Pass, Passes
<1>2. /\ p.epoch = e /\ p.dir = 0 /\ p.todo = {} /\ p.found = NoFiles /\ p.previous = byPath
  BY DEF Pass
<1>3. FoundBehind(p)
  BY <1>2 DEF FoundBehind, NoFiles
<1>4. OnePathPerName(p.found) /\ OnePathPerName(p.previous)
  BY <1>2, NoFilesTyped
<1>5. p.epoch <= e /\ p.dir <= Len(Layout) + 1
  <2>1. Len(Layout) \in Nat
    BY Layouts
  <2>2. e <= e /\ 0 <= Len(Layout) + 1
    BY <2>1
  <2> QED
    BY <1>2, <2>2
<1> QED
  BY <1>1, <1>2, <1>3, <1>4, <1>5 DEF SoundPass

\* ScanDirectory in terms of the pass.
LEMMA DirectoryStep ==
  ASSUME NEW p \in Passes, p = scan, OnePathPerName(p.found), OnePathPerName(p.previous),
         FoundBehind(p), ScanDirectory, NEW q, q = scan'
  PROVE  /\ p.todo = {} /\ p.dir < Len(Layout)
         /\ q \in Passes /\ q.epoch = p.epoch /\ q.previous = p.previous /\ q.dir = p.dir + 1
         /\ OnePathPerName(q.found)
         /\ FoundBehind(q)
         /\ q.dir \in Dirs
         /\ q.clean => /\ p.clean
                       /\ q.found = p.found
                       /\ q.todo = {f \in FilesOf(q.dir) : disk[f] # "absent"}
<1>1. p.todo = {} /\ p.dir < Len(Layout)
  BY DEF ScanDirectory
<1>2. PICK listed : listed = {f \in FilesOf(p.dir + 1) : disk[f] # "absent"}
  OBVIOUS
<1>3. PICK kept : kept = RetainDirectory(p.found, p.dir + 1, p.previous)
  OBVIOUS
<1>4. \/ q = [p EXCEPT !.dir = p.dir + 1, !.todo = listed]
      \/ q = [p EXCEPT !.dir = p.dir + 1, !.clean = FALSE, !.found = kept]
  BY <1>2, <1>3 DEF ScanDirectory, Scanned
<1>5. q = [x \in PassFields |-> q[x]]
  BY <1>4, PassHasFields DEF PassFields
<1>6. q.epoch = p.epoch /\ q.previous = p.previous /\ q.dir = p.dir + 1
  BY <1>4, PassHasFields DEF PassFields
<1>7. \/ q.todo = listed /\ q.found = p.found /\ q.clean = p.clean
      \/ q.todo = {} /\ q.found = kept /\ q.clean = FALSE
  BY <1>1, <1>4, PassHasFields DEF PassFields
<1>8. p.dir + 1 \in Dirs /\ listed \subseteq Files /\ kept \in Paths /\ q.dir \in Nat
  <2>1. p.dir + 1 \in Dirs /\ p.dir + 1 \in Nat
    BY <1>1, PassTyped, Layouts DEF Dirs
  <2>2. PICK found \in Paths, previous \in Paths : found = p.found /\ previous = p.previous
    BY PassTyped
  <2>3. OnePathPerName(found) /\ OnePathPerName(previous) /\ kept = RetainDirectory(found, p.dir + 1, previous)
    BY <1>3, <2>2
  <2>4. kept \in Paths
    BY <2>2, <2>3, Retains
  <2>5. listed \subseteq Files
    BY <1>2, <2>1, Layouts
  <2> QED
    BY <1>6, <2>1, <2>4, <2>5
<1>9. q \in Passes
  BY <1>5, <1>6, <1>7, <1>8, PassTyped, HasFieldsOfPass
<1>10. q.found = p.found \/ (q.found = RetainDirectory(p.found, q.dir, p.previous) /\ q.todo = {})
  BY <1>3, <1>6, <1>7
<1>11. OnePathPerName(q.found) /\ FoundBehind(q) /\ q.dir \in Dirs
  BY <1>1, <1>6, <1>9, <1>10, DirectoryListed
<1>12. q.clean => p.clean /\ q.found = p.found /\ q.todo = {f \in FilesOf(q.dir) : disk[f] # "absent"}
  BY <1>2, <1>6, <1>7
<1> QED
  BY <1>1, <1>6, <1>9, <1>11, <1>12

\* ScanFile in terms of the pass.
FileTaken(p, q, f) ==
  /\ q \in Passes /\ q.epoch = p.epoch /\ q.previous = p.previous /\ q.dir = p.dir
  /\ OnePathPerName(q.found)
  /\ FoundBehind(q)
  /\ p.dir \in Dirs /\ f \in p.todo /\ q.todo = p.todo \ {f}
  /\ \E i \in Places(p.dir) :
        Layout[p.dir][i] = f /\ \A j \in 1..i-1 : Layout[p.dir][j] \notin p.todo
  /\ q.clean =>
        /\ p.clean
        /\ \/ disk[f] \in Names /\ q.found = Claim(p.found, f, <<disk[f], "read">>)
           \/ disk[f] = "plain" /\ q.found = Claim(p.found, f, None)
           \/ disk[f] \in {"invalid", "absent"} /\ q.found = Claim(p.found, f, p.previous[f])

LEMMA FileStep ==
  ASSUME NEW p \in Passes, p = scan, OnePathPerName(p.found), FoundBehind(p), p.todo # {} => p.dir \in Dirs,
         NEW f \in Files, ScanFile(f), NEW q, q = scan'
  PROVE  FileTaken(p, q, f)
<1>1. p.dir \in Dirs /\ f \in p.todo
  BY DEF ScanFile, IsNext
<1>2. PICK i \in Places(p.dir) : Layout[p.dir][i] = f /\ \A j \in 1..i-1 : Layout[p.dir][j] \notin p.todo
  BY DEF ScanFile, IsNext
<1>3. PICK todo \in SUBSET Files : todo = p.todo \ {f}
  BY PassTyped
<1>4. PICK entry \in Found \cup {None}, clean \in BOOLEAN :
         /\ \/ q = [p EXCEPT !.todo = todo, !.found = Claim(p.found, f, entry)] /\ clean = p.clean
            \/ /\ q = [[p EXCEPT !.todo = todo, !.found = Claim(p.found, f, entry)] EXCEPT !.clean = FALSE]
               /\ clean = FALSE
         /\ clean => \/ disk[f] \in Names /\ entry = <<disk[f], "read">>
                     \/ disk[f] = "plain" /\ entry = None
                     \/ disk[f] \in {"invalid", "absent"} /\ entry = p.previous[f]
  <2>1. p.clean \in BOOLEAN /\ p.previous[f] \in Found \cup {None}
    BY PassTyped DEF Paths
  <2>2. CASE disk[f] \in Names /\ Scanned([p EXCEPT !.todo = @ \ {f}, !.found = Claim(@, f, <<disk[f], "read">>)])
    <3>1. <<disk[f], "read">> \in Found
      BY <2>2 DEF Found
    <3>2. q = [p EXCEPT !.todo = todo, !.found = Claim(p.found, f, <<disk[f], "read">>)]
      BY <1>3, <2>2 DEF Scanned
    <3> QED
      BY <2>1, <2>2, <3>1, <3>2
  <2>3. CASE disk[f] = "plain" /\ Scanned([p EXCEPT !.todo = @ \ {f}, !.found = Claim(@, f, None)])
    BY <1>3, <2>1, <2>3 DEF Scanned
  <2>4. CASE disk[f] \in {"invalid", "absent"} /\ Scanned([p EXCEPT !.todo = @ \ {f}, !.found = Claim(@, f, p.previous[f])])
    BY <1>3, <2>1, <2>4 DEF Scanned
  <2>5. CASE Scanned([[p EXCEPT !.todo = @ \ {f}, !.found = Claim(@, f, p.previous[f])] EXCEPT !.clean = FALSE])
    BY <1>3, <2>1, <2>5 DEF Scanned
  <2> QED
    BY <2>2, <2>3, <2>4, <2>5 DEF ScanFile
<1>5. PICK claimed : claimed = Claim(p.found, f, entry)
  OBVIOUS
<1>6. \/ q = [p EXCEPT !.todo = todo, !.found = claimed] /\ clean = p.clean
      \/ q = [[p EXCEPT !.todo = todo, !.found = claimed] EXCEPT !.clean = FALSE] /\ clean = FALSE
  BY <1>4, <1>5
<1>7. q = [x \in PassFields |-> q[x]]
  BY <1>6, PassHasFields DEF PassFields
<1>8. q.epoch = p.epoch /\ q.previous = p.previous /\ q.dir = p.dir /\ q.todo = todo
  BY <1>6, PassHasFields DEF PassFields
<1>9. q.found = claimed
  BY <1>6, PassHasFields DEF PassFields
<1>10. q.clean = clean /\ (clean => p.clean)
  BY <1>6, PassHasFields DEF PassFields
<1>11. claimed \in Paths
  <2>1. PICK found \in Paths : found = p.found
    BY PassTyped
  <2>2. Claim(found, f, entry) \in Paths
    BY <1>4, <2>1, Claims
  <2> QED
    BY <1>5, <2>1, <2>2
<1>12. q \in Passes
  BY <1>3, <1>7, <1>8, <1>9, <1>10, <1>11, PassTyped, HasFieldsOfPass
<1>13. OnePathPerName(q.found) /\ FoundBehind(q)
  BY <1>1, <1>2, <1>3, <1>4, <1>5, <1>8, <1>9, <1>12, FileRead
<1> QED
  BY <1>1, <1>2, <1>3, <1>4, <1>5, <1>8, <1>9, <1>10, <1>12, <1>13 DEF FileTaken

\* Publish in terms of the pass.
LEMMA PublishStep ==
  ASSUME NEW p \in Passes, p = scan, FoundBehind(p), Publish, NEW q, q = scan'
  PROVE  /\ q \in Passes /\ q.epoch = p.epoch /\ q.previous = p.previous /\ q.dir = p.dir + 1
         /\ q.found = p.found /\ q.todo = {}
         /\ p.dir = Len(Layout) /\ p.todo = {}
         /\ FoundBehind(q)
<1>1. p.dir = Len(Layout) /\ p.todo = {} /\ q = [p EXCEPT !.dir = p.dir + 1]
  BY DEF Publish
<1>2. q = [x \in PassFields |-> q[x]]
  BY <1>1, PassHasFields DEF PassFields
<1>3. q.epoch = p.epoch /\ q.previous = p.previous /\ q.dir = p.dir + 1 /\ q.todo = p.todo
  BY <1>1, PassHasFields DEF PassFields
<1>4. q.found = p.found /\ q.clean = p.clean
  BY <1>1, PassHasFields DEF PassFields
<1>5. q.dir \in Nat /\ p.dir \in Nat
  BY <1>3, PassTyped
<1>6. q \in Passes
  BY <1>2, <1>3, <1>4, <1>5, PassTyped, HasFieldsOfPass
<1>7. FoundBehind(q)
  <2> SUFFICES ASSUME NEW f \in Files, q.found[f] # None
               PROVE  \E d \in Dirs : \E i \in Places(d) :
                         Layout[d][i] = f /\ d <= q.dir /\ \A j \in 1..i : Done(q, d, j)
    BY DEF FoundBehind
  <2>1. PICK d \in Dirs : \E i \in Places(d) : Layout[d][i] = f /\ d <= p.dir
    BY <1>4 DEF FoundBehind
  <2>2. PICK i \in Places(d) : Layout[d][i] = f
    BY <2>1
  <2>3. d < q.dir /\ d <= q.dir
    BY <1>3, <1>5, <2>1, Layouts
  <2> QED
    BY <2>2, <2>3 DEF Done
<1> QED
  BY <1>1, <1>3, <1>4, <1>6, <1>7

LEMMA PassKept ==
  ASSUME TypeOK, ViewsAgree, PassIsSound, Next, NEW q, q = scan', q # None
  PROVE  q \in Passes /\ SoundPass(q, epoch', superseded', touched')
<1>1. /\ epoch \in Nat /\ superseded \in BOOLEAN /\ touched \in BOOLEAN
      /\ byPath \in Paths /\ OnePathPerName(byPath)
  BY DEF TypeOK, ViewsAgree, OnePathPerName
<1>2. scan # None => scan \in Passes /\ SoundPass(scan, epoch, superseded, touched)
  BY DEF TypeOK, PassIsSound, SoundPass
<1>3. CASE UNCHANGED <<scan, superseded, epoch>> /\ (touched => touched')
  BY <1>2, <1>3 DEF SoundPass
<1>4. CASE Begin(epoch) /\ UNCHANGED epoch
  <2>1. q = Pass(epoch) /\ superseded' = FALSE /\ touched' = FALSE
    BY <1>4 DEF Begin
  <2> QED
    BY <1>1, <1>4, <2>1, FreshPass
<1>5. CASE epoch' = epoch + 1 /\ superseded' = (scan # None) /\ touched' = TRUE /\ UNCHANGED scan
  BY <1>1, <1>2, <1>5, PassTyped DEF SoundPass
<1>6. CASE ScanDirectory /\ UNCHANGED <<epoch, superseded, touched>>
  <2>1. PICK p \in Passes : p = scan
    BY <1>2, <1>6 DEF ScanDirectory, Scanning
  <2>2. SoundPass(p, epoch, superseded, touched)
    BY <1>2, <1>6, <2>1, PassTyped
  <2>3. /\ p.todo = {} /\ p.dir < Len(Layout)
        /\ q \in Passes /\ q.epoch = p.epoch /\ q.previous = p.previous /\ q.dir = p.dir + 1
        /\ OnePathPerName(q.found) /\ FoundBehind(q) /\ q.dir \in Dirs
    BY <1>6, <2>1, <2>2, DirectoryStep DEF SoundPass
  <2>4. q.dir <= Len(Layout) + 1
    BY <2>1, <2>3, PassTyped, Layouts
  <2> QED
    BY <1>6, <2>2, <2>3, <2>4 DEF SoundPass
<1>7. CASE (\E f \in Files : ScanFile(f)) /\ UNCHANGED <<epoch, superseded, touched>>
  <2>1. PICK f \in Files : ScanFile(f)
    BY <1>7
  <2>2. PICK p \in Passes : p = scan
    BY <1>2, <2>1 DEF ScanFile, Scanning
  <2>3. SoundPass(p, epoch, superseded, touched)
    BY <1>2, <2>2, PassTyped
  <2>4. /\ q \in Passes /\ q.epoch = p.epoch /\ q.previous = p.previous /\ q.dir = p.dir
        /\ OnePathPerName(q.found) /\ FoundBehind(q) /\ p.dir \in Dirs
    BY <2>1, <2>2, <2>3, FileStep DEF SoundPass, FileTaken
  <2> QED
    BY <1>7, <2>3, <2>4 DEF SoundPass
<1>8. CASE Publish /\ UNCHANGED <<epoch, superseded, touched>>
  <2>1. PICK p \in Passes : p = scan
    BY <1>2, <1>8 DEF Publish, Scanning
  <2>2. SoundPass(p, epoch, superseded, touched)
    BY <1>2, <2>1, PassTyped
  <2>3. /\ q \in Passes /\ q.epoch = p.epoch /\ q.previous = p.previous /\ q.dir = p.dir + 1
        /\ q.found = p.found /\ q.todo = {} /\ p.dir = Len(Layout) /\ FoundBehind(q)
    BY <1>8, <2>1, <2>2, PublishStep DEF SoundPass
  <2>4. q.dir <= Len(Layout) + 1
    BY <2>1, <2>3, Layouts
  <2> QED
    BY <1>8, <2>2, <2>3, <2>4 DEF SoundPass
<1>9. scan' # None
  OBVIOUS
<1> QED
  BY <1>3, <1>4, <1>5, <1>6, <1>7, <1>8, <1>9, LoopSteps

\* The counters, flags and refreshes that are owed.
Counters ==
  /\ disk \in [Files -> Contents]
  /\ events \in Nat /\ epoch \in Nat /\ edits \in 0..MaxEdits
  /\ queued \in {None, epoch}
  /\ Counted

Flags ==
  /\ discovered \in BOOLEAN /\ refreshQueued \in BOOLEAN /\ stopped \in BOOLEAN
  /\ superseded \in BOOLEAN /\ touched \in BOOLEAN /\ degraded \in BOOLEAN

Owed ==
  /\ watcher \in {"idle", "waiting", "resuming"}
  /\ RefreshesAreOwed

LEMMA CountersKept ==
  ASSUME Counters, Next
  PROVE  Counters'
<1> USE ConstantsAssumption DEF ConstantsAssumption, Counters, Counted
<1>1. ASSUME NEW n \in Names, Add(n)
      PROVE  Counters'
  BY <1>1 DEF Add, Edit, watcherVars
<1>2. ASSUME NEW n \in Names, Remove(n)
      PROVE  Counters'
  BY <1>2 DEF Remove, Edit, watcherVars
<1>3. ASSUME NEW n \in Names, Update(n)
      PROVE  Counters'
  BY <1>3 DEF Update, Edit, watcherVars
<1>4. ASSUME NEW given \in SUBSET Names, Replace(given)
      PROVE  Counters'
  BY <1>4 DEF Replace, Edit, NewEpoch, NewQueue, watcherVars
<1>5. CASE GetAll
  BY <1>5 DEF GetAll, watcherVars
<1>6. CASE CallRefresh
  BY <1>6 DEF CallRefresh, Edit, Refresh, Begin, Pass, catalogueVars, watcherVars
<1>7. CASE CallDiscover
  BY <1>7 DEF CallDiscover, Edit, Begin, Pass, catalogueVars, watcherVars
<1>8. CASE ScanDirectory
  BY <1>8 DEF ScanDirectory, Scanning, Scanned, catalogueVars, watcherVars
<1>9. ASSUME NEW f \in Files, ScanFile(f)
      PROVE  Counters'
  BY <1>9 DEF ScanFile, Scanning, Scanned, catalogueVars, watcherVars
<1>10. CASE Publish
  BY <1>10 DEF Publish, Scanning, watcherVars
<1>11. CASE Continue
  BY <1>11 DEF Continue, Follower, Begin, Pass, catalogueVars
<1>12. ASSUME NEW f \in Files, ChangeFile(f)
      PROVE  Counters'
  BY <1>12 DEF ChangeFile, Edit, catalogueVars, watcherVars
<1>13. CASE HandleEvent
  BY <1>13 DEF HandleEvent, Refresh, Begin, Pass, catalogueVars, watcherVars
<1>14. CASE DrainRefreshes
  BY <1>14 DEF DrainRefreshes, RefreshTaken, Refresh, Begin, Pass, catalogueVars
<1>15. CASE StopWatcher
  BY <1>15 DEF StopWatcher, catalogueVars
<1> QED
  BY <1>1, <1>2, <1>3, <1>4, <1>5, <1>6, <1>7, <1>8, <1>9, <1>10, <1>11, <1>12, <1>13, <1>14, <1>15
  DEF Next, Api, Scan

LEMMA FlagsKept ==
  ASSUME Flags, Next
  PROVE  Flags'
<1> USE DEF Flags
<1>1. ASSUME NEW n \in Names, Add(n)
      PROVE  Flags'
  BY <1>1 DEF Add, Edit, watcherVars
<1>2. ASSUME NEW n \in Names, Remove(n)
      PROVE  Flags'
  BY <1>2 DEF Remove, Edit, watcherVars
<1>3. ASSUME NEW n \in Names, Update(n)
      PROVE  Flags'
  BY <1>3 DEF Update, Edit, watcherVars
<1>4. ASSUME NEW given \in SUBSET Names, Replace(given)
      PROVE  Flags'
  BY <1>4 DEF Replace, Edit, NewEpoch, NewQueue, watcherVars
<1>5. CASE GetAll
  BY <1>5 DEF GetAll, watcherVars
<1>6. CASE CallRefresh
  BY <1>6 DEF CallRefresh, Edit, Refresh, Begin, Pass, catalogueVars, watcherVars
<1>7. CASE CallDiscover
  BY <1>7 DEF CallDiscover, Edit, Begin, Pass, catalogueVars, watcherVars
<1>8. CASE ScanDirectory
  BY <1>8 DEF ScanDirectory, Scanning, Scanned, catalogueVars, watcherVars
<1>9. ASSUME NEW f \in Files, ScanFile(f)
      PROVE  Flags'
  BY <1>9 DEF ScanFile, Scanning, Scanned, catalogueVars, watcherVars
<1>10. CASE Publish
  BY <1>10 DEF Publish, Scanning, watcherVars
<1>11. CASE Continue
  BY <1>11 DEF Continue, Follower, Begin, Pass, catalogueVars
<1>12. ASSUME NEW f \in Files, ChangeFile(f)
      PROVE  Flags'
  BY <1>12 DEF ChangeFile, Edit, catalogueVars, watcherVars
<1>13. CASE HandleEvent
  BY <1>13 DEF HandleEvent, Refresh, Begin, Pass, catalogueVars, watcherVars
<1>14. CASE DrainRefreshes
  BY <1>14 DEF DrainRefreshes, RefreshTaken, Refresh, Begin, Pass, catalogueVars
<1>15. CASE StopWatcher
  BY <1>15 DEF StopWatcher, catalogueVars
<1> QED
  BY <1>1, <1>2, <1>3, <1>4, <1>5, <1>6, <1>7, <1>8, <1>9, <1>10, <1>11, <1>12, <1>13, <1>14, <1>15
  DEF Next, Api, Scan

LEMMA StillScanning ==
  ASSUME TypeOK, PassIsSound, ScanDirectory \/ (\E f \in Files : ScanFile(f)) \/ Publish
  PROVE  scan' # None
<1>1. PICK p \in Passes : p = scan
  BY DEF TypeOK, ScanDirectory, ScanFile, Publish, Scanning
<1>2. /\ OnePathPerName(p.found) /\ OnePathPerName(p.previous) /\ FoundBehind(p)
      /\ p.todo # {} => p.dir \in Dirs
  BY <1>1, PassTyped DEF PassIsSound
<1>3. PICK q : q = scan'
  OBVIOUS
<1>4. q \in Passes
  <2>1. CASE ScanDirectory
    BY <1>1, <1>2, <1>3, <2>1, DirectoryStep
  <2>2. CASE \E f \in Files : ScanFile(f)
    <3>1. PICK f \in Files : ScanFile(f)
      BY <2>2
    <3> QED
      BY <1>1, <1>2, <1>3, <3>1, FileStep DEF FileTaken
  <2>3. CASE Publish
    BY <1>1, <1>2, <1>3, <2>3, PublishStep
  <2> QED
    BY <2>1, <2>2, <2>3
<1> QED
  BY <1>3, <1>4, PassTyped

LEMMA OwedKept ==
  ASSUME Owed, TypeOK, PassIsSound, Next
  PROVE  Owed'
<1> USE ConstantsAssumption DEF ConstantsAssumption, Owed, RefreshesAreOwed
<1>1. ASSUME NEW n \in Names, Add(n)
      PROVE  Owed'
  BY <1>1 DEF Add, Edit, watcherVars
<1>2. ASSUME NEW n \in Names, Remove(n)
      PROVE  Owed'
  BY <1>2 DEF Remove, Edit, watcherVars
<1>3. ASSUME NEW n \in Names, Update(n)
      PROVE  Owed'
  BY <1>3 DEF Update, Edit, watcherVars
<1>4. ASSUME NEW given \in SUBSET Names, Replace(given)
      PROVE  Owed'
  BY <1>4 DEF Replace, Edit, NewEpoch, NewQueue, watcherVars
<1>5. CASE GetAll
  BY <1>5 DEF GetAll, watcherVars
<1>6. CASE CallRefresh
  BY <1>6 DEF CallRefresh, Edit, Refresh, Begin, Pass, catalogueVars, watcherVars
<1>7. CASE CallDiscover
  BY <1>7 DEF CallDiscover, Edit, Begin, Pass, catalogueVars, watcherVars
<1>8. CASE ScanDirectory
  BY <1>8, StillScanning DEF ScanDirectory, Scanned, catalogueVars, watcherVars
<1>9. ASSUME NEW f \in Files, ScanFile(f)
      PROVE  Owed'
  <2>1. scan' # None
    BY <1>9, StillScanning
  <2> QED
    BY <1>9, <2>1 DEF ScanFile, Scanned, catalogueVars, watcherVars
<1>10. CASE Publish
  BY <1>10, StillScanning DEF Publish, watcherVars
<1>11. CASE Continue
  BY <1>11 DEF Continue, Follower, Begin, Pass, catalogueVars
<1>12. ASSUME NEW f \in Files, ChangeFile(f)
      PROVE  Owed'
  BY <1>12 DEF ChangeFile, Edit, catalogueVars, watcherVars
<1>13. CASE HandleEvent
  BY <1>13 DEF HandleEvent, Refresh, Begin, Pass, catalogueVars, watcherVars
<1>14. CASE DrainRefreshes
  BY <1>14 DEF DrainRefreshes, RefreshTaken, Refresh, Begin, Pass, catalogueVars
<1>15. CASE StopWatcher
  BY <1>15 DEF StopWatcher, catalogueVars
<1> QED
  BY <1>1, <1>2, <1>3, <1>4, <1>5, <1>6, <1>7, <1>8, <1>9, <1>10, <1>11, <1>12, <1>13, <1>14, <1>15
  DEF Next, Api, Scan

\* The invariant without what relates the items to the files.
Sound ==
  /\ TypeOK
  /\ Counted
  /\ ViewsAgree
  /\ PassIsSound
  /\ RefreshesAreOwed

LEMMA SoundKept == Sound /\ [Next]_vars => Sound'
<1> SUFFICES ASSUME Sound, [Next]_vars
             PROVE  Sound'
  OBVIOUS
<1>1. CASE UNCHANGED vars
  BY <1>1 DEF vars, catalogueVars, watcherVars, Sound, TypeOK, Counted, ViewsAgree, Visible, CountOf,
              PassIsSound, RefreshesAreOwed
<1>2. CASE Next
  <2>1. Sources' /\ ViewsAgree'
    BY <1>2, ViewsKept DEF Sound
  <2>2. Counters' /\ Flags' /\ Owed'
    BY <1>2, CountersKept, FlagsKept, OwedKept DEF Sound, TypeOK, Counters, Flags, Owed
  <2>3. items' \in Views /\ discoveredCount' \in 0..Cardinality(Files) /\ cache' \in Views \cup {None}
    BY <2>1, ItemsTyped DEF Sources, ViewsAgree, OnePathPerName
  <2>4. ASSUME NEW q, q = scan', q # None
        PROVE  q \in Passes /\ SoundPass(q, epoch', superseded', touched')
    BY <1>2, <2>4, PassKept DEF Sound
  <2>5. PassIsSound'
    BY <2>4 DEF PassIsSound, SoundPass
  <2>6. TypeOK'
    <3>1. events' \in 0..MaxEdits /\ epoch' \in 0..MaxEdits
      BY <2>2, ConstantsAssumption DEF ConstantsAssumption, Counters, Counted
    <3>2. /\ scan' \in Passes \cup {None}
          /\ scan' # None => (scan').epoch <= epoch' /\ (scan').dir <= Len(Layout) + 1
      BY <2>4 DEF SoundPass
    <3> QED
      BY <2>1, <2>2, <2>3, <3>1, <3>2 DEF TypeOK, Sources, Counters, Flags, Owed
  <2> QED
    BY <2>1, <2>2, <2>5, <2>6 DEF Sound, Counters, Owed
<1> QED
  BY <1>1, <1>2

-----------------------------------------------------------------------------
(* A pass that nothing disturbs finds what the files say.                    *)

LEMMA ReadNothing ==
  ASSUME NEW p, p = Pass(epoch), NEW files
  PROVE  ReadAsIs(p, files)
<1>1. p.dir = 0 /\ p.todo = {} /\ p.found = NoFiles
  BY DEF Pass
<1>2. \A f \in Files : p.found[f] = None
  BY <1>1 DEF NoFiles
<1>3. ASSUME NEW d \in Dirs, NEW i \in Places(d)
      PROVE  ~Done(p, d, i)
  <2>1. d \in Nat \ {0}
    BY Layouts
  <2> QED
    BY <1>1, <2>1 DEF Done
<1> QED
  BY <1>1, <1>2, <1>3 DEF ReadAsIs

LEMMA ReadDirectory ==
  ASSUME NEW p \in Passes, NEW q \in Passes, NEW files, ReadAsIs(p, files), p.todo = {},
         q.previous = p.previous, q.dir = p.dir + 1, q.dir \in Dirs, q.found = p.found,
         q.todo = {f \in FilesOf(q.dir) : files[f] # "absent"}
  PROVE  ReadAsIs(q, files)
<1>1. ASSUME NEW d \in Dirs, NEW i \in Places(d), files[Layout[d][i]] \in Names, Done(q, d, i)
      PROVE  \E f \in UpTo(d, i) : q.found[f] # None /\ q.found[f][1] = files[Layout[d][i]]
  <2>1. d \in Nat /\ p.dir \in Nat
    BY PassTyped, Layouts
  <2>2. d < q.dir
    <3>1. ASSUME d = q.dir
          PROVE  FALSE
      <4>1. Layout[d][i] \in FilesOf(q.dir)
        BY <3>1 DEF FilesOf
      <4>2. files[Layout[d][i]] # "absent"
        BY <1>1, ConstantsAssumption DEF ConstantsAssumption
      <4>3. Layout[d][i] \notin q.todo
        BY <1>1, <2>1, <3>1 DEF Done
      <4> QED
        BY <4>1, <4>2, <4>3
    <3> QED
      BY <1>1, <3>1 DEF Done
  <2>3. d < p.dir \/ d = p.dir
    BY <2>1, <2>2
  <2>4. Done(p, d, i)
    BY <2>3 DEF Done
  <2> QED
    BY <1>1, <2>4 DEF ReadAsIs
<1> QED
  BY <1>1 DEF ReadAsIs

LEMMA ReadFile ==
  ASSUME NEW p \in Passes, FoundBehind(p), NEW q \in Passes, NEW files, ReadAsIs(p, files),
         q.previous = p.previous, q.dir = p.dir, p.dir \in Dirs,
         NEW f \in Files, f \in p.todo, q.todo = p.todo \ {f},
         \E i \in Places(p.dir) : Layout[p.dir][i] = f /\ \A j \in 1..i-1 : Layout[p.dir][j] \notin p.todo,
         NEW entry, q.found = Claim(p.found, f, entry),
         \/ files[f] \in Names /\ entry = <<files[f], "read">>
         \/ files[f] = "plain" /\ entry = None
         \/ files[f] \in {"invalid", "absent"} /\ entry = p.previous[f]
  PROVE  ReadAsIs(q, files)
<1>1. p.found \in Paths /\ q.found \in Paths /\ p.previous \in Paths /\ p.dir \in Nat
  BY PassTyped
<1>2. files[f] # "absent"
  BY DEF ReadAsIs
<1>3. files[f] \in Names => files[f] # "invalid" /\ files[f] # "plain"
  BY ConstantsAssumption DEF ConstantsAssumption
<1>4. \/ q.found = p.found /\ (entry # None => entry[1] \in NamesIn(p.found))
      \/ /\ entry # None /\ q.found[f] = entry /\ entry[1] \notin NamesIn(p.found)
         /\ \A g \in Files : g # f => q.found[g] = p.found[g]
  BY <1>1 DEF Claim, Paths
<1>5. q.found # p.found => p.found[f] = None
  <2> SUFFICES ASSUME q.found # p.found, p.found[f] # None
               PROVE  FALSE
    OBVIOUS
  <2>1. entry # None /\ entry[1] \notin NamesIn(p.found)
    BY <1>4
  <2>2. p.found[f][1] \in NamesIn(p.found) /\ p.found[f][1] \in Names
    BY <1>1, PathsTyped DEF NamesIn
  <2>3. \/ p.found[f] = <<files[f], "read">>
        \/ files[f] = "invalid" /\ p.found[f] = p.previous[f]
    BY DEF ReadAsIs
  <2>4. CASE p.found[f] = <<files[f], "read">>
    BY <1>3, <2>1, <2>2, <2>4, <1>2, ConstantsAssumption DEF ConstantsAssumption
  <2>5. CASE files[f] = "invalid" /\ p.found[f] = p.previous[f]
    BY <1>3, <2>1, <2>2, <2>5
  <2> QED
    BY <2>3, <2>4, <2>5
<1>6. ASSUME NEW g \in Files, p.found[g] # None
      PROVE  q.found[g] = p.found[g]
  BY <1>4, <1>5, <1>6
<1>7. ASSUME NEW g \in Files, q.found[g] # None
      PROVE  \/ q.found[g] = <<files[g], "read">>
             \/ files[g] = "invalid" /\ q.found[g] = q.previous[g]
  <2>1. CASE q.found[g] = p.found[g]
    BY <1>7, <2>1 DEF ReadAsIs
  <2>2. CASE q.found[g] # p.found[g]
    BY <1>2, <1>4, <2>2
  <2> QED
    BY <2>1, <2>2
<1>8. ASSUME NEW d \in Dirs, NEW i \in Places(d), files[Layout[d][i]] \in Names, Done(q, d, i)
      PROVE  \E g \in UpTo(d, i) : q.found[g] # None /\ q.found[g][1] = files[Layout[d][i]]
  <2>1. CASE Done(p, d, i)
    <3>1. PICK g \in UpTo(d, i) : p.found[g] # None /\ p.found[g][1] = files[Layout[d][i]]
      BY <1>8, <2>1 DEF ReadAsIs
    <3>2. g \in Files
      BY PlacesUpTo
    <3> QED
      BY <1>6, <3>1, <3>2
  <2>2. CASE ~Done(p, d, i)
    <3>1. d = p.dir /\ Layout[d][i] = f
      BY <1>8, <2>2 DEF Done
    <3>2. entry = <<files[f], "read">> /\ entry # None
      BY <1>3, <1>8, <3>1, ConstantsAssumption DEF ConstantsAssumption, Found
    <3>3. CASE q.found[f] = entry
      <4>1. f \in UpTo(d, i)
        BY <3>1, PlacesUpTo
      <4> QED
        BY <3>1, <3>2, <3>3, <4>1
    <3>4. CASE q.found[f] # entry
      <4>1. q.found = p.found /\ files[f] \in NamesIn(p.found)
        BY <1>4, <3>2, <3>4
      <4>2. PICK g \in Files : p.found[g] # None /\ p.found[g][1] = files[f]
        BY <4>1 DEF NamesIn
      <4>3. i \in Places(p.dir) /\ Layout[p.dir][i] \in p.todo
        BY <3>1
      <4>4. g \in UpTo(p.dir, i)
        BY <4>2, <4>3, FoundUpTo
      <4> QED
        BY <3>1, <4>1, <4>2, <4>4
    <3> QED
      BY <3>3, <3>4
  <2> QED
    BY <2>1, <2>2
<1>9. \A g \in q.todo : files[g] # "absent"
  BY DEF ReadAsIs
<1> QED
  BY <1>7, <1>8, <1>9 DEF ReadAsIs

\* What a step that leaves nothing pending may do: begin a pass; make one void; leave passes and
\* files alone, and the items too unless they are now touched; go on with a pass; or end the loop.
Voids == epoch' = epoch + 1 /\ touched' = TRUE /\ UNCHANGED scan

Idles ==
  /\ UNCHANGED <<disk, scan, epoch>>
  /\ touched' = TRUE \/ UNCHANGED <<byPath, discovered, touched, degraded>>

Goes ==
  /\ ScanDirectory \/ (\E f \in Files : ScanFile(f)) \/ Publish
  /\ UNCHANGED <<disk, epoch, touched>>

Ends == scan' = None /\ ~Scanning /\ UNCHANGED <<disk, byPath, discovered, touched, degraded>>

LEMMA QuietSteps ==
  ASSUME Sound, Next, ~stopped', ~(events' > 0 \/ refreshQueued' \/ queued' # None)
  PROVE  \/ Begin(epoch) /\ UNCHANGED epoch
         \/ Voids
         \/ ~stopped /\ ~Pending /\ (Idles \/ Goes \/ Ends)
<1>1. /\ epoch \in Nat /\ events \in Nat /\ queued \in {None, epoch} /\ epoch # None
      /\ touched \in BOOLEAN /\ stopped \in BOOLEAN /\ refreshQueued \in BOOLEAN
  BY ConstantsAssumption DEF ConstantsAssumption, Sound, TypeOK
<1> USE <1>1
<1>2. ASSUME UNCHANGED <<events, refreshQueued, queued, stopped>>
      PROVE  ~stopped /\ ~Pending
  BY <1>2 DEF Pending
<1>3. ASSUME NEW n \in Names, Add(n)
      PROVE  ~stopped /\ ~Pending /\ Idles
  BY <1>2, <1>3 DEF Add, Idles, watcherVars
<1>4. ASSUME NEW n \in Names, Remove(n)
      PROVE  ~stopped /\ ~Pending /\ Idles
  BY <1>2, <1>4 DEF Remove, Idles, watcherVars
<1>5. ASSUME NEW n \in Names, Update(n)
      PROVE  ~stopped /\ ~Pending /\ Idles
  BY <1>2, <1>5 DEF Update, Idles, watcherVars
<1>6. ASSUME NEW given \in SUBSET Names, Replace(given)
      PROVE  Voids
  BY <1>6 DEF Replace, NewEpoch, Voids
<1>7. CASE GetAll
  BY <1>2, <1>7 DEF GetAll, Idles, watcherVars
<1>8. CASE CallRefresh
  BY <1>8 DEF CallRefresh, Refresh
<1>9. CASE CallDiscover
  BY <1>2, <1>9 DEF CallDiscover, Idles, catalogueVars, watcherVars
<1>10. CASE Goes
  BY <1>2, <1>10 DEF Goes, ScanDirectory, ScanFile, Publish, Scanned, watcherVars
<1>11. CASE ScanDirectory \/ (\E f \in Files : ScanFile(f)) \/ Publish
  BY <1>10, <1>11 DEF Goes, ScanDirectory, ScanFile, Publish, Scanned
<1>12. CASE Continue
  BY <1>12 DEF Continue, Follower, Ends, Pending, catalogueVars
<1>13. ASSUME NEW f \in Files, ChangeFile(f)
      PROVE  FALSE
  BY <1>13 DEF ChangeFile
<1>14. CASE HandleEvent
  BY <1>14 DEF HandleEvent, Refresh, watcherVars
<1>15. CASE DrainRefreshes
  BY <1>2, <1>15 DEF DrainRefreshes, Refresh, Idles, catalogueVars
<1>16. CASE StopWatcher
  BY <1>16 DEF StopWatcher
<1> QED
  BY <1>3, <1>4, <1>5, <1>6, <1>7, <1>8, <1>9, <1>11, <1>12, <1>13, <1>14, <1>15, <1>16
  DEF Next, Api, Scan

LEMMA PassReadsKept ==
  ASSUME Sound, PassReadsAsIs, Next, NEW q, q = scan', q # None, NEW files, files = disk',
         q.dir \in 0..Len(Layout), q.epoch = epoch', q.clean, ~stopped',
         ~(events' > 0 \/ refreshQueued' \/ queued' # None)
  PROVE  ReadAsIs(q, files)
<1>1. epoch \in Nat /\ q \in Passes
  BY PassKept DEF Sound, TypeOK
<1>2. CASE Begin(epoch)
  BY <1>2, ReadNothing DEF Begin
<1>3. CASE Voids
  <2>1. q = scan /\ q.epoch <= epoch
    BY <1>3 DEF Voids, Sound, TypeOK
  <2> QED
    BY <1>1, <1>3, <2>1, PassTyped DEF Voids
<1>4. CASE ~stopped /\ ~Pending /\ Idles
  <2>1. q = scan /\ files = disk /\ epoch' = epoch
    BY <1>4 DEF Idles
  <2>2. Scanning /\ scan.epoch = epoch /\ scan.clean
    BY <2>1 DEF Scanning
  <2> QED
    BY <1>4, <2>1, <2>2 DEF PassReadsAsIs
<1>5. CASE ~stopped /\ ~Pending /\ Goes
  <2>1. PICK p \in Passes : p = scan
    BY <1>5 DEF Goes, ScanDirectory, ScanFile, Publish, Scanning, Sound, TypeOK
  <2>2. /\ OnePathPerName(p.found) /\ OnePathPerName(p.previous) /\ FoundBehind(p)
        /\ p.todo # {} => p.dir \in Dirs
    BY <2>1, PassTyped DEF Sound, PassIsSound
  <2>3. files = disk /\ epoch' = epoch
    BY <1>5 DEF Goes
  <2>4. ASSUME p.epoch = epoch, p.clean
        PROVE  ReadAsIs(p, files)
    BY <1>5, <2>1, <2>3, <2>4 DEF Goes, ScanDirectory, ScanFile, Publish, PassReadsAsIs
  <2>5. CASE ScanDirectory
    <3>1. /\ p.todo = {}
          /\ q.epoch = p.epoch /\ q.previous = p.previous /\ q.dir = p.dir + 1 /\ q.dir \in Dirs
          /\ q.clean => p.clean /\ q.found = p.found /\ q.todo = {f \in FilesOf(q.dir) : disk[f] # "absent"}
      BY <2>1, <2>2, <2>5, DirectoryStep
    <3>2. ReadAsIs(p, files) /\ q.found = p.found /\ q.todo = {f \in FilesOf(q.dir) : files[f] # "absent"}
      BY <2>3, <2>4, <3>1
    <3> QED
      BY <1>1, <2>1, <3>1, <3>2, ReadDirectory
  <2>6. CASE \E f \in Files : ScanFile(f)
    <3>1. PICK f \in Files : ScanFile(f)
      BY <2>6
    <3>2. FileTaken(p, q, f)
      BY <2>1, <2>2, <3>1, FileStep
    <3>3. /\ p.clean
          /\ \/ disk[f] \in Names /\ q.found = Claim(p.found, f, <<disk[f], "read">>)
             \/ disk[f] = "plain" /\ q.found = Claim(p.found, f, None)
             \/ disk[f] \in {"invalid", "absent"} /\ q.found = Claim(p.found, f, p.previous[f])
      BY <3>2 DEF FileTaken
    <3>4. PICK entry : /\ q.found = Claim(p.found, f, entry)
                       /\ \/ files[f] \in Names /\ entry = <<files[f], "read">>
                          \/ files[f] = "plain" /\ entry = None
                          \/ files[f] \in {"invalid", "absent"} /\ entry = p.previous[f]
      BY <2>3, <3>3
    <3>5. ReadAsIs(p, files)
      BY <2>3, <2>4, <3>2, <3>3 DEF FileTaken
    <3>6. /\ q.previous = p.previous /\ q.dir = p.dir /\ p.dir \in Dirs
          /\ f \in p.todo /\ q.todo = p.todo \ {f}
          /\ \E i \in Places(p.dir) :
                Layout[p.dir][i] = f /\ \A j \in 1..i-1 : Layout[p.dir][j] \notin p.todo
      BY <3>2 DEF FileTaken
    <3> QED
      BY <1>1, <2>1, <2>2, <3>4, <3>5, <3>6, ReadFile
  <2>7. CASE Publish
    <3>1. q.dir = p.dir + 1 /\ p.dir = Len(Layout)
      BY <2>1, <2>2, <2>7, PublishStep
    <3> QED
      BY <3>1, Layouts
  <2> QED
    BY <1>5, <2>5, <2>6, <2>7 DEF Goes
<1>6. CASE Ends
  BY <1>6 DEF Ends
<1> QED
  BY <1>2, <1>3, <1>4, <1>5, <1>6, QuietSteps

\* A pass that read the files as they are shows them when it is published.
LEMMA PublishedAsRead ==
  ASSUME NEW p \in Passes, p.dir = Len(Layout), p.todo = {}, ReadAsIs(p, disk)
  PROVE  /\ \A f \in Files : p.found[f] # None => disk[f] \in {p.found[f][1], "invalid"}
         /\ \A d \in Dirs : \A i \in Places(d) :
               disk[Layout[d][i]] \in Names =>
                   \E f \in UpTo(d, i) : p.found[f] # None /\ p.found[f][1] = disk[Layout[d][i]]
<1>1. ASSUME NEW f \in Files, p.found[f] # None
      PROVE  disk[f] \in {p.found[f][1], "invalid"}
  <2>1. CASE p.found[f] = <<disk[f], "read">>
    BY <2>1
  <2>2. CASE disk[f] = "invalid"
    BY <2>2
  <2> QED
    BY <1>1, <2>1, <2>2 DEF ReadAsIs
<1>2. ASSUME NEW d \in Dirs, NEW i \in Places(d)
      PROVE  Done(p, d, i)
  <2>1. d <= Len(Layout) /\ d \in Nat /\ Len(Layout) \in Nat
    BY Layouts DEF Dirs
  <2>2. d < p.dir \/ d = p.dir
    BY <2>1
  <2> QED
    BY <2>2 DEF Done
<1> QED
  BY <1>1, <1>2 DEF ReadAsIs

LEMMA ShownKept ==
  ASSUME Sound, PassReadsAsIs, CatalogueShowsFiles, Next,
         discovered', ~touched', ~degraded', ~Scanning', ~stopped',
         ~(events' > 0 \/ refreshQueued' \/ queued' # None)
  PROVE  ShowsFiles'
<1>1. CASE Begin(epoch)
  <2>1. (scan').dir = 0 /\ 0 \in 0..Len(Layout)
    BY <1>1, Layouts DEF Begin, Pass
  <2>2. scan' # None
    <3>1. PICK q : q = Pass(epoch)
      OBVIOUS
    <3>2. epoch \in Nat /\ byPath \in Paths /\ OnePathPerName(byPath)
      BY ConstantsAssumption DEF ConstantsAssumption, Sound, TypeOK, ViewsAgree, OnePathPerName
    <3>3. q \in Passes
      BY <3>1, <3>2, FreshPass
    <3> QED
      BY <1>1, <3>1, <3>3, PassTyped DEF Begin
  <2> QED
    BY <2>1, <2>2 DEF Scanning
<1>2. CASE Voids
  BY <1>2 DEF Voids
<1>3. CASE ~stopped /\ ~Pending /\ (Idles \/ Ends)
  <2>1. UNCHANGED <<disk, byPath>> /\ discovered /\ ~touched /\ ~degraded
    <3>1. CASE Idles
      <4>1. touched' # TRUE
        OBVIOUS
      <4>2. disk' = disk /\ byPath' = byPath /\ discovered' = discovered /\ touched' = touched /\ degraded' = degraded
        BY <3>1, <4>1 DEF Idles
      <4> QED
        BY <4>2
    <3>2. CASE Ends
      BY <3>2 DEF Ends
    <3> QED
      BY <1>3, <3>1, <3>2
  <2>2. ~Scanning
    BY <1>3 DEF Idles, Ends, Scanning
  <2>3. ShowsFiles
    BY <1>3, <2>1, <2>2 DEF CatalogueShowsFiles
  <2> QED
    BY <2>1, <2>3 DEF ShowsFiles
<1>4. CASE ~stopped /\ ~Pending /\ Goes
  <2>1. PICK p \in Passes : p = scan
    BY <1>4 DEF Goes, ScanDirectory, ScanFile, Publish, Scanning, Sound, TypeOK
  <2>2. /\ OnePathPerName(p.found) /\ OnePathPerName(p.previous) /\ FoundBehind(p)
        /\ p.todo # {} => p.dir \in Dirs
        /\ p.epoch # epoch => touched
    BY <2>1, PassTyped DEF Sound, PassIsSound
  <2>3. scan' # None /\ p.dir \in Nat /\ Len(Layout) \in Nat
    BY <1>4, <2>1, StillScanning, PassTyped, Layouts DEF Goes, Sound
  <2>4. PICK q : q = scan'
    OBVIOUS
  <2>5. CASE ScanDirectory
    <3>1. q.dir = p.dir + 1 /\ p.dir < Len(Layout)
      BY <2>1, <2>2, <2>4, <2>5, DirectoryStep
    <3> QED
      BY <2>3, <2>4, <3>1 DEF Scanning
  <2>6. CASE \E f \in Files : ScanFile(f)
    <3>1. PICK f \in Files : ScanFile(f)
      BY <2>6
    <3>2. q.dir = p.dir /\ p.dir \in 0..Len(Layout)
      BY <2>1, <2>2, <2>4, <3>1, FileStep DEF FileTaken, ScanFile, Scanning
    <3> QED
      BY <2>3, <2>4, <3>2 DEF Scanning
  <2>7. CASE Publish
    <3>1. p.epoch = epoch
      BY <1>4, <2>2 DEF Goes
    <3>2. /\ byPath' = p.found /\ p.clean /\ disk' = disk
          /\ p.dir = Len(Layout) /\ p.todo = {} /\ Scanning
      BY <1>4, <2>1, <2>7, <3>1 DEF Goes, Publish
    <3>3. ReadAsIs(p, disk)
      BY <1>4, <2>1, <3>1, <3>2 DEF PassReadsAsIs
    <3>4. /\ \A f \in Files : p.found[f] # None => disk[f] \in {p.found[f][1], "invalid"}
          /\ \A d \in Dirs : \A i \in Places(d) :
                disk[Layout[d][i]] \in Names =>
                    \E f \in UpTo(d, i) : p.found[f] # None /\ p.found[f][1] = disk[Layout[d][i]]
      BY <3>2, <3>3, PublishedAsRead
    <3> QED
      BY <3>2, <3>4 DEF ShowsFiles
  <2> QED
    BY <1>4, <2>5, <2>6, <2>7 DEF Goes
<1> QED
  BY <1>1, <1>2, <1>3, <1>4, QuietSteps

-----------------------------------------------------------------------------
(* The theorems.                                                             *)

\* Initially nothing is found, nothing is pending and no pass runs.
LEMMA InvInit == Init => IInv
<1> SUFFICES ASSUME Init
             PROVE  IInv
  OBVIOUS
<1> USE ConstantsAssumption DEF ConstantsAssumption, Init
<1>1. manual \in Views /\ byPath \in Paths /\ items = Visible(manual, byPath)
  BY NoFilesTyped DEF NoNames, Views, Visible
<1>2. CountOf(manual, byPath) = 0
  <2>1. {n \in NamesIn(byPath) : manual[n] = None} = {}
    BY NoFilesTyped
  <2> QED
    BY <2>1, FS_EmptySet DEF CountOf
<1>3. ViewsAgree
  BY <1>1, <1>2, NoFilesTyped DEF ViewsAgree, OnePathPerName
<1>4. items \in Views /\ discoveredCount \in 0..Cardinality(Files) /\ cache \in Views \cup {None}
  BY <1>1, <1>2, NoFilesTyped, ItemsTyped
<1>5. TypeOK
  <2>1. events \in 0..MaxEdits /\ edits \in 0..MaxEdits /\ epoch \in 0..MaxEdits
    OBVIOUS
  <2>2. /\ discovered \in BOOLEAN /\ refreshQueued \in BOOLEAN /\ stopped \in BOOLEAN
        /\ superseded \in BOOLEAN /\ touched \in BOOLEAN /\ degraded \in BOOLEAN
    OBVIOUS
  <2>3. disk \in [Files -> Contents] /\ queued \in {None, epoch} /\ scan = None
        /\ watcher \in {"idle", "waiting", "resuming"}
    OBVIOUS
  <2> QED
    BY <1>1, <1>4, <2>1, <2>2, <2>3 DEF TypeOK
<1>6. Counted /\ PassIsSound /\ PassReadsAsIs /\ RefreshesAreOwed /\ CatalogueShowsFiles
  BY DEF Counted, PassIsSound, PassReadsAsIs, Scanning, RefreshesAreOwed, CatalogueShowsFiles
<1> QED
  BY <1>3, <1>5, <1>6 DEF IInv

LEMMA InvNext == IInv /\ [Next]_vars => IInv'
<1> SUFFICES ASSUME IInv, [Next]_vars
             PROVE  IInv'
  OBVIOUS
<1>1. Sound /\ Sound'
  BY SoundKept DEF IInv, Sound
<1>2. CASE UNCHANGED vars
  <2>1. PassReadsAsIs'
    BY <1>2 DEF IInv, vars, catalogueVars, watcherVars, PassReadsAsIs, Pending, Scanning, ReadAsIs, Done
  <2>2. CatalogueShowsFiles'
    BY <1>2 DEF IInv, vars, catalogueVars, watcherVars, CatalogueShowsFiles, Pending, Scanning, ShowsFiles
  <2> QED
    BY <1>1, <2>1, <2>2 DEF IInv, Sound
<1>3. CASE Next
  <2>1. PassReadsAsIs'
    <3> SUFFICES ASSUME (Scanning /\ scan.epoch = epoch /\ scan.clean /\ ~stopped /\ ~Pending)'
                 PROVE  ReadAsIs(scan, disk)'
      BY DEF PassReadsAsIs
    <3>1. PICK q, files : q = scan' /\ files = disk'
      OBVIOUS
    <3>2. ReadAsIs(q, files)
      BY <1>1, <1>3, <3>1, PassReadsKept DEF Scanning, Pending, IInv
    <3> QED
      BY <3>1, <3>2 DEF ReadAsIs, Done
  <2>2. CatalogueShowsFiles'
    BY <1>1, <1>3, ShownKept DEF CatalogueShowsFiles, Pending, IInv
  <2> QED
    BY <1>1, <2>1, <2>2 DEF IInv, Sound
<1> QED
  BY <1>2, <1>3

\* The inductive invariant holds in every reachable state (BaseRegistry, SkillWatcher and
\* ToolWatcher), for any directories, files, names and number of edits.
THEOREM Invariance == Spec => []IInv
BY InvInit, InvNext, PTL DEF Spec

\* Every variable keeps its type.
THEOREM TypeCorrect == Spec => []TypeOK
<1>1. IInv => TypeOK
  BY DEF IInv
<1> QED
  BY <1>1, Invariance, PTL

\* get(), has(), size() and getAll() show the same items, each name from one source, and a registry
\* whose events, refreshes and passes are over shows its files (BaseRegistry._publishDiscovery).
THEOREM CatalogueCurrent == Spec => []CatalogueIsCurrent
<1>1. IInv => CatalogueIsCurrent
  BY DEF IInv, CatalogueIsCurrent, QuietRegistryIsCurrent, Quiet, CatalogueShowsFiles, Pending, Scanning,
         RefreshesAreOwed, TypeOK
<1> QED
  BY <1>1, Invariance, PTL

\* What a pass had found before clear() or setAll() is not published after it
\* (BaseRegistry._beginReplacement, _publishDiscovery).
THEOREM ReplacementsAreFinal == Spec => ReplacementIsFinal
<1>1. IInv /\ [Next]_vars => [superseded => \A f \in Files : byPath'[f] # None => byPath[f] # None]_vars
  <2> SUFFICES ASSUME IInv, Next, superseded, NEW f \in Files, byPath'[f] # None
               PROVE  byPath[f] # None
    OBVIOUS
  <2>1. CASE byPath' = byPath
    BY <2>1
  <2>2. CASE \E n \in Names : Add(n) \/ Remove(n) \/ Update(n)
    BY <2>2 DEF Add, Remove, Update
  <2>3. CASE \E given \in SUBSET Names : Replace(given)
    BY <2>3 DEF Replace, NoFiles
  <2>4. CASE Publish
    BY <2>1, <2>4 DEF Publish, Scanning, IInv, PassIsSound
  <2>5. CASE GetAll \/ CallRefresh \/ CallDiscover
    BY <2>1, <2>5 DEF GetAll, CallRefresh, CallDiscover, catalogueVars
  <2>6. CASE Scan
    BY <2>1, <2>4, <2>6 DEF Scan, ScanDirectory, ScanFile, Scanned, Continue, catalogueVars
  <2>7. CASE (\E g \in Files : ChangeFile(g)) \/ HandleEvent \/ DrainRefreshes \/ StopWatcher
    BY <2>1, <2>7 DEF ChangeFile, HandleEvent, DrainRefreshes, StopWatcher, catalogueVars
  <2> QED
    BY <2>2, <2>3, <2>5, <2>6, <2>7 DEF Next, Api
<1> QED
  BY <1>1, Invariance, PTL DEF Spec, ReplacementIsFinal
=============================================================================
