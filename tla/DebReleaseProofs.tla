--------------------------- MODULE DebReleaseProofs --------------------------
(***************************************************************************)
(* Proofs about the release scripts, for every set of names, of versions   *)
(* and of input trees and any number of builds: the tables keep their      *)
(* shape and their ages, the scripts implement the store of packages, and  *)
(* no store ever loses one.                                                *)
(***************************************************************************)
EXTENDS DebRelease, FiniteSetTheorems, TLAPS

LEMMA InitType == Init => ReleaseTypeOK
  BY ReleaseAssumption DEF Init, ReleaseTypeOK, NoFile, NoBuild, Files, Builds, Candidates

\* A step of a build that only moves the build on keeps the tables.
LEMMA StartBuildType ==
  ASSUME ReleaseTypeOK, NEW n \in Names, NEW tree \in Trees, StartBuild(n, tree)
  PROVE  ReleaseTypeOK'
  BY ReleaseAssumption
  DEF ReleaseTypeOK, StartBuild, NameIsFree, NoFile, NoBuild, Files, Builds, Candidates

LEMMA StagingType ==
  ASSUME ReleaseTypeOK, CopyTree \/ SignApp \/ RecordFiles
  PROVE  ReleaseTypeOK'
<1>1. build \in Builds /\ build.pc \in {"copy", "app", "record"}
  BY DEF ReleaseTypeOK, CopyTree, SignApp, RecordFiles, NoBuild
<1>2. /\ build' \in Builds
      /\ build'.pc \in {"app", "record", "write"}
      /\ build'.name = build.name
  <2>1. CASE CopyTree BY <2>1, <1>1 DEF CopyTree, Builds
  <2>2. CASE SignApp BY <2>2, <1>1 DEF SignApp, Builds
  <2>3. CASE RecordFiles BY <2>3, <1>1 DEF RecordFiles, TrustOf, Builds
  <2> QED BY <2>1, <2>2, <2>3
<1>3. UNCHANGED <<dist, archive, old, clock, builds>>
  BY DEF CopyTree, SignApp, RecordFiles
<1>4. old = {} /\ dist[build.name] = NoFile
  BY <1>1 DEF ReleaseTypeOK, NoBuild
<1> QED BY <1>1, <1>2, <1>3, <1>4 DEF ReleaseTypeOK, NoBuild, Candidates

LEMMA BeginWriteType ==
  ASSUME ReleaseTypeOK, BeginWrite
  PROVE  ReleaseTypeOK'
<1>1. build \in Builds /\ old = {} /\ dist[build.name] = NoFile
  BY DEF ReleaseTypeOK, BeginWrite, NoBuild, Builds
<1>2. File("torn") \in Files /\ File("torn").name = build.name
      /\ File("torn").built = clock + 1 /\ File("torn").st = "torn"
  BY <1>1 DEF ReleaseTypeOK, BeginWrite, File, Files, Builds
<1>3. /\ dist' = [dist EXCEPT ![build.name] = File("torn")]
      /\ clock' = clock + 1 /\ UNCHANGED <<archive, old, builds>>
      /\ build' \in Builds /\ build'.pc = "writing" /\ build'.name = build.name
  BY <1>1 DEF BeginWrite, Builds
<1>4. build.name \in Names
  BY <1>1 DEF Builds
<1>5. /\ dist' \in [Names -> Files \cup {NoFile}]
      /\ dist'[build.name] = File("torn")
      /\ \A n \in Names : n # build.name => dist'[n] = dist[n]
  BY <1>2, <1>3, <1>4 DEF ReleaseTypeOK
<1>6. clock \in Nat /\ clock' \in Nat /\ clock < clock'
  BY <1>3 DEF ReleaseTypeOK
<1>7. \A n \in Names : dist'[n] \in Files => dist'[n].name = n /\ dist'[n].built <= clock'
  BY <1>2, <1>3, <1>5, <1>6 DEF ReleaseTypeOK, Files
<1>8. \A a \in archive' : a.key[1] = a.pkg.name /\ a.key[2] <= clock'
  BY <1>3, <1>6 DEF ReleaseTypeOK
<1>9. \A a \in archive', n \in Names :
        dist'[n] \in Files /\ a.key[1] = n => a.key[2] < dist'[n].built
  BY <1>2, <1>3, <1>5, <1>6 DEF ReleaseTypeOK
<1> QED
  BY <1>1, <1>2, <1>3, <1>5, <1>6, <1>7, <1>8, <1>9 DEF ReleaseTypeOK, NoBuild, Candidates

\* EndWrite and StopBuild change only how complete a file that is there is.
LEMMA WritingType ==
  ASSUME ReleaseTypeOK, build.pc = "writing", NEW s \in {"whole", "cut"},
         dist' = [dist EXCEPT ![build.name].st = s]
  PROVE  /\ build \in Builds /\ old = {}
         /\ dist[build.name] \in Files
         /\ dist'[build.name] \in Files
         /\ dist'[build.name] = [dist[build.name] EXCEPT !.st = s]
         /\ \A m \in Names : m # build.name => dist'[m] = dist[m]
         /\ dist' \in [Names -> Files \cup {NoFile}]
<1>1. build \in Builds /\ old = {} /\ build.name \in Names
  BY DEF ReleaseTypeOK, NoBuild, Builds
<1>2. dist[build.name] \in Files
  BY <1>1 DEF ReleaseTypeOK, NoFile
<1>3. [dist[build.name] EXCEPT !.st = s] \in Files
  BY <1>2 DEF Files
<1> QED BY <1>1, <1>2, <1>3 DEF ReleaseTypeOK

LEMMA EndWriteType ==
  ASSUME ReleaseTypeOK, EndWrite
  PROVE  ReleaseTypeOK'
<1>1. dist' = [dist EXCEPT ![build.name].st = "whole"] /\ build.pc = "writing"
  BY DEF EndWrite
<1>2. build' \in Builds /\ build'.pc = "sums" /\ build'.name = build.name
  BY <1>1, WritingType DEF EndWrite, Builds
<1>3. dist'[build.name] \in Files
      /\ dist'[build.name].name = dist[build.name].name
      /\ dist'[build.name].built = dist[build.name].built
      /\ dist'[build.name].st = "whole"
  BY <1>1, WritingType DEF Files
<1> QED
  BY <1>1, <1>2, <1>3, WritingType DEF ReleaseTypeOK, EndWrite, NoBuild, Builds, Candidates

LEMMA WriteSumsType ==
  ASSUME ReleaseTypeOK, WriteSums
  PROVE  ReleaseTypeOK'
  BY DEF ReleaseTypeOK, WriteSums, NoBuild, Candidates

LEMMA StopBuildType ==
  ASSUME ReleaseTypeOK, StopBuild
  PROVE  ReleaseTypeOK'
<1>1. CASE UNCHANGED dist
  BY <1>1 DEF ReleaseTypeOK, StopBuild, NoBuild, Candidates
<1>2. CASE build.pc = "writing" /\ dist' = [dist EXCEPT ![build.name].st = "cut"]
  <2>1. dist'[build.name] \in Files
        /\ dist'[build.name].name = dist[build.name].name
        /\ dist'[build.name].built = dist[build.name].built
    BY <1>2, WritingType DEF Files
  <2> QED
    BY <1>2, <2>1, WritingType DEF ReleaseTypeOK, StopBuild, NoBuild, Builds, Candidates
<1> QED BY <1>1, <1>2 DEF StopBuild

\* What a cleanup moves is in the directory, and the archive has nothing under
\* the name it is moved to.
LEMMA Archivable ==
  ASSUME ReleaseTypeOK, NEW p \in old
  PROVE  /\ p \in Files /\ p.st \in {"whole", "cut"} /\ p.name \in Names /\ dist[p.name] = p
         /\ Target(p) \in Names \X Nat /\ Target(p)[1] = p.name /\ Target(p)[2] <= clock
         /\ \A a \in archive : a.key # Target(p)
<1>1. PICK n \in Names : dist[n].st \in {"whole", "cut"} /\ p = dist[n]
  BY DEF ReleaseTypeOK, Candidates
<1>2. p \in Files /\ p.name = n /\ p.built <= clock
  BY <1>1 DEF ReleaseTypeOK, NoFile
<1>3. Target(p) = <<p.name, 0>> \/ Target(p) = <<p.name, clock>>
  BY DEF Target
<1>4. \A a \in archive : a.key # Target(p)
  <2>1. CASE \E a \in archive : a.key = <<p.name, 0>>
    <3>1. Target(p) = <<p.name, clock>>
      BY <2>1 DEF Target
    <3>2. ASSUME NEW a \in archive, a.key = Target(p) PROVE FALSE
      <4>1. a.key[1] = n /\ a.key[2] = clock
        BY <3>1, <3>2, <1>2
      <4>2. clock < p.built /\ p.built \in Nat /\ clock \in Nat
        BY <4>1, <1>1, <1>2 DEF ReleaseTypeOK, Files
      <4> QED BY <4>2, <1>2
    <3> QED BY <3>2
  <2>2. CASE ~ \E a \in archive : a.key = <<p.name, 0>>
    BY <2>2 DEF Target
  <2> QED BY <2>1, <2>2
<1> QED BY <1>1, <1>2, <1>3, <1>4 DEF ReleaseTypeOK

LEMMA CleanupType ==
  ASSUME ReleaseTypeOK, StartCleanup \/ StopCleanup
  PROVE  ReleaseTypeOK'
<1>1. /\ UNCHANGED <<dist, archive, build, clock, builds>>
      /\ old' \subseteq Candidates
      /\ old' = {} \/ build = NoBuild
  BY DEF ReleaseTypeOK, StartCleanup, StopCleanup, Old
<1>2. Candidates' = Candidates
  BY <1>1 DEF Candidates
<1> QED BY <1>1, <1>2 DEF ReleaseTypeOK

\* The archive after one package was moved: nothing was replaced.
LEMMA ArchiveGrows ==
  ASSUME ReleaseTypeOK, NEW p \in old,
         archive' = {a \in archive : a.key # Target(p)} \cup {[key |-> Target(p), pkg |-> p]}
  PROVE  archive' = archive \cup {[key |-> Target(p), pkg |-> p]}
  BY Archivable

LEMMA ArchiveOneType ==
  ASSUME ReleaseTypeOK, ArchiveOne
  PROVE  ReleaseTypeOK'
<1>1. PICK p \in old :
        /\ archive' = {a \in archive : a.key # Target(p)} \cup {[key |-> Target(p), pkg |-> p]}
        /\ dist' = [dist EXCEPT ![p.name] = NoFile]
        /\ old' = old \ {p}
        /\ UNCHANGED <<sums, build, clock, builds>>
  BY DEF ArchiveOne
<1>2. archive' = archive \cup {[key |-> Target(p), pkg |-> p]}
  BY <1>1, ArchiveGrows
<1>3. /\ p \in Files /\ p.name \in Names /\ dist[p.name] = p
      /\ Target(p) \in Names \X Nat /\ Target(p)[1] = p.name /\ Target(p)[2] <= clock
  BY Archivable
<1>4. build = NoBuild /\ build' = NoBuild
  BY <1>1 DEF ReleaseTypeOK
<1>5. NoFile \notin Files
  BY DEF NoFile, Files
<1>6. /\ dist' \in [Names -> Files \cup {NoFile}]
      /\ \A n \in Names : dist'[n] \in Files => dist'[n].name = n /\ dist'[n].built <= clock'
  BY <1>1, <1>3, <1>5 DEF ReleaseTypeOK
<1>7. /\ archive' \subseteq [key : Names \X Nat, pkg : Files]
      /\ \A a \in archive' : a.key[1] = a.pkg.name /\ a.key[2] <= clock'
  BY <1>1, <1>2, <1>3 DEF ReleaseTypeOK
<1>8. \A a \in archive', n \in Names :
        dist'[n] \in Files /\ a.key[1] = n => a.key[2] < dist'[n].built
  BY <1>1, <1>2, <1>3, <1>5 DEF ReleaseTypeOK
<1>9. old' \subseteq Candidates'
  BY <1>1, <1>3 DEF ReleaseTypeOK, Candidates, NoFile
<1> QED
  BY <1>1, <1>4, <1>6, <1>7, <1>8, <1>9 DEF ReleaseTypeOK, NoBuild

LEMMA NextType == ReleaseTypeOK /\ [Next]_relVars => ReleaseTypeOK'
<1> SUFFICES ASSUME ReleaseTypeOK, [Next]_relVars PROVE ReleaseTypeOK'
  OBVIOUS
<1>1. CASE UNCHANGED relVars
  BY <1>1 DEF ReleaseTypeOK, relVars, Candidates
<1>2. CASE Next
  BY <1>2, StartBuildType, StagingType, BeginWriteType, EndWriteType, WriteSumsType,
     StopBuildType, CleanupType, ArchiveOneType DEF Next
<1> QED BY <1>1, <1>2

\* The tables keep their shape and their ages.  In particular a stamped name in
\* the archive is never in use when cleanup-package-cache.py picks it, and an
\* unfinished build never finds its name taken.
THEOREM ReleaseTypeSafe == Spec => []ReleaseTypeOK
  BY InitType, NextType, PTL DEF Spec

-----------------------------------------------------------------------------
\* The packages of the directory have different names.
LEMMA ShelfNames ==
  ASSUME ReleaseTypeOK, NEW q \in Shelf
  PROVE  q \in Files /\ q.name \in Names /\ dist[q.name] = q /\ q.st = "whole"
  BY DEF ReleaseTypeOK, Shelf, NoFile

LEMMA InitStore == Init => Store!Init
  BY DEF Init, Store!Init, Shelf, Kept, NoFile

\* Steps that leave the archive and every complete package alone.
LEMMA StoreStutters ==
  ASSUME archive' = archive,
         \A n \in Names : dist'[n] = dist[n] \/ (dist[n].st # "whole" /\ dist'[n].st # "whole")
  PROVE  UNCHANGED Store!storeVars
<1>1. Shelf' = Shelf
  BY DEF Shelf
<1>2. Kept' = Kept
  BY DEF Kept
<1> QED BY <1>1, <1>2 DEF Store!storeVars

LEMMA EndWritePublishes ==
  ASSUME ReleaseTypeOK, EndWrite
  PROVE  Store!Next
<1> DEFINE n == build.name
           p == dist'[n]
<1>1. dist' = [dist EXCEPT ![n].st = "whole"] /\ build.pc = "writing" /\ archive' = archive
  BY DEF EndWrite
<1>2. /\ n \in Names /\ dist[n].st = "torn"
      /\ p \in Files /\ p.st = "whole" /\ p.name = n
      /\ \A m \in Names : m # n => dist'[m] = dist[m]
  <2>1. dist[n] \in Files /\ p = [dist[n] EXCEPT !.st = "whole"] /\ p \in Files /\ build \in Builds
    BY <1>1, WritingType
  <2>2. n \in Names /\ p.st = "whole" /\ p.name = dist[n].name
    BY <2>1 DEF Files, Builds
  <2> QED BY <1>1, <2>1, <2>2, WritingType DEF ReleaseTypeOK
<1>3. \A q \in Shelf : q.name # p.name
  BY <1>2, ShelfNames
<1>4. Shelf' = Shelf \cup {p} /\ p \in Shelf'
  <2>1. p \in Shelf' BY <1>2 DEF Shelf
  <2>2. Shelf \subseteq Shelf'
    <3> SUFFICES ASSUME NEW q \in Shelf PROVE q \in Shelf' OBVIOUS
    <3>1. q.name \in Names /\ dist[q.name] = q /\ q.st = "whole" /\ q.name # n
      BY ShelfNames, <1>2
    <3>2. dist'[q.name] = q BY <3>1, <1>2
    <3> QED BY <3>1, <3>2 DEF Shelf
  <2>3. ASSUME NEW q \in Shelf' PROVE q \in Shelf \cup {p}
    <3>1. PICK m \in Names : dist'[m].st = "whole" /\ q = dist'[m]
      BY DEF Shelf
    <3>2. CASE m = n BY <3>1, <3>2
    <3>3. CASE m # n
      <4>1. dist[m].st = "whole" /\ q = dist[m] BY <3>1, <3>3, <1>2
      <4> QED BY <4>1 DEF Shelf
    <3> QED BY <3>2, <3>3
  <2> QED BY <2>1, <2>2, <2>3
<1>5. Kept' = Kept
  BY <1>1 DEF Kept
<1>6. Store!Publish(p)
  BY <1>3, <1>4, <1>5 DEF Store!Publish
<1> QED BY <1>4, <1>6 DEF Store!Next

LEMMA ArchiveOneRetires ==
  ASSUME ReleaseTypeOK, ArchiveOne
  PROVE  [Store!Next]_(Store!storeVars)
<1>1. PICK p \in old :
        /\ archive' = {a \in archive : a.key # Target(p)} \cup {[key |-> Target(p), pkg |-> p]}
        /\ dist' = [dist EXCEPT ![p.name] = NoFile]
  BY DEF ArchiveOne
<1>2. archive' = archive \cup {[key |-> Target(p), pkg |-> p]}
  BY <1>1, ArchiveGrows
<1>3. p \in Files /\ p.name \in Names /\ dist[p.name] = p /\ p.st \in {"whole", "cut"}
  BY Archivable
<1>4. /\ dist'[p.name] = NoFile
      /\ \A m \in Names : m # p.name => dist'[m] = dist[m]
  BY <1>1, <1>3 DEF ReleaseTypeOK
<1>5. Shelf' = Shelf \ {p}
  <2>1. ASSUME NEW q \in Shelf' PROVE q \in Shelf /\ q # p
    <3>1. PICK m \in Names : dist'[m].st = "whole" /\ q = dist'[m]
      BY DEF Shelf
    <3>2. m # p.name BY <3>1, <1>4 DEF NoFile
    <3>3. dist[m].st = "whole" /\ q = dist[m] BY <3>1, <3>2, <1>4
    <3>4. q \in Shelf BY <3>3 DEF Shelf
    <3>5. q.name = m BY <3>3 DEF ReleaseTypeOK, NoFile
    <3> QED BY <3>2, <3>4, <3>5
  <2>2. ASSUME NEW q \in Shelf, q # p PROVE q \in Shelf'
    <3>1. q.name \in Names /\ dist[q.name] = q /\ q.st = "whole"
      BY ShelfNames
    <3>2. q.name # p.name BY <3>1, <2>2, <1>3
    <3>3. dist'[q.name] = q BY <3>1, <3>2, <1>4
    <3> QED BY <3>1, <3>3 DEF Shelf
  <2> QED BY <2>1, <2>2
<1>6. {a.pkg : a \in archive'} = {a.pkg : a \in archive} \cup {p}
  <2> DEFINE new == [key |-> Target(p), pkg |-> p]
  <2>1. new.pkg = p OBVIOUS
  <2>2. archive' = archive \cup {new} BY <1>2
  <2> HIDE DEF new
  <2> QED BY <2>1, <2>2
<1>7. CASE p.st = "whole"
  <2>1. p \in Shelf BY <1>3, <1>7 DEF Shelf
  <2>2. Kept' = Kept \cup {p} BY <1>6, <1>7 DEF Kept
  <2>3. Store!Retire(p) BY <2>1, <2>2, <1>5 DEF Store!Retire
  <2> QED BY <2>1, <2>3 DEF Store!Next
<1>8. CASE p.st = "cut"
  <2>1. p \notin Shelf BY <1>8 DEF Shelf
  <2>2. Kept' = Kept BY <1>6, <1>8 DEF Kept
  <2> QED BY <2>1, <2>2, <1>5 DEF Store!storeVars
<1> QED BY <1>3, <1>7, <1>8

\* Every step of a script is a step of the store, or none.
LEMMA NextStore == ReleaseTypeOK /\ [Next]_relVars => [Store!Next]_(Store!storeVars)
<1> SUFFICES ASSUME ReleaseTypeOK, [Next]_relVars PROVE [Store!Next]_(Store!storeVars)
  OBVIOUS
<1>1. CASE EndWrite BY <1>1, EndWritePublishes
<1>2. CASE ArchiveOne BY <1>2, ArchiveOneRetires
<1>3. CASE BeginWrite
  <2>1. build \in Builds /\ dist[build.name] = NoFile
    BY <1>3 DEF ReleaseTypeOK, BeginWrite, NoBuild
  <2>2. build.name \in Names BY <2>1 DEF Builds
  <2>3. dist'[build.name].st = "torn" /\ \A m \in Names : m # build.name => dist'[m] = dist[m]
    BY <1>3, <2>2 DEF BeginWrite, ReleaseTypeOK, File
  <2>4. archive' = archive BY <1>3 DEF BeginWrite
  <2> QED BY <2>1, <2>2, <2>3, <2>4, StoreStutters DEF NoFile
<1>4. CASE StopBuild
  <2>1. archive' = archive BY <1>4 DEF StopBuild
  <2>2. CASE UNCHANGED dist BY <2>1, <2>2, StoreStutters
  <2>3. CASE build.pc = "writing" /\ dist' = [dist EXCEPT ![build.name].st = "cut"]
    <3>1. dist[build.name].st = "torn" /\ dist[build.name] \in Files
          /\ dist'[build.name] = [dist[build.name] EXCEPT !.st = "cut"]
          /\ \A m \in Names : m # build.name => dist'[m] = dist[m]
      BY <2>3, WritingType DEF ReleaseTypeOK
    <3>2. dist'[build.name].st = "cut" BY <3>1 DEF Files
    <3> QED BY <2>1, <3>1, <3>2, StoreStutters
  <2> QED BY <1>4, <2>2, <2>3 DEF StopBuild
<1>5. CASE \/ \E n \in Names, tree \in Trees : StartBuild(n, tree)
           \/ CopyTree \/ SignApp \/ RecordFiles \/ WriteSums
           \/ StartCleanup \/ StopCleanup \/ UNCHANGED relVars
  <2>1. archive' = archive /\ dist' = dist
    BY <1>5 DEF StartBuild, CopyTree, SignApp, RecordFiles, WriteSums, StartCleanup,
       StopCleanup, relVars
  <2> QED BY <2>1, StoreStutters
<1> QED BY <1>1, <1>2, <1>3, <1>4, <1>5 DEF Next

\* Builds, cleanups and crashes between their steps implement the store.
THEOREM ReleaseImplementsStore == Spec => ImplementsStore
<1>1. Spec => []ReleaseTypeOK
  BY ReleaseTypeSafe
<1>2. Init /\ [][Next]_relVars /\ []ReleaseTypeOK
      => Store!Init /\ [][Store!Next]_(Store!storeVars)
  BY InitStore, NextStore, PTL
<1> QED BY <1>1, <1>2, PTL DEF Spec, ImplementsStore, Store!Spec

-----------------------------------------------------------------------------
\* What a build has checked of its nodes when it is at pc.
Checked(b) ==
  /\ b.pc \in {"app", "record", "write", "writing", "sums"} =>
       b.nodes \cap (Refused(Kind[b.name]) \cup Junk) = {}
  /\ b.pc \in {"record", "write", "writing", "sums"} => b.nodes \cap Altered(Kind[b.name]) = {}
  /\ b.pc \in {"write", "writing", "sums"} =>
       b.nodes \cap Unverifiable(Kind[b.name]) = {} /\ b.trust = b.nodes \cap CodeNodes

SoundInv ==
  /\ Checked(build)
  /\ \A n \in Names : dist[n] \in Files => SoundPackage(dist[n])
  /\ \A a \in archive : SoundPackage(a.pkg)
  /\ sums # NoSums => \E p \in Shelf \cup Kept : p.name = sums.name /\ p.id = sums.id

LEMMA InitSound == Init => SoundInv
  BY DEF Init, SoundInv, Checked, NoBuild, NoFile, Files

\* The digest stays true: the store loses nothing.
LEMMA SumsKept ==
  ASSUME ReleaseTypeOK, SoundInv, [Next]_relVars, sums' = sums
  PROVE  sums' # NoSums => \E p \in Shelf' \cup Kept' : p.name = sums'.name /\ p.id = sums'.id
<1>1. [Store!Next]_(Store!storeVars)
  BY NextStore
<1>2. Shelf \cup Kept \subseteq Shelf' \cup Kept'
  BY <1>1 DEF Store!Next, Store!Publish, Store!Retire, Store!storeVars
<1> QED BY <1>2 DEF SoundInv

\* A file keeps what is in it when only its completeness changes.
LEMMA SoundCompletion ==
  ASSUME NEW p \in Files, SoundPackage(p), NEW s
  PROVE  SoundPackage([p EXCEPT !.st = s])
<1>1. /\ [p EXCEPT !.st = s].nodes = p.nodes /\ [p EXCEPT !.st = s].trust = p.trust
      /\ [p EXCEPT !.st = s].name = p.name
  BY DEF Files
<1> QED BY <1>1 DEF SoundPackage

LEMMA NextSound ==
  ASSUME ReleaseTypeOK, SoundInv, [Next]_relVars
  PROVE  SoundInv'
<1>s. ASSUME sums' = sums, Checked(build)',
             \A n \in Names : dist'[n] \in Files => SoundPackage(dist'[n]),
             \A a \in archive' : SoundPackage(a.pkg)
      PROVE  SoundInv'
  BY <1>s, SumsKept DEF SoundInv
<1>n. NoFile \notin Files
  BY DEF NoFile, Files
<1>1. CASE \E n \in Names, tree \in Trees : StartBuild(n, tree)
  <2>1. build'.pc = "copy" /\ UNCHANGED <<dist, archive, sums>>
    BY <1>1 DEF StartBuild
  <2> QED BY <2>1, <1>s DEF SoundInv, Checked
<1>2. CASE CopyTree
  <2>1. build \in Builds BY <1>2 DEF CopyTree, ReleaseTypeOK, NoBuild
  <2>2. build'.pc = "app" /\ build'.nodes = build.nodes \ Junk /\ build'.name = build.name
        /\ build.nodes \cap Refused(Kind[build.name]) = {}
    BY <2>1, <1>2 DEF CopyTree, Builds
  <2>3. build'.nodes \cap (Refused(Kind[build'.name]) \cup Junk) = {}
    BY <2>2
  <2>4. Checked(build)' BY <2>2, <2>3 DEF Checked
  <2>5. UNCHANGED <<dist, archive, sums>> BY <1>2 DEF CopyTree
  <2> QED BY <2>4, <2>5, <1>s DEF SoundInv
<1>3. CASE SignApp
  <2>1. build \in Builds BY <1>3 DEF SignApp, ReleaseTypeOK, NoBuild
  <2>2. build'.pc = "record" /\ build'.nodes = build.nodes /\ build'.name = build.name
        /\ build.pc = "app" /\ build.nodes \cap Altered(Kind[build.name]) = {}
    BY <2>1, <1>3 DEF SignApp, Builds
  <2>3. Checked(build)' BY <2>2 DEF Checked, SoundInv
  <2>4. UNCHANGED <<dist, archive, sums>> BY <1>3 DEF SignApp
  <2> QED BY <2>3, <2>4, <1>s DEF SoundInv
<1>4. CASE RecordFiles
  <2>1. build \in Builds BY <1>4 DEF RecordFiles, ReleaseTypeOK, NoBuild
  <2>2. /\ build.pc = "record" /\ build'.pc = "write"
        /\ build'.nodes = build.nodes /\ build'.name = build.name
        /\ build'.trust = build.nodes \cap CodeNodes
        /\ build.nodes \cap Unverifiable(Kind[build.name]) = {}
    BY <2>1, <1>4 DEF RecordFiles, Builds, TrustOf
  <2>3. Checked(build)' BY <2>2 DEF Checked, SoundInv
  <2>4. UNCHANGED <<dist, archive, sums>> BY <1>4 DEF RecordFiles
  <2> QED BY <2>3, <2>4, <1>s DEF SoundInv
<1>5. CASE BeginWrite
  <2>1. build \in Builds BY <1>5 DEF BeginWrite, ReleaseTypeOK, NoBuild
  <2>2. /\ build.pc = "write" /\ build'.pc = "writing"
        /\ build'.nodes = build.nodes /\ build'.name = build.name /\ build'.trust = build.trust
    BY <2>1, <1>5 DEF BeginWrite, Builds
  <2>3. Checked(build)' BY <2>2 DEF Checked, SoundInv
  <2>4. SoundPackage(File("torn"))
    <3>1. /\ File("torn").nodes = build.nodes /\ File("torn").trust = build.trust
          /\ File("torn").name = build.name
      BY DEF File
    <3>2. /\ build.nodes \cap (Refused(Kind[build.name]) \cup Junk) = {}
          /\ build.nodes \cap Altered(Kind[build.name]) = {}
          /\ build.nodes \cap Unverifiable(Kind[build.name]) = {}
          /\ build.trust = build.nodes \cap CodeNodes
      BY <2>2 DEF SoundInv, Checked
    <3>3. /\ Refused("beta") = {"link_out", "fifo"}
          /\ Refused("standalone") = {"link_out", "fifo", "link_123", "launcher_123"}
          /\ Altered("beta") = {"app_rights", "app_code"}
          /\ Altered("standalone") = {"app_rights", "app_foreign"}
          /\ Unverifiable("beta") = {"unsigned", "edited", "legacy_tool"}
          /\ Unverifiable("standalone") = {"unsigned"}
      BY DEF Refused, RefusedBeta, RefusedStandalone, ForeignLauncher, Altered, AlteredBeta,
         AlteredStandalone, Unverifiable, UnverifiableBeta, UnverifiableStandalone, PageMismatch
    <3>4. Kind[build.name] \in {"beta", "standalone"}
      BY <2>1, ReleaseAssumption DEF Builds
    <3>5. CASE Kind[build.name] = "beta" BY <3>1, <3>2, <3>3, <3>5 DEF SoundPackage
    <3>6. CASE Kind[build.name] = "standalone" BY <3>1, <3>2, <3>3, <3>6 DEF SoundPackage
    <3> QED BY <3>4, <3>5, <3>6
  <2>5. \A n \in Names : dist'[n] = dist[n] \/ dist'[n] = File("torn")
    BY <1>5 DEF BeginWrite, ReleaseTypeOK
  <2>6. UNCHANGED <<archive, sums>> BY <1>5 DEF BeginWrite
  <2> QED BY <2>3, <2>4, <2>5, <2>6, <1>s DEF SoundInv
<1>6. CASE EndWrite
  <2>1. dist' = [dist EXCEPT ![build.name].st = "whole"] /\ build.pc = "writing"
    BY <1>6 DEF EndWrite
  <2>2. /\ build'.pc = "sums" /\ build'.nodes = build.nodes /\ build'.name = build.name
        /\ build'.trust = build.trust /\ build \in Builds
    BY <1>6, <2>1, WritingType DEF EndWrite, Builds
  <2>3. Checked(build)' BY <2>1, <2>2 DEF Checked, SoundInv
  <2>4. SoundPackage(dist'[build.name])
    <3>1. dist[build.name] \in Files /\ dist'[build.name] = [dist[build.name] EXCEPT !.st = "whole"]
          /\ build.name \in Names
      BY <2>1, <2>2, WritingType DEF Builds
    <3>2. SoundPackage(dist[build.name]) BY <3>1 DEF SoundInv
    <3> QED BY <3>1, <3>2, SoundCompletion
  <2>5. \A n \in Names : n # build.name => dist'[n] = dist[n]
    BY <2>1, WritingType
  <2>6. UNCHANGED <<archive, sums>> BY <1>6 DEF EndWrite
  <2> QED BY <2>3, <2>4, <2>5, <2>6, <1>s DEF SoundInv
<1>7. CASE WriteSums
  <2>1. build \in Builds BY <1>7 DEF WriteSums, ReleaseTypeOK, NoBuild
  <2>2. build.name \in Names /\ dist[build.name].st = "whole"
    BY <2>1, <1>7 DEF WriteSums, ReleaseTypeOK, Builds
  <2>3. dist[build.name] \in Shelf' /\ dist[build.name].name = build.name
    BY <2>2, <1>7 DEF Shelf, WriteSums, ReleaseTypeOK, NoFile
  <2>4. sums'.name = build.name /\ sums'.id = dist[build.name].id
    BY <1>7 DEF WriteSums
  <2>5. Checked(build)' BY <1>7 DEF WriteSums, Checked, NoBuild
  <2>6. UNCHANGED <<dist, archive>> BY <1>7 DEF WriteSums
  <2> QED BY <2>3, <2>4, <2>5, <2>6 DEF SoundInv
<1>8. CASE StopBuild
  <2>1. Checked(build)' /\ UNCHANGED <<archive, sums>>
    BY <1>8 DEF StopBuild, Checked, NoBuild
  <2>2. CASE UNCHANGED dist BY <2>1, <2>2, <1>s DEF SoundInv
  <2>3. CASE build.pc = "writing" /\ dist' = [dist EXCEPT ![build.name].st = "cut"]
    <3>1. /\ dist[build.name] \in Files /\ build.name \in Names
          /\ dist'[build.name] = [dist[build.name] EXCEPT !.st = "cut"]
          /\ \A n \in Names : n # build.name => dist'[n] = dist[n]
      BY <2>3, WritingType DEF Builds
    <3>2. SoundPackage(dist'[build.name]) BY <3>1, SoundCompletion DEF SoundInv
    <3> QED BY <2>1, <3>1, <3>2, <1>s DEF SoundInv
  <2> QED BY <1>8, <2>2, <2>3 DEF StopBuild
<1>9. CASE StartCleanup \/ StopCleanup \/ UNCHANGED relVars
  <2>1. UNCHANGED <<dist, archive, sums, build>>
    BY <1>9 DEF StartCleanup, StopCleanup, relVars
  <2> QED BY <2>1, <1>s DEF SoundInv, Checked
<1>10. CASE ArchiveOne
  <2>1. PICK p \in old :
          /\ archive' = {a \in archive : a.key # Target(p)} \cup {[key |-> Target(p), pkg |-> p]}
          /\ dist' = [dist EXCEPT ![p.name] = NoFile]
          /\ UNCHANGED <<sums, build>>
    BY <1>10 DEF ArchiveOne
  <2>2. p \in Files /\ p.name \in Names /\ dist[p.name] = p
    BY Archivable
  <2>3. SoundPackage(p) BY <2>2 DEF SoundInv
  <2>4. \A a \in archive' : SoundPackage(a.pkg)
    BY <2>1, <2>3 DEF SoundInv
  <2>5. \A n \in Names : dist'[n] = dist[n] \/ dist'[n] = NoFile
    BY <2>1, <2>2 DEF ReleaseTypeOK
  <2> QED BY <2>1, <2>4, <2>5, <1>n, <1>s DEF SoundInv, Checked
<1> QED BY <1>1, <1>2, <1>3, <1>4, <1>5, <1>6, <1>7, <1>8, <1>9, <1>10 DEF Next

LEMMA SoundImplies == ReleaseTypeOK /\ SoundInv => PackagesSound
<1> SUFFICES ASSUME ReleaseTypeOK, SoundInv PROVE PackagesSound OBVIOUS
<1>1. \A p \in Shelf : SoundPackage(p)
  BY ShelfNames DEF SoundInv
<1>2. \A p \in Kept : SoundPackage(p)
  BY DEF SoundInv, Kept
<1> QED BY <1>1, <1>2 DEF PackagesSound, SoundInv

\* Every complete package, wherever it is and whatever crashed in between,
\* passed the checks of the script that wrote it, and the digest file speaks
\* of one of them.
THEOREM PackagesSoundSafe == Spec => []PackagesSound
<1>1. ReleaseTypeOK /\ SoundInv /\ [Next]_relVars => SoundInv'
  BY NextSound
<1> QED BY ReleaseTypeSafe, InitSound, <1>1, SoundImplies, PTL DEF Spec

-----------------------------------------------------------------------------
\* What the running cleanup still has to move is as old as when it was chosen:
\* it moves the newest of them first, so that each keeps its Keep newer ones.
NewerThan(p) == {q \in Candidates : Newer(q, p)}
KeepInv == \A p \in old : Cardinality(NewerThan(p)) >= Keep

\* A package in the directory is known by its name.
LEMMA CandidateNames ==
  ASSUME ReleaseTypeOK, NEW p \in Candidates
  PROVE  /\ p \in Files /\ p.name \in Names /\ dist[p.name] = p
         /\ Version[p.name] \in Nat /\ p.built \in Nat /\ p.st \in {"whole", "cut"}
<1>1. PICK n \in Names : dist[n].st \in {"whole", "cut"} /\ p = dist[n]
  BY DEF Candidates
<1>2. p \in Files /\ p.name = n
  BY <1>1 DEF ReleaseTypeOK, NoFile
<1> QED BY <1>1, <1>2, ReleaseAssumption DEF Files

LEMMA CandidatesFinite ==
  ASSUME ReleaseTypeOK
  PROVE  IsFiniteSet(Candidates)
<1> DEFINE f == [p \in Candidates |-> p.name]
<1>1. f \in [Candidates -> Names]
  BY CandidateNames
<1>2. \A p, q \in Candidates : f[p] = f[q] => p = q
  <2> SUFFICES ASSUME NEW p \in Candidates, NEW q \in Candidates, p.name = q.name PROVE p = q
    OBVIOUS
  <2> QED BY CandidateNames
<1> HIDE DEF f
<1>3. f \in Injection(Candidates, Names)
  BY <1>1, <1>2 DEF Injection, IsInjective
<1> QED BY <1>3, ReleaseAssumption, FS_Injection

\* The order of archive_old is strict.
LEMMA NewerOrder ==
  ASSUME ReleaseTypeOK, NEW p \in Candidates, NEW q \in Candidates, NEW r \in Candidates
  PROVE  ~Newer(p, p) /\ (Newer(p, q) /\ Newer(q, r) => Newer(p, r))
  BY CandidateNames DEF Newer

\* What a package that is moved, and every one that is still to be moved, has
\* above it afterwards.
LEMMA MovedKeeps ==
  ASSUME ReleaseTypeOK, KeepInv, NEW p \in old,
         \A q \in old : q # p => Newer(p, q),
         dist' = [dist EXCEPT ![p.name] = NoFile], NEW q \in old
  PROVE  Cardinality({r \in Candidates' : Newer(r, q)}) >= Keep
<1>1. p \in Candidates /\ q \in Candidates /\ old \subseteq Candidates
  BY DEF ReleaseTypeOK
<1>2. p.name \in Names /\ dist[p.name] = p
  BY <1>1, CandidateNames
<1>3. dist'[p.name] = NoFile /\ \A n \in Names : n # p.name => dist'[n] = dist[n]
  BY <1>2 DEF ReleaseTypeOK
<1>4. \A r \in Candidates : r # p => r \in Candidates'
  <2> TAKE r \in Candidates
  <2> HAVE r # p
  <2>1. r.name \in Names /\ dist[r.name] = r /\ r.st \in {"whole", "cut"}
    BY CandidateNames
  <2>2. r.name # p.name
    BY <1>2, <2>1
  <2> QED BY <1>3, <2>1, <2>2 DEF Candidates
<1>5. NewerThan(p) \subseteq {r \in Candidates' : Newer(r, q)}
  <2> SUFFICES ASSUME NEW r \in Candidates, Newer(r, p)
               PROVE  r \in Candidates' /\ Newer(r, q)
    BY DEF NewerThan
  <2>1. r # p
    BY <1>1, NewerOrder
  <2>2. r \in Candidates'
    BY <1>4, <2>1
  <2>3. Newer(r, q)
    BY <1>1, NewerOrder
  <2> QED BY <2>2, <2>3
<1>6. Candidates' \subseteq Candidates
  <2> SUFFICES ASSUME NEW n \in Names, dist'[n].st \in {"whole", "cut"}
               PROVE  dist'[n] \in Candidates
    BY DEF Candidates
  <2>1. n # p.name
    BY <1>3 DEF NoFile
  <2> QED BY <1>3, <2>1 DEF Candidates
<1>7. IsFiniteSet({r \in Candidates' : Newer(r, q)}) /\ IsFiniteSet(NewerThan(p))
  BY <1>6, CandidatesFinite, FS_Subset DEF NewerThan
<1>8. Cardinality(NewerThan(p)) <= Cardinality({r \in Candidates' : Newer(r, q)})
  BY <1>5, <1>7, FS_Subset
<1>9. Cardinality(NewerThan(p)) \in Nat /\ Cardinality({r \in Candidates' : Newer(r, q)}) \in Nat
  BY <1>7, FS_CardinalityType
<1>10. Cardinality(NewerThan(p)) >= Keep /\ Keep \in Nat
  BY ReleaseAssumption DEF KeepInv
<1> QED BY <1>8, <1>9, <1>10

LEMMA KeepInductive == ReleaseTypeOK /\ KeepInv /\ [Next]_relVars => KeepInv'
<1> SUFFICES ASSUME ReleaseTypeOK, KeepInv, [Next]_relVars PROVE KeepInv'
  OBVIOUS
<1>1. CASE old' = {}
  BY <1>1 DEF KeepInv
<1>2. CASE old' = old /\ dist' = dist
  BY <1>2 DEF KeepInv, NewerThan, Candidates
<1>3. CASE StartCleanup
  BY <1>3 DEF StartCleanup, Old, KeepInv, NewerThan, Candidates
<1>4. CASE ArchiveOne
  <2>1. PICK p \in old :
          /\ \A q \in old : q # p => Newer(p, q)
          /\ dist' = [dist EXCEPT ![p.name] = NoFile]
          /\ old' = old \ {p}
    BY <1>4 DEF ArchiveOne
  <2>2. \A q \in old : Cardinality({r \in Candidates' : Newer(r, q)}) >= Keep
    BY <2>1, MovedKeeps
  <2> QED BY <2>1, <2>2 DEF KeepInv, NewerThan
<1>5. CASE BeginWrite \/ EndWrite \/ StopBuild
  <2>1. build # NoBuild /\ old' = old
    BY <1>5 DEF BeginWrite, EndWrite, StopBuild, NoBuild
  <2> QED BY <1>1, <2>1 DEF ReleaseTypeOK
<1> QED
  BY <1>1, <1>2, <1>3, <1>4, <1>5
  DEF Next, relVars, StartBuild, CopyTree, SignApp, RecordFiles, WriteSums, StopCleanup

\* Only a cleanup takes a package out of the directory.
LEMMA OnlyArchived ==
  ASSUME ReleaseTypeOK, [Next]_relVars, NEW n \in Names,
         dist[n].st # "none", dist'[n].st = "none"
  PROVE  ArchiveOne /\ \A p \in old : dist' = [dist EXCEPT ![p.name] = NoFile] => p = dist[n]
<1>1. dist' # dist
  OBVIOUS
<1>2. ~BeginWrite
  BY DEF BeginWrite, ReleaseTypeOK, File
<1>3. ~(build.pc = "writing" /\ \E s \in {"whole", "cut"} : dist' = [dist EXCEPT ![build.name].st = s])
  <2> SUFFICES ASSUME NEW s \in {"whole", "cut"}, build.pc = "writing",
                      dist' = [dist EXCEPT ![build.name].st = s]
               PROVE  FALSE
    OBVIOUS
  <2>1. dist'[build.name] = [dist[build.name] EXCEPT !.st = s] /\ dist[build.name] \in Files
        /\ \A m \in Names : m # build.name => dist'[m] = dist[m]
    BY WritingType
  <2> QED BY <2>1 DEF Files
<1>4. ArchiveOne
  BY <1>1, <1>2, <1>3
  DEF Next, relVars, StartBuild, CopyTree, SignApp, RecordFiles, EndWrite, WriteSums, StopBuild,
      StartCleanup, StopCleanup
<1>5. ASSUME NEW p \in old, dist' = [dist EXCEPT ![p.name] = NoFile] PROVE p = dist[n]
  <2>1. p.name \in Names /\ dist[p.name] = p
    BY Archivable
  <2> QED BY <1>5, <2>1 DEF ReleaseTypeOK
<1> QED BY <1>4, <1>5

\* A cleanup, however many packages it moves and wherever it is interrupted,
\* never takes away a package that is among the Keep newest of the directory
\* at that moment.
THEOREM KeepsNewestSafe == Spec => KeepsNewest
<1>1. Init => KeepInv
  BY DEF Init, KeepInv
<1>2. ReleaseTypeOK /\ KeepInv /\ [Next]_relVars =>
        [\A n \in Names : dist[n].st # "none" /\ dist'[n].st = "none" =>
           Cardinality({p \in Candidates' : Newer(p, dist[n])}) >= Keep]_relVars
  <2> SUFFICES ASSUME ReleaseTypeOK, KeepInv, [Next]_relVars, NEW n \in Names,
                      dist[n].st # "none", dist'[n].st = "none"
               PROVE  Cardinality({p \in Candidates' : Newer(p, dist[n])}) >= Keep
    OBVIOUS
  <2>1. PICK p \in old :
          /\ \A q \in old : q # p => Newer(p, q)
          /\ dist' = [dist EXCEPT ![p.name] = NoFile]
    BY OnlyArchived DEF ArchiveOne
  <2>2. p = dist[n]
    BY <2>1, OnlyArchived
  <2>3. Cardinality({r \in Candidates' : Newer(r, p)}) >= Keep
    BY <2>1, MovedKeeps
  <2> QED BY <2>2, <2>3
<1>3. QED BY <1>1, <1>2, ReleaseTypeSafe, KeepInductive, PTL DEF Spec, KeepsNewest
=============================================================================
