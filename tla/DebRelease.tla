----------------------------- MODULE DebRelease -----------------------------
(***************************************************************************)
(* The release scripts: build-virtualmac2-deb.py ("beta", which needs      *)
(* release 1.2.3 installed), build-virtualmac2-standalone-deb.py           *)
(* ("standalone", which replaces it), and cleanup-package-cache.py, which  *)
(* moves older packages of the same directory into an archive.             *)
(*                                                                         *)
(* A build stages its inputs in a temporary directory, checks them, and    *)
(* writes the package in place under its final name; it may stop anywhere. *)
(* An input tree is the set of the kinds of node it holds.  The operator   *)
(* runs one script at a time.                                              *)
(***************************************************************************)
EXTENDS Integers, FiniteSets

CONSTANTS Names,       \* package file names: release version, build, script
          Kind,        \* the script that builds a name
          Version,     \* the Debian version in it, its build number
          Keep,        \* packages that a cleanup leaves
          Trees,       \* input trees
          MaxBuilds

\* Kinds of node.  "edited" code was changed behind its signature, "legacy"
\* code has a signature that only the strict verification rejects, in the
\* payload or elsewhere; "launcher_123" is an installation launcher built for
\* the directory of release 1.2.3.  An app has other rights or other code
\* after it was signed, or is another app.
CodeNodes == {"code", "legacy", "legacy_tool", "edited", "unsigned", "launcher_123"}
Junk == {"ds_store"}
NodeKinds == CodeNodes \cup Junk \cup
               {"link_in", "link_123", "link_out", "fifo", "app_rights", "app_code", "app_foreign"}

ASSUME ReleaseAssumption ==
  /\ IsFiniteSet(Names)
  /\ Kind \in [Names -> {"beta", "standalone"}]
  /\ Version \in [Names -> Nat]
  /\ Keep \in Nat \ {0} /\ MaxBuilds \in Nat
  /\ Trees \subseteq SUBSET NodeKinds

VARIABLES dist,        \* name -> file in the output directory
          archive,     \* files under a name and a time stamp, 0 for none
          sums,        \* what SHA256SUMS says
          build,       \* the running build
          old,         \* what the running cleanup still has to move
          clock, builds

relVars == <<dist, archive, sums, build, old, clock, builds>>

NoFile == [st |-> "none"]
NoBuild == [pc |-> "idle"]
NoSums == [name |-> "none", id |-> 0]

Init ==
  /\ dist = [n \in Names |-> NoFile]
  /\ archive = {} /\ sums = NoSums
  /\ build = NoBuild /\ old = {}
  /\ clock = 0 /\ builds = 0

-----------------------------------------------------------------------------
\* A package that exists is never overwritten, whatever state it is in.
NameIsFree(n) == dist[n].st = "none"

StartBuild(n, tree) ==
  /\ build = NoBuild /\ old = {} /\ builds < MaxBuilds
  /\ NameIsFree(n)
  /\ build' = [pc |-> "copy", name |-> n, nodes |-> tree, trust |-> {}]
  /\ builds' = builds + 1
  /\ UNCHANGED <<dist, archive, sums, old, clock>>

\* What copy_tree and the staging code after it refuse.  The beta may link into
\* release 1.2.3, on which it depends; the standalone replaces that release.
RefusedBeta == {"link_out", "fifo"}
ForeignLauncher == {"launcher_123"}
RefusedStandalone == {"link_out", "link_123", "fifo"} \cup ForeignLauncher

\* Mutant: both scripts accept links into release 1.2.3.
RefusedByBeta(kind) == RefusedBeta

Refused(kind) == IF kind = "standalone" THEN RefusedStandalone ELSE RefusedBeta

\* Metadata files of the Mac are dropped from the copy.
CopyTree ==
  /\ build.pc = "copy"
  /\ build.nodes \cap Refused(Kind[build.name]) = {}
  /\ build' = [build EXCEPT !.pc = "app", !.nodes = @ \ Junk]
  /\ UNCHANGED <<dist, archive, sums, old, clock, builds>>

\* configure_app and stage_app: the version goes into Info.plist, the bundle is
\* signed again, and must verify with the entitlements it is meant to have.  The
\* beta makes any app its own and insists on its code; the standalone takes the
\* executable from elsewhere and insists on the bundle.
AlteredBeta == {"app_rights", "app_code"}
AlteredStandalone == {"app_rights", "app_foreign"}
Altered(kind) == IF kind = "standalone" THEN AlteredStandalone ELSE AlteredBeta

SignApp ==
  /\ build.pc = "app"
  /\ build.nodes \cap Altered(Kind[build.name]) = {}
  /\ build' = [build EXCEPT !.pc = "record"]
  /\ UNCHANGED <<dist, archive, sums, old, clock, builds>>

\* Every Mach-O file needs a code directory hash; the beta also verifies its
\* pages against the code directory, and lets only the payload be legacy.
PageMismatch == {"edited"}
UnverifiableBeta == {"unsigned", "legacy_tool"} \cup PageMismatch
UnverifiableStandalone == {"unsigned"}
Unverifiable(kind) == IF kind = "standalone" THEN UnverifiableStandalone ELSE UnverifiableBeta

\* The trust list has the hash of every code file.
TrustOf(nodes) == nodes \cap CodeNodes

RecordFiles ==
  /\ build.pc = "record"
  /\ build.nodes \cap Unverifiable(Kind[build.name]) = {}
  /\ build' = [build EXCEPT !.pc = "write", !.trust = TrustOf(build.nodes)]
  /\ UNCHANGED <<dist, archive, sums, old, clock, builds>>

\* write_deb writes in place.  Staging has taken at least a second.
File(st) == [st |-> st, name |-> build.name, id |-> builds, built |-> clock',
             nodes |-> build.nodes, trust |-> build.trust]

BeginWrite ==
  /\ build.pc = "write"
  /\ clock' = clock + 1
  /\ dist' = [dist EXCEPT ![build.name] = File("torn")]
  /\ build' = [build EXCEPT !.pc = "writing"]
  /\ UNCHANGED <<archive, sums, old, builds>>

EndWrite ==
  /\ build.pc = "writing"
  /\ dist' = [dist EXCEPT ![build.name].st = "whole"]
  /\ build' = [build EXCEPT !.pc = "sums"]
  /\ UNCHANGED <<archive, sums, old, clock, builds>>

\* The control member is read back, and the digest of the file is written.
WriteSums ==
  /\ build.pc = "sums"
  /\ sums' = [name |-> build.name, id |-> dist[build.name].id]
  /\ build' = NoBuild
  /\ UNCHANGED <<dist, archive, old, clock, builds>>

\* A check raises, or the machine stops.  The temporary directory is gone or
\* never used again; a package that was being written stays as it is, with or
\* without a control member that can be read.
StopBuild ==
  /\ build # NoBuild
  /\ build' = NoBuild
  /\ \/ UNCHANGED dist
     \/ build.pc = "writing" /\ dist' = [dist EXCEPT ![build.name].st = "cut"]
  /\ UNCHANGED <<archive, sums, old, clock, builds>>

-----------------------------------------------------------------------------
\* archive_old: packages whose version can be read, newest first; the newest
\* Keep stay.
Candidates == {dist[n] : n \in {m \in Names : dist[m].st \in {"whole", "cut"}}}
Newer(p, q) == \/ Version[p.name] > Version[q.name]
               \/ Version[p.name] = Version[q.name] /\ p.built > q.built

\* Mutant: one package fewer is left.
OldOneLess == {p \in Candidates : Cardinality({q \in Candidates : Newer(q, p)}) >= Keep - 1}

Old == {p \in Candidates : Cardinality({q \in Candidates : Newer(q, p)}) >= Keep}

StartCleanup ==
  /\ build = NoBuild /\ old = {}
  /\ old' = Old
  /\ UNCHANGED <<dist, archive, sums, build, clock, builds>>

\* Mutant: a file that the archive holds already is replaced.
PlainTarget(p) == <<p.name, 0>>

\* A name that the archive has already gets the time of day.
Target(p) == IF \E a \in archive : a.key = <<p.name, 0>> THEN <<p.name, clock>> ELSE <<p.name, 0>>

\* shutil.move replaces a file of that very name.
ArchiveOne ==
  \E p \in old :
    /\ \A q \in old : q # p => Newer(p, q)
    /\ archive' = {a \in archive : a.key # Target(p)} \cup {[key |-> Target(p), pkg |-> p]}
    /\ dist' = [dist EXCEPT ![p.name] = NoFile]
    /\ old' = old \ {p}
    /\ UNCHANGED <<sums, build, clock, builds>>

StopCleanup ==
  /\ old # {} /\ old' = {}
  /\ UNCHANGED <<dist, archive, sums, build, clock, builds>>

Next ==
  \/ \E n \in Names, tree \in Trees : StartBuild(n, tree)
  \/ CopyTree \/ SignApp \/ RecordFiles \/ BeginWrite \/ EndWrite \/ WriteSums \/ StopBuild
  \/ StartCleanup \/ ArchiveOne \/ StopCleanup

Spec == Init /\ [][Next]_relVars

-----------------------------------------------------------------------------
\* The complete packages, in the directory and in the archive.
Shelf == {dist[n] : n \in {m \in Names : dist[m].st = "whole"}}
Kept == {p \in {a.pkg : a \in archive} : p.st = "whole"}
Store == INSTANCE ReleaseStore WITH shelf <- Shelf, kept <- Kept

\* Builds, cleanups and crashes between their steps implement the store: no
\* complete package is overwritten or lost ("never destroys a rollback
\* artifact"), and none appears under a name that is taken.
ImplementsStore == Store!Spec

SoundPackage(p) ==
  /\ p.nodes \cap ({"link_out", "fifo", "unsigned", "app_rights"} \cup Junk) = {}
  /\ p.trust = p.nodes \cap CodeNodes
  /\ Kind[p.name] = "beta" => p.nodes \cap {"edited", "legacy_tool", "app_code"} = {}
  /\ Kind[p.name] = "standalone" => p.nodes \cap {"link_123", "launcher_123", "app_foreign"} = {}

\* What every complete package installs, on the shelf or archived, and the
\* digest file that is published with it: nothing that escapes the package, no
\* litter, every code file with the hash it is trusted by, an app with the rights
\* it is meant to have; the beta's code matches the signature it is trusted by,
\* and only the beta leans on release 1.2.3.  SHA256SUMS speaks of a complete package.
PackagesSound ==
  /\ \A p \in Shelf \cup Kept : SoundPackage(p)
  /\ sums # NoSums => \E p \in Shelf \cup Kept : p.name = sums.name /\ p.id = sums.id

\* A package leaves the directory only while Keep newer ones that can be read
\* stay there, however cleanups, builds and crashes follow each other.
KeepsNewest ==
  [][\A n \in Names : dist[n].st # "none" /\ dist'[n].st = "none" =>
       Cardinality({p \in Candidates' : Newer(p, dist[n])}) >= Keep]_relVars

\* The shapes of the tables, and their ages: what the archive holds under the
\* name of a package in the directory is older than that package, and a build
\* that has not begun to write owns its free name.
Files == [st : {"torn", "whole", "cut"}, name : Names, id : Nat, built : Nat,
          nodes : SUBSET NodeKinds, trust : SUBSET NodeKinds]
Builds == [pc : {"copy", "app", "record", "write", "writing", "sums"}, name : Names,
           nodes : SUBSET NodeKinds, trust : SUBSET NodeKinds]

ReleaseTypeOK ==
  /\ clock \in Nat /\ builds \in Nat
  /\ dist \in [Names -> Files \cup {NoFile}]
  /\ \A n \in Names : dist[n] \in Files => dist[n].name = n /\ dist[n].built <= clock
  /\ archive \subseteq [key : Names \X Nat, pkg : Files]
  /\ \A a \in archive : a.key[1] = a.pkg.name /\ a.key[2] <= clock
  /\ \A a \in archive, n \in Names :
       dist[n] \in Files /\ a.key[1] = n => a.key[2] < dist[n].built
  /\ build \in Builds \cup {NoBuild}
  /\ build # NoBuild => old = {}
  /\ build.pc \in {"copy", "app", "record", "write"} => dist[build.name] = NoFile
  /\ build.pc = "writing" => dist[build.name].st = "torn"
  /\ build.pc = "sums" => dist[build.name].st = "whole"
  /\ old \subseteq Candidates
=============================================================================
