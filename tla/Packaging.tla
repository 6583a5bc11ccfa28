----------------------------- MODULE Packaging -----------------------------
(***************************************************************************)
(* package-virtualmac2.py: builds the deployment of the isolated runtime   *)
(* from binaries that are there already.  One run stages files under an    *)
(* output directory that earlier runs have used, rewrites and signs the    *)
(* app in place, verifies every code file, and writes a trust list, two    *)
(* archives and a manifest.  A run ends anywhere: by a check that raises   *)
(* or by a crash; what it had written stays, the file it was writing is    *)
(* torn.  The next run starts over in the same directory.                  *)
(*                                                                         *)
(* The VMM comes out of BinaryPatch: the scripts make the original         *)
(* payload, the package takes a copy of it.  Contents are abstracted to    *)
(* the run that wrote a file and whether its signature verifies.           *)
(***************************************************************************)
EXTENDS BinaryPatch

CONSTANTS MaxRuns,     \* packaging runs
          Variants     \* the sets of patches a finished payload may carry

ASSUME PackagingAssumption == MaxRuns \in Nat /\ Variants \subseteq SUBSET ScriptsOf["vmm"]

VARIABLES pc, opt, runs, stage, vmm, app, hashes, trust, deploy, appTar, manifest

packVars == <<pc, opt, runs, stage, vmm, app, hashes, trust, deploy, appTar, manifest>>

-----------------------------------------------------------------------------
\* Files below stage/.  A stray is a file some other tool left there.
CompilerFiles == {"c1", "c2"}
CacheFiles == {"s1", "s2"}
Strays == {"compiler27/stray", "testing/stray"}
Code(o) == (IF o.compiler THEN CompilerFiles ELSE {}) \cup {"lib", "task"}
Metadata(o) == (IF o.compiler THEN {"profile"} ELSE {}) \cup {"taskinfo"}
                 \cup (IF o.cache THEN CacheFiles \cup {"smanifest"} ELSE {})
StagePaths == CompilerFiles \cup CacheFiles \cup
                {"profile", "smanifest", "lib", "task", "taskinfo"} \cup Strays

\* Run 0: not there; verifies: the signature holds, or the file needs none.
Absent == [run |-> 0, verifies |-> FALSE]
Broken == [run |-> -1, verifies |-> FALSE]
NoVmm == [torn |-> TRUE, sealed |-> FALSE]
NoArchive == [run |-> 0]
TornArchive == [run |-> -1]
Whole(archive) == archive.run > 0

\* What is wrong with the inputs of a run, if anything.
Defects == {"none", "compiler", "cache", "task", "unsigned"}
Options == [version : 1 .. 2, compiler : BOOLEAN, cache : BOOLEAN, prebuilt : BOOLEAN,
            preserve : BOOLEAN, defect : Defects]
NoOptions == [version |-> 1, compiler |-> FALSE, cache |-> FALSE, prebuilt |-> FALSE,
              preserve |-> FALSE, defect |-> "none"]
Sensible(o) == /\ o.defect = "compiler" => o.compiler
               /\ o.defect = "cache" => o.cache

\* The app bundle: the version in Info.plist, the executable with what its
\* signature binds, the host library, the sealed resources.
Exe(id, binds) == [id |-> id, binds |-> binds]
TornExe == Exe("torn", 0)
Apps == {[info |-> 0, exe |-> Exe("build", 0), lib |-> TRUE, res |-> 0],
         [info |-> 1, exe |-> Exe("v2", 0), lib |-> TRUE, res |-> 0]}

PackInit ==
  /\ pc = "idle" /\ runs = 0
  /\ opt = NoOptions
  /\ \E stray \in Strays : stage = [p \in StagePaths |-> IF p = stray THEN Broken ELSE Absent]
  /\ vmm = NoVmm /\ app \in Apps
  /\ hashes = {} /\ trust = {}
  /\ deploy = NoArchive /\ appTar = NoArchive /\ manifest = NoArchive

\* The payload is a finished, signed build that later runs do not change.
Finished == /\ kind = "vmm" /\ job = Idle /\ ~bin.torn /\ sealed
            /\ applied \in Variants

StartPackaging ==
  /\ pc = "idle" /\ runs < MaxRuns /\ Finished
  /\ opt' \in {o \in Options : Sensible(o)}
  /\ runs' = runs + 1 /\ pc' = "compiler" /\ hashes' = {}
  /\ UNCHANGED <<patchVars, stage, vmm, app, trust, deploy, appTar, manifest>>

-----------------------------------------------------------------------------
\* The files a step stages, in the order it writes them.
CompilerGroup == IF opt.compiler THEN <<"c1", "c2", "profile">> ELSE <<>>
CacheGroup == IF opt.cache THEN <<"s1", "s2", "smanifest">> ELSE <<>>
RuntimeGroup == <<"lib", "task", "taskinfo">>
Group ==
  CASE pc = "compiler" -> CompilerGroup
    [] pc = "cache" -> CacheGroup
    [] pc = "runtime" -> RuntimeGroup
    [] OTHER -> <<>>

\* stage_compiler_runtime checks profile, sizes, hashes, platforms and
\* dependencies of all files before it writes one; stage_shader_cache checks
\* an entry when it comes to it; the task's dependency is checked behind its
\* copy.  How many files of its group a step writes:
CompilerChecked == IF opt.defect = "compiler" THEN 0 ELSE Len(Group)
CacheChecked == IF opt.defect = "cache" THEN 1 ELSE Len(Group)
TaskChecked == IF opt.defect = "task" THEN 2 ELSE Len(Group)
Checked ==
  CASE pc = "compiler" -> CompilerChecked
    [] pc = "cache" -> CacheChecked
    [] pc = "runtime" -> TaskChecked
    [] OTHER -> Len(Group)

\* No file that the profile does not name may be in the compiler's directory.
NoUnlisted == pc = "compiler" /\ opt.compiler => stage["compiler27/stray"] = Absent

Input(p) == [run |-> runs, verifies |-> ~(p = "lib" /\ opt.defect = "unsigned")]
Staged(n) == [p \in StagePaths |-> IF \E i \in 1 .. n : Group[i] = p THEN Input(p) ELSE stage[p]]

StageGroup ==
  /\ pc \in {"compiler", "cache", "runtime"}
  /\ NoUnlisted /\ Checked = Len(Group)
  /\ stage' = Staged(Len(Group))
  /\ pc' = CASE pc = "compiler" -> "cache" [] pc = "cache" -> "runtime" [] OTHER -> "vmm"
  /\ UNCHANGED <<patchVars, opt, runs, vmm, app, hashes, trust, deploy, appTar, manifest>>

\* The VMM: an exact copy of a prebuilt one, which must load both libraries,
\* or a copy that add_macho_dylib.py makes load them and codesign signs.
Payload == [torn |-> FALSE, bin |-> bin, sealed |-> sealed]
Prebuilt == {Payload} \cup (IF Whole(deploy) THEN {deploy.vmm} ELSE {})

\* dylib_dependencies, of the libraries the package is interested in.
Dependencies(b) == {b.cmds[i] : i \in DOMAIN b.cmds}

\* Mutant: a prebuilt VMM is taken as it is.
LoadsAny(b) == TRUE

LoadsBoth(b) == \A s \in DOMAIN DylibOf : DylibOf[s] \in Dependencies(b)

CopyVmm ==
  /\ pc = "vmm"
  /\ vmm' \in IF opt.prebuilt THEN Prebuilt ELSE {Payload}
  /\ pc' = IF opt.prebuilt THEN "check_vmm" ELSE "add_dylib1"
  /\ UNCHANGED <<patchVars, opt, runs, stage, app, hashes, trust, deploy, appTar, manifest>>

CheckPrebuilt ==
  /\ pc = "check_vmm" /\ LoadsBoth(vmm.bin)
  /\ pc' = "app"
  /\ UNCHANGED <<patchVars, opt, runs, stage, vmm, app, hashes, trust, deploy, appTar, manifest>>

AddDependency ==
  /\ pc \in DOMAIN DylibOf
  /\ LET o == Outcome(pc, vmm.bin)
     IN  /\ o.ok
         /\ vmm' = [vmm EXCEPT !.bin = o.bin, !.sealed = @ /\ o.bin = vmm.bin]
  /\ pc' = IF pc = "add_dylib1" THEN "add_dylib2" ELSE "sign_vmm"
  /\ UNCHANGED <<patchVars, opt, runs, stage, app, hashes, trust, deploy, appTar, manifest>>

SignVmm ==
  /\ pc = "sign_vmm"
  /\ vmm' = [vmm EXCEPT !.sealed = TRUE]
  /\ pc' = "app"
  /\ UNCHANGED <<patchVars, opt, runs, stage, app, hashes, trust, deploy, appTar, manifest>>

-----------------------------------------------------------------------------
\* The app: either it is configured and signed already and is left alone, or
\* Info.plist is rewritten in place, the bundle is signed in a temporary copy
\* and the signed files are copied back one after the other.
Preserved ==
  /\ pc = "app" /\ opt.preserve
  /\ app.info = opt.version /\ app.exe.id = "v2"
  /\ pc' = "verify"
  /\ UNCHANGED <<patchVars, opt, runs, stage, vmm, app, hashes, trust, deploy, appTar, manifest>>

Configured(a, step) ==
  CASE step = "app" -> [a EXCEPT !.info = opt.version]
    [] step = "app_exe" -> [a EXCEPT !.exe = Exe("v2", opt.version)]
    [] step = "app_lib" -> [a EXCEPT !.lib = TRUE]
    [] step = "app_unseal" -> [a EXCEPT !.res = 0]
    [] step = "app_seal" -> [a EXCEPT !.res = opt.version]
After(step) ==
  CASE step = "app" -> "app_exe" [] step = "app_exe" -> "app_lib" [] step = "app_lib" -> "app_unseal"
    [] step = "app_unseal" -> "app_seal" [] step = "app_seal" -> "verify"

Readable(a) == a.info >= 0
Signable(a) == a.exe.id # "torn" /\ a.lib

ConfigureApp ==
  /\ \/ pc = "app" /\ ~opt.preserve /\ Readable(app)
     \/ pc = "app_exe" /\ Signable(app)
     \/ pc \in {"app_lib", "app_unseal", "app_seal"}
  /\ app' = Configured(app, pc) /\ pc' = After(pc)
  /\ UNCHANGED <<patchVars, opt, runs, stage, vmm, hashes, trust, deploy, appTar, manifest>>

\* An executable whose signature binds Info.plist is verified in its bundle,
\* one that was signed by itself is verified by itself.
ExeVerifies == /\ app.exe.id # "torn"
               /\ app.exe.binds # 0 => app.exe.binds = app.info /\ app.res = app.info /\ app.lib

\* Every code file that is to be deployed verifies, and its hash is noted.
Verified == {<<p, stage[p]>> : p \in Code(opt)} \cup
              {<<"vmm", vmm>>, <<"exe", app.exe>>, <<"applib", app.lib>>}
Verify ==
  /\ pc = "verify"
  /\ \A p \in Code(opt) : stage[p].verifies
  /\ vmm.sealed /\ ExeVerifies /\ app.lib
  /\ hashes' = Verified /\ pc' = "trust"
  /\ UNCHANGED <<patchVars, opt, runs, stage, vmm, app, trust, deploy, appTar, manifest>>

WriteTrust ==
  /\ pc = "trust"
  /\ trust' = hashes /\ pc' = "deploy"
  /\ UNCHANGED <<patchVars, opt, runs, stage, vmm, app, hashes, deploy, appTar, manifest>>

\* The archive takes the paths of this run, not what the directory holds.
Members == Code(opt) \cup Metadata(opt)

WriteDeploy ==
  /\ pc = "deploy"
  /\ deploy' = [run |-> runs, code |-> {<<p, stage[p]>> : p \in Members}, vmm |-> vmm, trust |-> trust]
  /\ pc' = "app_tar"
  /\ UNCHANGED <<patchVars, opt, runs, stage, vmm, app, hashes, trust, appTar, manifest>>

AppArchive == [run |-> runs, app |-> app]

WriteAppTar ==
  /\ pc = "app_tar"
  /\ appTar' = AppArchive
  /\ pc' = "manifest"
  /\ UNCHANGED <<patchVars, opt, runs, stage, vmm, app, hashes, trust, deploy, manifest>>

WriteManifest ==
  /\ pc = "manifest"
  /\ manifest' = [run |-> runs, version |-> opt.version, hashes |-> hashes]
  /\ pc' = "idle" /\ opt' = NoOptions /\ hashes' = {}
  /\ UNCHANGED <<patchVars, runs, stage, vmm, app, trust, deploy, appTar>>

\* The run ends early.  What it had staged stays, and the file it was writing
\* is torn; whatever it had not come to is what earlier runs left.
TornStage(n) == [p \in StagePaths |-> IF n < Len(Group) /\ Group[n + 1] = p THEN Broken ELSE Staged(n)[p]]
TornApp == CASE pc = "app" /\ ~opt.preserve -> {app, [app EXCEPT !.info = -1]}
             [] pc = "app_exe" -> {app, [app EXCEPT !.exe = TornExe]}
             [] pc = "app_lib" -> {app, [app EXCEPT !.lib = FALSE]}
             [] OTHER -> {app}

Abort ==
  /\ pc # "idle" /\ pc' = "idle"
  /\ \E n \in 0 .. Checked : stage' \in {Staged(n)} \cup (IF n < Checked THEN {TornStage(n)} ELSE {})
  /\ vmm' \in {vmm} \cup (IF pc = "vmm" THEN {NoVmm} ELSE {})
  /\ app' \in TornApp
  /\ trust' \in {trust} \cup (IF pc = "trust" THEN {{}} ELSE {})
  /\ deploy' \in {deploy} \cup (IF pc = "deploy" THEN {TornArchive} ELSE {})
  /\ appTar' \in {appTar} \cup (IF pc = "app_tar" THEN {TornArchive} ELSE {})
  /\ manifest' \in {manifest} \cup (IF pc = "manifest" THEN {TornArchive} ELSE {})
  /\ hashes' = {} /\ opt' = NoOptions
  /\ UNCHANGED <<patchVars, runs>>

\* A new build of the app replaces what an interrupted run left of it.
RebuildApp ==
  /\ pc = "idle" /\ runs > 0
  /\ app' \in Apps
  /\ UNCHANGED <<patchVars, pc, opt, runs, stage, vmm, hashes, trust, deploy, appTar, manifest>>

Init == PatchInit /\ PackInit
Patching == pc = "idle" /\ runs = 0 /\ PatchNext /\ UNCHANGED packVars
Packing ==
  \/ StartPackaging \/ StageGroup \/ CopyVmm \/ CheckPrebuilt \/ AddDependency \/ SignVmm
  \/ Preserved \/ ConfigureApp \/ Verify \/ WriteTrust
  \/ WriteDeploy \/ WriteAppTar \/ WriteManifest \/ Abort \/ RebuildApp
Next == Patching \/ Packing

vars == <<patchVars, packVars>>
Spec == Init /\ [][Next]_vars

-----------------------------------------------------------------------------
\* Whatever earlier runs, crashes and other tools left in the directory: a
\* complete deployment archive holds files of its own run only, every code
\* file verifies and its hash is in the archived trust list, and the list
\* trusts nothing of another run.
DeployTrusted ==
  Whole(deploy) =>
    /\ \A m \in deploy.code : m[2].run = deploy.run /\ m[2].verifies
    /\ \A m \in deploy.code : m[1] \in {"lib", "task"} \cup CompilerFiles => m \in deploy.trust
    /\ <<"vmm", deploy.vmm>> \in deploy.trust
    /\ \A h \in deploy.trust : h \in deploy.code \/ h[1] \in {"vmm", "exe", "applib"}

\* The archived VMM holds every patch its payload was built with, loads both
\* libraries of the modern runtime, and its signature covers all of that.
DeployedVmm ==
  Whole(deploy) =>
    /\ deploy.vmm.sealed
    /\ \A s \in applied \cup DOMAIN DylibOf : Present(s, deploy.vmm.bin)
    /\ \A w \in 1 .. Len(deploy.vmm.bin.cmds) : deploy.vmm.bin.slack[w] = "cmd"

\* The archived app is whole, and a signature that binds its Info.plist binds
\* the one that is archived, whatever run was interrupted while it signed.
ArchivedApp ==
  Whole(appTar) =>
    LET a == appTar.app
    IN  /\ a.exe.id = "v2" /\ a.lib
        /\ a.exe.binds # 0 => a.exe.binds = a.info /\ a.res = a.info

\* Unless a later run has started, the manifest describes both archives: they
\* are whole, of its run and version, and what it lists is what is trusted.
ManifestDescribes ==
  manifest.run = runs /\ runs > 0 =>
    /\ deploy.run = runs /\ appTar.run = runs
    /\ manifest.hashes = deploy.trust
    /\ appTar.app.info = manifest.version
    /\ <<"exe", appTar.app.exe>> \in deploy.trust

\* What package-virtualmac2.py leaves for deployment, in its four parts.
DeploymentSound == DeployTrusted /\ DeployedVmm /\ ArchivedApp /\ ManifestDescribes
=============================================================================
