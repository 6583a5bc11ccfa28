---------------------------- MODULE BinaryPatch ----------------------------
(***************************************************************************)
(* The binary patch scripts of vz/patches and stamp_ios.py: each reads a   *)
(* whole file, checks the bytes it expects, edits a copy in memory and     *)
(* writes the copy back.  All but add_macho_dylib.py write in place, so a  *)
(* crash while they write leaves a torn file.  Scripts may be run again,   *)
(* in any order, on a file that other scripts, install_name_tool and the   *)
(* signer have touched.                                                    *)
(*                                                                         *)
(* A binary is its patch sites, its counted strings, its load commands and *)
(* the words of its header; instruction encodings are abstracted to        *)
(* "orig", "new" (what the script writes) and "other" (another build).     *)
(* `sealed` says whether the signature in the file covers its bytes.       *)
(***************************************************************************)
EXTENDS Integers, Sequences, FiniteSets

CONSTANTS HeaderWords,   \* words before the first section
          CaveAt,        \* where patch_vmm_optional_pvg_reset keeps its code
          MaxGrowth      \* words install_name_tool may add to the commands

\* The cave lies in the header, which has room for the commands of a fresh
\* binary.
ASSUME HeaderAssumption ==
  /\ HeaderWords \in Nat /\ CaveAt \in Nat /\ MaxGrowth \in Nat
  /\ 1 <= CaveAt /\ CaveAt < HeaderWords /\ 3 <= HeaderWords

VARIABLES kind, bin, job, applied, sealed

patchVars == <<kind, bin, job, applied, sealed>>

Idle == [s |-> "none"]
Torn == [torn |-> TRUE]

\* What each script checks and edits: sites that must hold the original word,
\* sites that may already hold the new one, sites written blindly, strings
\* with the number of copies it insists on (0: whatever there is).
Site(strict, tolerant, blind, counted) ==
  [strict |-> strict, tolerant |-> tolerant, blind |-> blind, counted |-> counted]
NoStrings == [s \in {} |-> 0]
Counted(strings) == Site({}, {}, {}, strings)
OptionalDevices == Site({"factory"}, {}, {}, NoStrings)
PciAddress == Site({"pci_call", "socket_string"}, {}, {}, NoStrings)
PvgReset == Site({}, {"reset"}, {}, NoStrings)
ExceptionLog == Site({}, {"log1", "log2"}, {}, NoStrings)
ClassData == Site({"class1", "class2"}, {}, {}, NoStrings)
VirtIos == Site({}, {}, {"confstr", "sandbox"}, NoStrings)
InternetSharing == Site({"logging", "bootpd_check", "rtadvd_check", "natpmp_check"}, {}, {},
                        [s \in {"bootpd_label", "bootpd_path", "rtadvd_path"} |-> 1])
InternetSharing14 == Site({"mtu", "natpmp"}, {}, {}, [s \in {"bootpd_label", "bootpd_path"} |-> 1])
NetworkHelper == Counted([s \in {"bootpd_path", "syslog"} |-> IF s = "syslog" THEN 2 ELSE 1])
Bootpd14 == Counted([s \in {"bootpd_config"} |-> 1])
MobileDevice14 == Counted([s \in {"main_port"} |-> 1])
Vmnet14 == Counted([s \in {"vmnet_key"} |-> 2])
ObjcImports == Counted([s \in {"objc_x0"} |-> 0])
MachoCString == Counted([s \in {"dylib_path"} |-> 1])

Edits ==
  [optional_devices |-> OptionalDevices, pci_address |-> PciAddress, pvg_reset |-> PvgReset,
   exception_log |-> ExceptionLog, class_data |-> ClassData, virt_ios |-> VirtIos,
   internet_sharing |-> InternetSharing, internet_sharing14 |-> InternetSharing14,
   network_helper |-> NetworkHelper, bootpd14 |-> Bootpd14, mobiledevice14 |-> MobileDevice14,
   vmnet14 |-> Vmnet14, objc_imports |-> ObjcImports, macho_cstring |-> MachoCString]

\* The scripts that the builds apply to a kind of binary.
Header == {"add_dylib1", "add_dylib2", "videotoolbox", "stamp"}
ScriptsOf ==
  [vmm |-> {"optional_devices", "pci_address", "pvg_reset", "objc_imports", "vmnet14"} \cup Header,
   sharing |-> {"internet_sharing", "add_dylib1"},
   sharing14 |-> {"internet_sharing14"},
   helper |-> {"network_helper", "add_dylib1"},
   bootpd14 |-> {"bootpd14"},
   framework |-> {"macho_cstring", "exception_log", "class_data", "objc_imports", "virt_ios", "stamp"},
   mobiledevice |-> {"mobiledevice14"},
   netrb |-> {"netrb", "stamp"}]

Candidates == {"lookup", "native_lookup"}     \* of patch_netrb_lookup
TouchedBy(s) == Edits[s].strict \cup Edits[s].tolerant \cup Edits[s].blind
SitesOf(k) == (UNION {TouchedBy(s) : s \in ScriptsOf[k] \cap DOMAIN Edits})
                \cup {x \in Candidates : "netrb" \in ScriptsOf[k]}
StringsOf(k) == UNION {DOMAIN Edits[s].counted : s \in ScriptsOf[k] \cap DOMAIN Edits}

\* A string the file holds n copies of, and what a fresh binary holds.
Copies(s) == IF s \in {"syslog", "vmnet_key", "objc_x0"} THEN 2 ELSE 1
FreshHeader == <<"build", "build", "weak_vt">>
Fresh(k, site) ==
  [torn |-> FALSE,
   site |-> [x \in SitesOf(k) |-> IF x = "native_lookup" THEN "other" ELSE site],
   copies |-> [s \in StringsOf(k) |-> Copies(s)],
   cmds |-> FreshHeader,
   slack |-> [w \in 1 .. HeaderWords |-> IF w <= Len(FreshHeader) THEN "cmd" ELSE "zero"]]

-----------------------------------------------------------------------------
\* The checks: before anything is written, every strict site is original, every
\* tolerant one original or done, and every counted string there as often.
Matches(s, b) ==
  /\ \A x \in Edits[s].strict : b.site[x] = "orig"
  /\ \A x \in Edits[s].tolerant : b.site[x] \in {"orig", "new"}
  /\ \A str \in DOMAIN Edits[s].counted :
       Edits[s].counted[str] # 0 => b.copies[str] = Edits[s].counted[str]

Edited(s, b) ==
  [b EXCEPT
     !.site = [x \in DOMAIN b.site |->
                 IF x \in TouchedBy(s) THEN "new" ELSE b.site[x]],
     !.copies = [str \in DOMAIN b.copies |->
                   IF str \in DOMAIN Edits[s].counted THEN 0 ELSE b.copies[str]]]

\* patch_vmm_optional_pvg_reset: the cave must be empty, but only if the site
\* does not branch there yet.
CaveFree(b) == b.site["reset"] = "orig" => b.slack[CaveAt] = "zero"
WithCave(b) == [b EXCEPT !.slack[CaveAt] = "code"]

\* add_macho_dylib.py: a dylib that is loaded already is not added again; the
\* new command must end before the first section, in words that are zero.
DylibOf == [add_dylib1 |-> "dylib1", add_dylib2 |-> "dylib2"]
Loads(b, name) == \E i \in DOMAIN b.cmds : b.cmds[i] = name

\* Mutant: the command is added whatever is loaded.
NeverLoaded(b, name) == FALSE

AlreadyLoaded(b, name) == Loads(b, name)

\* Mutant: only the room before the first section is checked.
SlackRoomOnly(b) == Len(b.cmds) + 1 <= HeaderWords

SlackFree(b) ==
  /\ Len(b.cmds) + 1 <= HeaderWords
  /\ b.slack[Len(b.cmds) + 1] = "zero"

WithCommand(b, name) ==
  [b EXCEPT !.cmds = Append(b.cmds, name), !.slack[Len(b.cmds) + 1] = "cmd"]

\* stamp_ios.py: the first build version is rewritten and further ones are
\* dropped; the commands that stay keep their order, the table is rebuilt and
\* the words it gave up are cleared.
BuildVersions(b) == {i \in DOMAIN b.cmds : b.cmds[i] \in {"build", "ios"}}
FirstVersion(b) == CHOOSE i \in BuildVersions(b) : \A j \in BuildVersions(b) : i <= j
Staying(b) == (DOMAIN b.cmds \ BuildVersions(b)) \cup {FirstVersion(b)}
Place(b, i) == Cardinality({j \in Staying(b) : j <= i})
Rebuilt(b) ==
  [n \in 1 .. Cardinality(Staying(b)) |->
     LET i == CHOOSE k \in Staying(b) : Place(b, k) = n
     IN  IF i = FirstVersion(b) THEN "ios" ELSE b.cmds[i]]

Stamped(b) ==
  [b EXCEPT !.cmds = Rebuilt(b),
            !.slack = [w \in DOMAIN b.slack |->
                         IF w <= Len(b.cmds) THEN (IF w <= Len(Rebuilt(b)) THEN "cmd" ELSE "zero")
                         ELSE b.slack[w]]]

\* patch_ipados14_vmm_videotoolbox_import.py: exactly one dependency, weak.
StrongVt(b) == [b EXCEPT !.cmds = [i \in DOMAIN b.cmds |->
                  IF b.cmds[i] = "weak_vt" THEN "strong_vt" ELSE b.cmds[i]]]

\* What a script does with a readable file: refuse, find nothing to do, or
\* write a new content.
Outcome(s, b) ==
  CASE s \in {"add_dylib1", "add_dylib2"} ->
         IF AlreadyLoaded(b, DylibOf[s]) THEN [ok |-> TRUE, write |-> FALSE, bin |-> b]
         ELSE IF SlackFree(b) THEN [ok |-> TRUE, write |-> TRUE, bin |-> WithCommand(b, DylibOf[s])]
         ELSE [ok |-> FALSE, write |-> FALSE, bin |-> b]
    [] s = "stamp" ->
         [ok |-> Loads(b, "build") \/ Loads(b, "ios"),
          write |-> Loads(b, "build") \/ Loads(b, "ios"),
          bin |-> IF Loads(b, "build") \/ Loads(b, "ios") THEN Stamped(b) ELSE b]
    [] s = "videotoolbox" ->
         [ok |-> Loads(b, "weak_vt"), write |-> Loads(b, "weak_vt"), bin |-> StrongVt(b)]
    [] s = "netrb" ->                 \* one of two places, never both
         LET at == {x \in Candidates : b.site[x] = "orig"}
         IN  [ok |-> Cardinality(at) = 1, write |-> Cardinality(at) = 1,
              bin |-> [b EXCEPT !.site = [x \in DOMAIN b.site |->
                         IF x \in at /\ Cardinality(at) = 1 THEN "new" ELSE b.site[x]]]]
    [] s = "pvg_reset" ->
         IF Matches(s, b) /\ CaveFree(b)
         THEN [ok |-> TRUE, write |-> TRUE, bin |-> WithCave(Edited(s, b))]
         ELSE [ok |-> FALSE, write |-> FALSE, bin |-> b]
    [] s = "exception_log" ->
         [ok |-> Matches(s, b), write |-> Matches(s, b) /\ Edited(s, b) # b,
          bin |-> IF Matches(s, b) THEN Edited(s, b) ELSE b]
    [] OTHER ->
         [ok |-> Matches(s, b), write |-> Matches(s, b),
          bin |-> IF Matches(s, b) THEN Edited(s, b) ELSE b]

\* add_macho_dylib.py replaces the file, stamp_ios.py writes a new one that the
\* build moves into place, signed.
Atomic(s) == s \in {"add_dylib1", "add_dylib2", "stamp"}
Seals(s) == s = "stamp"

PatchInit ==
  /\ kind \in DOMAIN ScriptsOf
  /\ \E site \in {"orig", "other"} : bin = Fresh(kind, site)
  /\ job = Idle /\ applied = {} /\ sealed = FALSE

\* A build starts from a copy of the original.
CopyFresh ==
  /\ job = Idle
  /\ bin' = Fresh(kind, "orig")
  /\ applied' = {} /\ sealed' = FALSE
  /\ UNCHANGED <<kind, job>>

RunScript(s) ==
  /\ job = Idle /\ ~bin.torn
  /\ LET o == Outcome(s, bin)
         same == sealed /\ o.bin = bin
     IN  /\ o.ok
         /\ IF o.write /\ ~Atomic(s)
            THEN /\ job' = [s |-> s, bin |-> o.bin, sealed |-> same]
                 /\ bin' = Torn /\ sealed' = FALSE /\ UNCHANGED applied
            ELSE /\ bin' = o.bin /\ sealed' = (same \/ Seals(s))
                 /\ applied' = applied \cup {s} /\ UNCHANGED job
  /\ UNCHANGED kind

FinishWrite ==
  /\ job # Idle
  /\ bin' = job.bin /\ sealed' = job.sealed
  /\ applied' = applied \cup {job.s} /\ job' = Idle
  /\ UNCHANGED kind

CrashWriting ==
  /\ job # Idle
  /\ job' = Idle
  /\ UNCHANGED <<kind, bin, applied, sealed>>

\* A truncated file may still hold every byte a script looks for: the script
\* reports success and the file stays truncated.
RunOnTorn(s) ==
  /\ job = Idle /\ bin.torn
  /\ applied' = applied \cup {s}
  /\ UNCHANGED <<kind, bin, job, sealed>>

\* install_name_tool knows sections, not caves: it is only run where the
\* commands of the variant still end before the cave.
Renamed(b) == Cardinality({i \in DOMAIN b.cmds : b.cmds[i] = "path"})
InstallNameTool ==
  /\ job = Idle /\ ~bin.torn
  /\ Renamed(bin) < MaxGrowth /\ Len(bin.cmds) + 1 < CaveAt
  /\ bin' = WithCommand(bin, "path") /\ sealed' = FALSE
  /\ UNCHANGED <<kind, job, applied>>

\* codesign and ldid read the whole file and refuse a truncated one.
Sign ==
  /\ job = Idle /\ ~bin.torn
  /\ sealed' = TRUE
  /\ UNCHANGED <<kind, bin, job, applied>>

PatchNext ==
  \/ CopyFresh \/ FinishWrite \/ CrashWriting \/ InstallNameTool \/ Sign
  \/ \E s \in ScriptsOf[kind] : RunScript(s) \/ RunOnTorn(s)

-----------------------------------------------------------------------------
Present(s, b) ==
  CASE s \in DOMAIN DylibOf -> Loads(b, DylibOf[s])
    [] s = "stamp" -> Loads(b, "ios") /\ ~Loads(b, "build")
    [] s = "videotoolbox" -> Loads(b, "strong_vt") /\ ~Loads(b, "weak_vt")
    [] s = "netrb" -> b.site["lookup"] = "new"
    [] OTHER ->
         /\ \A x \in TouchedBy(s) : b.site[x] = "new"
         /\ \A str \in DOMAIN Edits[s].counted : b.copies[str] = 0
         /\ s = "pvg_reset" => b.slack[CaveAt] = "code"

\* Whatever other scripts, the linker tool and crashes did in between, a file
\* that is whole again holds every edit a script reported since the last fresh
\* copy, and its command table is not overwritten: the cave code and the load
\* commands that share the header's slack never destroy each other.
PatchesStick ==
  ~bin.torn =>
    /\ \A s \in applied : Present(s, bin)
    /\ \A w \in 1 .. Len(bin.cmds) : bin.slack[w] = "cmd"

\* A script that is run again on a file that has its edits does not change it:
\* it refuses, finds nothing to do or writes the same bytes.
RerunStable ==
  [][~bin.torn /\ bin' # bin => \A s \in applied :
       Present(s, bin) /\ RunScript(s) => job' # Idle /\ job'.bin = bin]_patchVars
=============================================================================
