-------------------------- MODULE PackagingProofs --------------------------
(***************************************************************************)
(* The patch scripts and the packaging run, proved for every size of the   *)
(* header, every place of the cave in it, any growth by install_name_tool, *)
(* any number of packaging runs and any variants of the payload.           *)
(*                                                                         *)
(* The argument about the scripts is that no script undoes what another    *)
(* has done: sites only turn new, strings only vanish, and the words of    *)
(* the header belong to the command table or to the cave, never to both.   *)
(* Packaging adds what a run knows of its directory at each of its steps.  *)
(***************************************************************************)
EXTENDS Packaging, FiniteSetTheorems, TLAPS

SiteStates == {"orig", "new", "other"}
Words == {"cmd", "zero", "code"}
Commands == {"build", "ios", "weak_vt", "strong_vt", "dylib1", "dylib2", "path"}

Binaries(k) ==
  [torn : {FALSE}, site : [SitesOf(k) -> SiteStates], copies : [StringsOf(k) -> Nat],
   cmds : Seq(Commands), slack : [1 .. HeaderWords -> Words]]

\* What a readable file of kind k is like: its table lies in the header, the
\* cave is not part of it, and a file that is stamped has one build version.
Sound(k, b) ==
  /\ b \in Binaries(k)
  /\ Len(b.cmds) <= HeaderWords
  /\ \A w \in 1 .. Len(b.cmds) : b.slack[w] = "cmd"
  /\ "reset" \in SitesOf(k) /\ b.site["reset"] = "new" => b.slack[CaveAt] = "code"
  /\ "native_lookup" \in SitesOf(k) => b.site["native_lookup"] # "orig"
  /\ \A i, j \in DOMAIN b.cmds :
       b.cmds[i] = "ios" /\ b.cmds[j] \in {"build", "ios"} => i = j

\* What no script takes back.
Keeps(k, b, c) ==
  /\ \A x \in SitesOf(k) : b.site[x] = "new" => c.site[x] = "new"
  /\ \A str \in StringsOf(k) : b.copies[str] = 0 => c.copies[str] = 0
  /\ b.slack[CaveAt] = "code" => c.slack[CaveAt] = "code"
  /\ \A name \in {"dylib1", "dylib2", "ios", "strong_vt"} : Loads(b, name) => Loads(c, name)
  /\ \A name \in {"build", "weak_vt"} : ~Loads(b, name) => ~Loads(c, name)

-----------------------------------------------------------------------------
\* The tables of scripts.
LEMMA ScriptNames ==
  /\ DOMAIN Edits =
       {"optional_devices", "pci_address", "pvg_reset", "exception_log", "class_data", "virt_ios",
        "internet_sharing", "internet_sharing14", "network_helper", "bootpd14", "mobiledevice14",
        "vmnet14", "objc_imports", "macho_cstring"}
  /\ DOMAIN DylibOf = {"add_dylib1", "add_dylib2"}
  /\ DylibOf["add_dylib1"] = "dylib1" /\ DylibOf["add_dylib2"] = "dylib2"
  /\ Edits["pvg_reset"] = PvgReset
  BY DEF Edits, DylibOf

LEMMA KnownKinds ==
  DOMAIN ScriptsOf = {"vmm", "sharing", "sharing14", "helper", "bootpd14", "framework",
                      "mobiledevice", "netrb"}
  BY DEF ScriptsOf

LEMMA KnownScripts ==
  ASSUME NEW k \in DOMAIN ScriptsOf, NEW s \in ScriptsOf[k]
  PROVE  s \in DOMAIN Edits \cup {"add_dylib1", "add_dylib2", "videotoolbox", "stamp", "netrb"}
<1> USE ScriptNames DEF ScriptsOf, Header
<1>1. CASE k = "vmm" BY <1>1
<1>2. CASE k = "sharing" BY <1>2
<1>3. CASE k = "sharing14" BY <1>3
<1>4. CASE k = "helper" BY <1>4
<1>5. CASE k = "bootpd14" BY <1>5
<1>6. CASE k = "framework" BY <1>6
<1>7. CASE k = "mobiledevice" BY <1>7
<1>8. CASE k = "netrb" BY <1>8
<1> QED BY KnownKinds, <1>1, <1>2, <1>3, <1>4, <1>5, <1>6, <1>7, <1>8

LEMMA SitesAre ==
  ASSUME NEW k \in DOMAIN ScriptsOf, NEW s \in ScriptsOf[k]
  PROVE  /\ s \in DOMAIN Edits => TouchedBy(s) \subseteq SitesOf(k)
         /\ s \in DOMAIN Edits => DOMAIN Edits[s].counted \subseteq StringsOf(k)
         /\ s = "netrb" => Candidates \subseteq SitesOf(k)
<1>1. ASSUME s \in DOMAIN Edits PROVE TouchedBy(s) \subseteq SitesOf(k)
  BY <1>1 DEF SitesOf
<1>2. ASSUME s \in DOMAIN Edits PROVE DOMAIN Edits[s].counted \subseteq StringsOf(k)
  BY <1>2, Zenon DEF StringsOf
<1>3. ASSUME s = "netrb" PROVE Candidates \subseteq SitesOf(k)
  BY <1>3 DEF SitesOf
<1> QED BY <1>1, <1>2, <1>3

LEMMA TouchedSites ==
  ASSUME NEW s \in DOMAIN Edits
  PROVE  /\ "reset" \in TouchedBy(s) => s = "pvg_reset"
         /\ "native_lookup" \notin TouchedBy(s)
<1> USE DEF TouchedBy, Edits, Site, Counted, NoStrings
<1>1. CASE s = "optional_devices" BY <1>1 DEF OptionalDevices
<1>2. CASE s = "pci_address" BY <1>2 DEF PciAddress
<1>3. CASE s = "pvg_reset" BY <1>3 DEF PvgReset
<1>4. CASE s = "exception_log" BY <1>4 DEF ExceptionLog
<1>5. CASE s = "class_data" BY <1>5 DEF ClassData
<1>6. CASE s = "virt_ios" BY <1>6 DEF VirtIos
<1>7. CASE s = "internet_sharing" BY <1>7 DEF InternetSharing
<1>8. CASE s = "internet_sharing14" BY <1>8 DEF InternetSharing14
<1>9. CASE s = "network_helper" BY <1>9 DEF NetworkHelper
<1>10. CASE s = "bootpd14" BY <1>10 DEF Bootpd14
<1>11. CASE s = "mobiledevice14" BY <1>11 DEF MobileDevice14
<1>12. CASE s = "vmnet14" BY <1>12 DEF Vmnet14
<1>13. CASE s = "objc_imports" BY <1>13 DEF ObjcImports
<1>14. CASE s = "macho_cstring" BY <1>14 DEF MachoCString
<1> QED BY ScriptNames, <1>1, <1>2, <1>3, <1>4, <1>5, <1>6, <1>7, <1>8, <1>9, <1>10, <1>11,
           <1>12, <1>13, <1>14

\* What a file holds stays there as long as nothing is taken back.
LEMMA PresentKept ==
  ASSUME NEW k \in DOMAIN ScriptsOf, NEW t \in ScriptsOf[k], NEW b, NEW c,
         Keeps(k, b, c), Present(t, b)
  PROVE  Present(t, c)
<1>1. CASE t \in {"add_dylib1", "add_dylib2"}
  BY <1>1, ScriptNames DEF Keeps, Present
<1>2. CASE t = "stamp"
  BY <1>2, ScriptNames DEF Keeps, Present
<1>3. CASE t = "videotoolbox"
  BY <1>3, ScriptNames DEF Keeps, Present
<1>4. CASE t = "netrb"
  BY <1>4, ScriptNames, SitesAre DEF Keeps, Present, Candidates
<1>5. CASE t \in DOMAIN Edits
  <2>1. /\ \A x \in TouchedBy(t) : b.site[x] = "new"
        /\ \A str \in DOMAIN Edits[t].counted : b.copies[str] = 0
        /\ t = "pvg_reset" => b.slack[CaveAt] = "code"
    BY <1>5, ScriptNames DEF Present
  <2>2. /\ \A x \in TouchedBy(t) : c.site[x] = "new"
        /\ \A str \in DOMAIN Edits[t].counted : c.copies[str] = 0
        /\ t = "pvg_reset" => c.slack[CaveAt] = "code"
    BY <1>5, <2>1, SitesAre DEF Keeps
  <2> QED BY <1>5, <2>2, ScriptNames DEF Present
<1> QED BY <1>1, <1>2, <1>3, <1>4, <1>5, KnownScripts

-----------------------------------------------------------------------------
\* The edits of a file, one by one.
LEMMA Fields ==
  ASSUME NEW k, NEW b \in Binaries(k)
  PROVE  /\ b.torn = FALSE /\ b.site \in [SitesOf(k) -> SiteStates]
         /\ b.copies \in [StringsOf(k) -> Nat] /\ b.cmds \in Seq(Commands)
         /\ b.slack \in [1 .. HeaderWords -> Words] /\ Len(b.cmds) \in Nat
         /\ DOMAIN b.cmds = 1 .. Len(b.cmds)
         /\ \A i \in 1 .. Len(b.cmds) : b.cmds[i] \in Commands
<1>1. /\ b.torn = FALSE /\ b.site \in [SitesOf(k) -> SiteStates]
      /\ b.copies \in [StringsOf(k) -> Nat] /\ b.cmds \in Seq(Commands)
      /\ b.slack \in [1 .. HeaderWords -> Words]
  BY DEF Binaries
<1> QED BY <1>1

\* Two files with the same fields are the same.
LEMMA SameFile ==
  ASSUME NEW k, NEW b \in Binaries(k), NEW c \in Binaries(k),
         b.site = c.site, b.copies = c.copies, b.cmds = c.cmds, b.slack = c.slack
  PROVE  b = c
<1>1. /\ b = [torn |-> FALSE, site |-> b.site, copies |-> b.copies, cmds |-> b.cmds, slack |-> b.slack]
      /\ c = [torn |-> FALSE, site |-> c.site, copies |-> c.copies, cmds |-> c.cmds, slack |-> c.slack]
  BY DEF Binaries
<1> QED BY <1>1

LEMMA SameWords ==
  ASSUME NEW S, NEW T, NEW f \in [S -> T], NEW x \in S, NEW v, f[x] = v
  PROVE  [f EXCEPT ![x] = v] = f
  OBVIOUS

LEMMA EditedFile ==
  ASSUME NEW k \in DOMAIN ScriptsOf, NEW s \in ScriptsOf[k], s \in DOMAIN Edits, NEW b, Sound(k, b)
  PROVE  LET c == Edited(s, b)
         IN  /\ c \in Binaries(k) /\ c.cmds = b.cmds /\ c.slack = b.slack
             /\ \A x \in SitesOf(k) : c.site[x] = IF x \in TouchedBy(s) THEN "new" ELSE b.site[x]
             /\ \A x \in TouchedBy(s) : c.site[x] = "new"
             /\ \A str \in DOMAIN Edits[s].counted : c.copies[str] = 0
             /\ Keeps(k, b, c)
             /\ Present(s, b) => c = b
<1> DEFINE site == [x \in SitesOf(k) |-> IF x \in TouchedBy(s) THEN "new" ELSE b.site[x]]
           copies == [str \in StringsOf(k) |->
                        IF str \in DOMAIN Edits[s].counted THEN 0 ELSE b.copies[str]]
           c == [b EXCEPT !.site = site, !.copies = copies]
<1>0. b \in Binaries(k)
  BY DEF Sound
<1>1. Edited(s, b) = c
  <2>1. DOMAIN b.site = SitesOf(k) /\ DOMAIN b.copies = StringsOf(k)
    BY <1>0, Fields
  <2> QED BY <2>1 DEF Edited
<1>2. site \in [SitesOf(k) -> SiteStates]
  <2>1. \A x \in SitesOf(k) : b.site[x] \in SiteStates
    BY <1>0, Fields
  <2>2. "new" \in SiteStates
    BY DEF SiteStates
  <2> QED BY <2>1, <2>2
<1>3. copies \in [StringsOf(k) -> Nat]
  BY <1>0, Fields
<1> HIDE DEF site, copies
<1>4. /\ c \in Binaries(k) /\ c.cmds = b.cmds /\ c.slack = b.slack
      /\ c.site = site /\ c.copies = copies
  BY <1>0, <1>2, <1>3 DEF Binaries
<1> HIDE DEF c
<1>5. /\ \A x \in SitesOf(k) : c.site[x] = IF x \in TouchedBy(s) THEN "new" ELSE b.site[x]
      /\ \A x \in TouchedBy(s) : c.site[x] = "new"
  BY <1>4, SitesAre DEF site
<1>6. /\ \A str \in StringsOf(k) : c.copies[str] =
             IF str \in DOMAIN Edits[s].counted THEN 0 ELSE b.copies[str]
      /\ \A str \in DOMAIN Edits[s].counted : c.copies[str] = 0
  BY <1>4, SitesAre DEF copies
<1>7. Keeps(k, b, c)
  BY <1>4, <1>5, <1>6 DEF Keeps, Loads
<1>8. ASSUME Present(s, b) PROVE c = b
  <2>1. /\ \A x \in TouchedBy(s) : b.site[x] = "new"
        /\ \A str \in DOMAIN Edits[s].counted : b.copies[str] = 0
    BY <1>8, ScriptNames DEF Present
  <2>2. site = b.site
    <3>1. b.site = [x \in SitesOf(k) |-> b.site[x]]
      BY <1>0, Fields
    <3> QED BY <2>1, <3>1 DEF site
  <2>3. copies = b.copies
    <3>1. b.copies = [str \in StringsOf(k) |-> b.copies[str]]
      BY <1>0, Fields
    <3> QED BY <2>1, <3>1 DEF copies
  <2> QED BY <1>0, <1>4, <2>2, <2>3, SameFile
<1> QED BY <1>1, <1>4, <1>5, <1>6, <1>7, <1>8

\* A file with the same commands and header as a sound one.
LEMMA SoundSites ==
  ASSUME NEW k, NEW b, NEW c, Sound(k, b), c \in Binaries(k),
         c.cmds = b.cmds, c.slack = b.slack,
         "reset" \in SitesOf(k) /\ c.site["reset"] = "new" => b.site["reset"] = "new",
         "native_lookup" \in SitesOf(k) => c.site["native_lookup"] # "orig"
  PROVE  Sound(k, c)
  BY DEF Sound

\* The scripts of module BinaryPatch that only edit sites and strings.
LEMMA PlainScript ==
  ASSUME NEW k \in DOMAIN ScriptsOf, NEW s \in ScriptsOf[k], s \in DOMAIN Edits,
         s # "pvg_reset", NEW b, Sound(k, b)
  PROVE  LET c == Edited(s, b)
         IN  Sound(k, c) /\ Keeps(k, b, c) /\ Present(s, c) /\ (Present(s, b) => c = b)
<1> DEFINE c == Edited(s, b)
<1>1. /\ c \in Binaries(k) /\ c.cmds = b.cmds /\ c.slack = b.slack
      /\ \A x \in SitesOf(k) : c.site[x] = IF x \in TouchedBy(s) THEN "new" ELSE b.site[x]
      /\ \A x \in TouchedBy(s) : c.site[x] = "new"
      /\ \A str \in DOMAIN Edits[s].counted : c.copies[str] = 0
      /\ Keeps(k, b, c)
      /\ Present(s, b) => c = b
  BY EditedFile
<1> HIDE DEF c
<1>2. Present(s, c)
  BY <1>1, ScriptNames DEF Present
<1>3. "reset" \notin TouchedBy(s) /\ "native_lookup" \notin TouchedBy(s)
  BY TouchedSites
<1>4. "native_lookup" \in SitesOf(k) => b.site["native_lookup"] # "orig"
  BY DEF Sound
<1>5. Sound(k, c)
  BY <1>1, <1>3, <1>4, SoundSites
<1> QED BY <1>1, <1>2, <1>5 DEF c

\* patch_vmm_optional_pvg_reset: the cave is outside the table before, so the
\* table is whole afterwards.
LEMMA CaveScript ==
  ASSUME NEW k \in DOMAIN ScriptsOf, "pvg_reset" \in ScriptsOf[k], NEW b, Sound(k, b),
         Matches("pvg_reset", b), CaveFree(b)
  PROVE  LET c == WithCave(Edited("pvg_reset", b))
         IN  Sound(k, c) /\ Keeps(k, b, c) /\ Present("pvg_reset", c)
               /\ (Present("pvg_reset", b) => c = b)
<1> DEFINE s == "pvg_reset"
           e == Edited(s, b)
           c == WithCave(e)
<1>0. /\ s \in DOMAIN Edits /\ "reset" \in SitesOf(k) /\ b.site["reset"] \in {"orig", "new"}
      /\ TouchedBy(s) = {"reset"}
  <2>1. TouchedBy(s) = {"reset"} /\ Edits[s].tolerant = {"reset"}
    BY ScriptNames DEF TouchedBy, PvgReset, Site
  <2> QED BY <2>1, ScriptNames, SitesAre DEF Matches
<1>1. /\ e \in Binaries(k) /\ e.cmds = b.cmds /\ e.slack = b.slack
      /\ \A x \in SitesOf(k) : e.site[x] = IF x \in TouchedBy(s) THEN "new" ELSE b.site[x]
      /\ \A x \in TouchedBy(s) : e.site[x] = "new"
      /\ \A str \in DOMAIN Edits[s].counted : e.copies[str] = 0
      /\ Keeps(k, b, e)
      /\ Present(s, b) => e = b
  BY <1>0, EditedFile
<1>2. b.slack[CaveAt] \in {"zero", "code"} /\ CaveAt \in 1 .. HeaderWords
  <2>1. CaveAt \in 1 .. HeaderWords
    BY HeaderAssumption
  <2> QED BY <1>0, <2>1 DEF CaveFree, Sound
<1>3. CaveAt \notin 1 .. Len(b.cmds)
  BY <1>2 DEF Sound
<1> HIDE DEF e
<1>4. /\ c \in Binaries(k) /\ c.cmds = e.cmds /\ c.site = e.site /\ c.copies = e.copies
      /\ c.slack = [e.slack EXCEPT ![CaveAt] = "code"]
  BY <1>1, <1>2 DEF WithCave, Binaries, Words
<1> HIDE DEF c
<1>5. c.slack[CaveAt] = "code" /\ \A w \in 1 .. HeaderWords : w # CaveAt => c.slack[w] = b.slack[w]
  BY <1>1, <1>2, <1>4, Fields
<1>6. Present(s, c)
  BY <1>1, <1>4, <1>5, ScriptNames DEF Present
<1>7. Keeps(k, b, c)
  BY <1>1, <1>4, <1>5 DEF Keeps, Loads
<1>8. Sound(k, c)
  <2>1. \A w \in 1 .. Len(b.cmds) : w \in 1 .. HeaderWords /\ c.slack[w] = "cmd"
    <3>1. Len(b.cmds) \in Nat /\ Len(b.cmds) <= HeaderWords
      BY Fields DEF Sound
    <3>2. \A w \in 1 .. Len(b.cmds) : w \in 1 .. HeaderWords
      BY <3>1, HeaderAssumption
    <3> QED BY <1>3, <1>5, <3>2 DEF Sound
  <2>2. "native_lookup" \in SitesOf(k) => c.site["native_lookup"] = b.site["native_lookup"]
    BY <1>0, <1>1, <1>4
  <2> QED BY <1>1, <1>4, <1>5, <2>1, <2>2 DEF Sound
<1>9. ASSUME Present(s, b) PROVE c = b
  <2>1. b.slack[CaveAt] = "code" /\ e = b
    BY <1>0, <1>1, <1>9, ScriptNames DEF Present
  <2>2. c.slack = b.slack
    <3>1. b.slack \in [1 .. HeaderWords -> Words]
      BY <1>1, <2>1, Fields
    <3> QED BY <1>2, <1>4, <2>1, <3>1, SameWords
  <2> QED BY <1>1, <1>4, <2>1, <2>2, SameFile
<1> QED BY <1>6, <1>7, <1>8, <1>9 DEF c, e

\* One more load command: the word it takes is not the cave.
LEMMA CommandAdded ==
  ASSUME NEW k, NEW b, Sound(k, b), NEW name \in {"dylib1", "dylib2", "path"},
         Len(b.cmds) + 1 <= HeaderWords,
         b.slack[CaveAt] = "code" => Len(b.cmds) + 1 # CaveAt
  PROVE  LET c == WithCommand(b, name)
         IN  Sound(k, c) /\ Keeps(k, b, c) /\ Loads(c, name)
<1> DEFINE n == Len(b.cmds)
           c == WithCommand(b, name)
           more == Append(b.cmds, name)
           words == [b.slack EXCEPT ![n + 1] = "cmd"]
<1>0. /\ b \in Binaries(k) /\ b.cmds \in Seq(Commands) /\ n \in Nat
      /\ b.slack \in [1 .. HeaderWords -> Words] /\ name \in Commands
  BY Fields DEF Sound, Commands
<1>1. /\ more \in Seq(Commands) /\ Len(more) = n + 1 /\ more[n + 1] = name
      /\ \A i \in 1 .. n : more[i] = b.cmds[i]
  BY <1>0
<1>2. n + 1 \in 1 .. HeaderWords
  BY <1>0, HeaderAssumption
<1>3. /\ words \in [1 .. HeaderWords -> Words] /\ words[n + 1] = "cmd"
      /\ \A w \in 1 .. HeaderWords : w # n + 1 => words[w] = b.slack[w]
  BY <1>0, <1>2 DEF Words
<1>4. c = [b EXCEPT !.cmds = more, !.slack = words]
  BY DEF WithCommand
<1> HIDE DEF more, words
<1>5. /\ c \in Binaries(k) /\ c.site = b.site /\ c.copies = b.copies
      /\ c.cmds = more /\ c.slack = words
  BY <1>0, <1>1, <1>3, <1>4 DEF Binaries
<1> HIDE DEF c
<1>6. DOMAIN c.cmds = 1 .. n + 1 /\ DOMAIN b.cmds = 1 .. n /\ 1 .. n \subseteq 1 .. n + 1
      /\ \A i \in 1 .. n + 1 : i \in 1 .. n \/ i = n + 1
  BY <1>0, <1>1, <1>5
<1>7. /\ \A other \in Commands : Loads(b, other) => Loads(c, other)
      /\ Loads(c, name)
      /\ \A other \in Commands : other # name /\ Loads(c, other) => Loads(b, other)
  <2>1. n + 1 \in 1 .. n + 1
    BY <1>0
  <2> QED BY <1>1, <1>5, <1>6, <2>1 DEF Loads
<1>8. Keeps(k, b, c)
  <2>1. b.slack[CaveAt] = "code" => c.slack[CaveAt] = "code"
    <3>1. CaveAt \in 1 .. HeaderWords
      BY HeaderAssumption
    <3> QED BY <1>3, <1>5, <3>1
  <2>2. \A other \in {"dylib1", "dylib2", "ios", "strong_vt"} : Loads(b, other) => Loads(c, other)
    BY <1>7 DEF Commands
  <2>3. \A other \in {"build", "weak_vt"} : ~Loads(b, other) => ~Loads(c, other)
    BY <1>7 DEF Commands
  <2> QED BY <1>5, <2>1, <2>2, <2>3 DEF Keeps
<1>9. Sound(k, c)
  <2>1. \A w \in 1 .. n : w \in 1 .. HeaderWords /\ w # n + 1
    BY <1>0, <1>2, HeaderAssumption
  <2>2. \A w \in 1 .. n + 1 : c.slack[w] = "cmd"
    BY <1>3, <1>5, <1>6, <2>1 DEF Sound
  <2>3. \A i \in 1 .. n + 1 : c.cmds[i] \in {"build", "ios"} => i \in 1 .. n /\ c.cmds[i] = b.cmds[i]
    BY <1>1, <1>5, <1>6
  <2>4. \A i, j \in DOMAIN c.cmds :
          c.cmds[i] = "ios" /\ c.cmds[j] \in {"build", "ios"} => i = j
    BY <1>6, <2>3 DEF Sound
  <2>5. "reset" \in SitesOf(k) /\ c.site["reset"] = "new" => c.slack[CaveAt] = "code"
    BY <1>5, <1>8 DEF Sound, Keeps
  <2>6. Len(c.cmds) = n + 1
    BY <1>1, <1>5
  <2> QED BY <1>5, <2>2, <2>4, <2>5, <2>6 DEF Sound
<1> QED BY <1>7, <1>8, <1>9 DEF c

\* patch_ipados14_vmm_videotoolbox_import.py.
LEMMA StrongFile ==
  ASSUME NEW k, NEW b, Sound(k, b)
  PROVE  LET c == StrongVt(b)
         IN  /\ Sound(k, c) /\ Keeps(k, b, c)
             /\ Loads(b, "weak_vt") => Loads(c, "strong_vt")
             /\ ~Loads(c, "weak_vt")
<1> DEFINE n == Len(b.cmds)
           c == StrongVt(b)
           strong == [i \in 1 .. n |-> IF b.cmds[i] = "weak_vt" THEN "strong_vt" ELSE b.cmds[i]]
<1>0. b \in Binaries(k) /\ n \in Nat /\ DOMAIN b.cmds = 1 .. n
      /\ \A i \in 1 .. n : b.cmds[i] \in Commands
  BY Fields DEF Sound
<1>1. c = [b EXCEPT !.cmds = strong]
  BY <1>0 DEF StrongVt
<1>2. \A i \in 1 .. n : (IF b.cmds[i] = "weak_vt" THEN "strong_vt" ELSE b.cmds[i]) \in Commands
  BY <1>0 DEF Commands
<1>3. strong \in Seq(Commands) /\ Len(strong) = n /\ DOMAIN strong = 1 .. n
      /\ \A i \in 1 .. n : strong[i] = IF b.cmds[i] = "weak_vt" THEN "strong_vt" ELSE b.cmds[i]
  BY <1>0, <1>2
<1> HIDE DEF strong
<1>4. /\ c \in Binaries(k) /\ c.site = b.site /\ c.copies = b.copies /\ c.slack = b.slack
      /\ c.cmds = strong
  BY <1>0, <1>1, <1>3 DEF Binaries
<1> HIDE DEF c
<1>5. /\ \A name : name \notin {"weak_vt", "strong_vt"} => (Loads(b, name) <=> Loads(c, name))
      /\ Loads(b, "strong_vt") => Loads(c, "strong_vt")
      /\ Loads(b, "weak_vt") => Loads(c, "strong_vt")
      /\ ~Loads(c, "weak_vt")
  BY <1>0, <1>3, <1>4 DEF Loads
<1>6. Keeps(k, b, c)
  BY <1>4, <1>5 DEF Keeps
<1>7. \A i, j \in DOMAIN c.cmds :
        c.cmds[i] = "ios" /\ c.cmds[j] \in {"build", "ios"} => i = j
  BY <1>0, <1>3, <1>4 DEF Sound
<1>8. Sound(k, c)
  BY <1>3, <1>4, <1>7 DEF Sound
<1> QED BY <1>5, <1>6, <1>8 DEF c

\* patch_netrb_lookup.
LEMMA LookupFile ==
  ASSUME NEW k \in DOMAIN ScriptsOf, "netrb" \in ScriptsOf[k], NEW b, Sound(k, b),
         Outcome("netrb", b).ok
  PROVE  LET c == Outcome("netrb", b).bin
         IN  Sound(k, c) /\ Keeps(k, b, c) /\ Present("netrb", c) /\ ~Present("netrb", b)
<1> DEFINE at == {x \in Candidates : b.site[x] = "orig"}
           site == [x \in SitesOf(k) |-> IF x = "lookup" THEN "new" ELSE b.site[x]]
           c == Outcome("netrb", b).bin
<1>0. /\ b \in Binaries(k) /\ DOMAIN b.site = SitesOf(k) /\ Candidates \subseteq SitesOf(k)
      /\ \A x \in SitesOf(k) : b.site[x] \in SiteStates
  BY Fields, SitesAre DEF Sound
<1>1. at \subseteq {"lookup"}
  <2>1. b.site["native_lookup"] # "orig"
    BY <1>0 DEF Sound, Candidates
  <2> QED BY <2>1 DEF Candidates
<1>2. Outcome("netrb", b) =
        [ok |-> Cardinality(at) = 1, write |-> Cardinality(at) = 1,
         bin |-> [b EXCEPT !.site = [x \in DOMAIN b.site |->
                    IF x \in at /\ Cardinality(at) = 1 THEN "new" ELSE b.site[x]]]]
  BY DEF Outcome
<1>3. Cardinality(at) = 1
  <2> HIDE DEF at
  <2>1. Outcome("netrb", b).ok = (Cardinality(at) = 1)
    BY <1>2
  <2> QED BY <2>1
<1>4. at = {"lookup"}
  BY <1>1, <1>3, FS_EmptySet
<1>5. c = [b EXCEPT !.site = site]
  <2>1. [x \in DOMAIN b.site |-> IF x \in at /\ Cardinality(at) = 1 THEN "new" ELSE b.site[x]] = site
    BY <1>0, <1>3, <1>4
  <2> HIDE DEF site, at
  <2> QED BY <1>2, <2>1
<1>6. site \in [SitesOf(k) -> SiteStates]
  BY <1>0 DEF SiteStates
<1>7. "lookup" \in SitesOf(k) /\ b.site["lookup"] = "orig"
  BY <1>0, <1>4 DEF Candidates
<1>8. /\ site["lookup"] = "new" /\ \A x \in SitesOf(k) : x # "lookup" => site[x] = b.site[x]
  BY <1>7
<1> HIDE DEF site, at
<1>9. /\ c \in Binaries(k) /\ c.site = site /\ c.copies = b.copies /\ c.cmds = b.cmds
      /\ c.slack = b.slack
  BY <1>0, <1>5, <1>6 DEF Binaries
<1> HIDE DEF c
<1>10. Keeps(k, b, c)
  BY <1>8, <1>9 DEF Keeps, Loads
<1>11. Sound(k, c)
  <2>1. "native_lookup" \in SitesOf(k) => c.site["native_lookup"] # "orig"
    BY <1>8, <1>9 DEF Sound
  <2> QED BY <1>8, <1>9, <2>1, SoundSites
<1>12. Present("netrb", c) /\ ~Present("netrb", b)
  BY <1>7, <1>8, <1>9, ScriptNames DEF Present
<1> QED BY <1>10, <1>11, <1>12 DEF c

-----------------------------------------------------------------------------
\* The places of the members of a set of positions, in their order.
Rank(S, i) == Cardinality({j \in S : j <= i})

LEMMA Ranks ==
  ASSUME NEW n \in Nat, NEW S \in SUBSET (1 .. n)
  PROVE  /\ Cardinality(S) \in Nat /\ Cardinality(S) <= n
         /\ \A i \in S : Rank(S, i) \in 1 .. Cardinality(S)
         /\ \A i, j \in S : i < j => Rank(S, i) < Rank(S, j)
         /\ \A i, j \in S : Rank(S, i) = Rank(S, j) => i = j
         /\ \A m \in 1 .. Cardinality(S) : \E i \in S : Rank(S, i) = m
         /\ S = 1 .. n => Cardinality(S) = n /\ \A i \in S : Rank(S, i) = i
<1> DEFINE below(i) == {j \in S : j <= i}
<1>1. IsFiniteSet(1 .. n) /\ Cardinality(1 .. n) = n
  BY FS_Interval
<1>2. IsFiniteSet(S) /\ Cardinality(S) \in Nat /\ Cardinality(S) <= n
  BY <1>1, FS_Subset, FS_CardinalityType
<1>3. \A i \in S : IsFiniteSet(below(i)) /\ Cardinality(below(i)) \in Nat
                   /\ Cardinality(below(i)) <= Cardinality(S)
  <2> TAKE i \in S
  <2>1. below(i) \in SUBSET S
    OBVIOUS
  <2> HIDE DEF below
  <2> QED BY <1>2, <2>1, FS_Subset, FS_CardinalityType
<1>4. \A i \in S : Rank(S, i) \in 1 .. Cardinality(S)
  <2> TAKE i \in S
  <2>1. below(i) # {}
    OBVIOUS
  <2>2. Cardinality(below(i)) # 0
    BY <1>3, <2>1, FS_EmptySet
  <2> QED BY <1>2, <1>3, <2>2 DEF Rank
<1>5. ASSUME NEW i \in S, NEW j \in S, i < j PROVE Rank(S, i) < Rank(S, j)
  <2>0. \A x \in S : x \in Int
    OBVIOUS
  <2>1. below(i) \in SUBSET below(j) /\ j \in below(j) /\ j \notin below(i)
    <3>1. \A x \in S : x <= i => x <= j
      BY <1>5, <2>0
    <3>2. j <= j /\ ~(j <= i)
      BY <1>5, <2>0
    <3> QED BY <3>1, <3>2
  <2>2. below(i) # below(j)
    BY <2>1
  <2> HIDE DEF below
  <2>3. Cardinality(below(i)) < Cardinality(below(j))
    BY <1>3, <2>1, <2>2, FS_Subset
  <2> QED BY <2>3 DEF Rank, below
<1>6. \A i, j \in S : Rank(S, i) = Rank(S, j) => i = j
  <2> TAKE i \in S, j \in S
  <2>1. i < j \/ j < i \/ i = j
    OBVIOUS
  <2>2. Rank(S, i) \in Nat /\ Rank(S, j) \in Nat
    BY <1>2, <1>4
  <2> QED BY <1>5, <2>1, <2>2
<1>7. \A m \in 1 .. Cardinality(S) : \E i \in S : Rank(S, i) = m
  <2> DEFINE T == 1 .. Cardinality(S)
             f == [i \in S |-> Rank(S, i)]
  <2>1. f \in [S -> T] /\ \A i, j \in S : f[i] = f[j] => i = j
    BY <1>4, <1>6
  <2>2. IsFiniteSet(T) /\ Cardinality(T) = Cardinality(S)
    BY <1>2, FS_Interval
  <2> HIDE DEF f, T
  <2>3. f \in Injection(S, T)
    BY <2>1 DEF Injection, IsInjective
  <2>4. f \in Surjection(S, T)
    BY <2>2, <2>3, FS_Injection
  <2>5. \A m \in T : \E i \in S : f[i] = m
    BY <2>4 DEF Surjection
  <2> QED BY <2>5 DEF f, T
<1>8. ASSUME S = 1 .. n PROVE Cardinality(S) = n /\ \A i \in S : Rank(S, i) = i
  <2>1. \A i \in S : below(i) = 1 .. i
    BY <1>8
  <2>2. \A i \in S : Cardinality(1 .. i) = i
    BY FS_Interval
  <2> QED BY <1>1, <1>8, <2>1, <2>2 DEF Rank
<1> QED BY <1>2, <1>4, <1>5, <1>6, <1>7, <1>8

\* A non-empty set of positions has a first one.
LEMMA HasFirst ==
  ASSUME NEW n \in Nat, NEW S \in SUBSET (1 .. n), S # {}
  PROVE  \E i \in S : \A j \in S : i <= j
<1>1. IsFiniteSet(1 .. n)
  BY FS_Interval
<1>2. IsFiniteSet(S) /\ Cardinality(S) \in Nat
  BY <1>1, FS_Subset, FS_CardinalityType
<1>3. Cardinality(S) # 0
  BY <1>2, FS_EmptySet
<1>4. PICK i \in S : Rank(S, i) = 1
  BY <1>2, <1>3, Ranks
<1>5. ASSUME NEW j \in S, j < i PROVE FALSE
  <2>1. Rank(S, j) < Rank(S, i)
    BY <1>5, Ranks
  <2>2. Rank(S, j) \in 1 .. Cardinality(S)
    BY Ranks
  <2> QED BY <1>2, <1>4, <2>1, <2>2
<1>6. \A j \in S : i <= j
  BY <1>5
<1> QED BY <1>6

\* stamp_ios.py.  The commands that stay are those at the positions Staying(b),
\* and the one at position i moves to Place(b, i).
LEMMA StayingPlaces ==
  ASSUME NEW k, NEW b, Sound(k, b), Loads(b, "build") \/ Loads(b, "ios")
  PROVE  LET n == Len(b.cmds)
             m == Cardinality(Staying(b))
             F == FirstVersion(b)
             r == Rebuilt(b)
         IN  /\ F \in BuildVersions(b) /\ F \in Staying(b)
             /\ Staying(b) \subseteq 1 .. n /\ BuildVersions(b) \subseteq 1 .. n
             /\ \A i \in Staying(b) : i \in BuildVersions(b) => i = F
             /\ m \in Nat /\ m <= n
             /\ \A i \in Staying(b) : Place(b, i) \in 1 .. m
             /\ \A i, j \in Staying(b) : Place(b, i) = Place(b, j) => i = j
             /\ \A w \in 1 .. m : \E i \in Staying(b) : Place(b, i) = w
             /\ \A i \in Staying(b) : r[Place(b, i)] = IF i = F THEN "ios" ELSE b.cmds[i]
             /\ Staying(b) = 1 .. n => m = n /\ \A i \in 1 .. n : Place(b, i) = i
<1> DEFINE n == Len(b.cmds)
           V == BuildVersions(b)
           F == FirstVersion(b)
           S == Staying(b)
           m == Cardinality(S)
           r == Rebuilt(b)
<1>1. n \in Nat /\ DOMAIN b.cmds = 1 .. n
  BY Fields DEF Sound
<1>2. V \subseteq 1 .. n /\ V # {}
  BY <1>1 DEF BuildVersions, Loads
<1>3. F \in V
  <2>1. \E i \in V : \A j \in V : i <= j
    BY <1>1, <1>2, HasFirst
  <2> QED BY <2>1 DEF FirstVersion
<1>4. S \subseteq 1 .. n /\ F \in S /\ \A i \in S : i \in V => i = F
  BY <1>1, <1>2, <1>3 DEF Staying
<1>5. \A i : Place(b, i) = Rank(S, i)
  BY DEF Place, Rank
<1>6. /\ m \in Nat /\ m <= n
      /\ \A i \in S : Place(b, i) \in 1 .. m
      /\ \A i, j \in S : Place(b, i) = Place(b, j) => i = j
      /\ \A w \in 1 .. m : \E i \in S : Place(b, i) = w
      /\ S = 1 .. n => m = n /\ \A i \in 1 .. n : Place(b, i) = i
  <2> HIDE DEF n, S
  <2>1. S \in SUBSET (1 .. n)
    BY <1>4
  <2>2. /\ m \in Nat /\ m <= n
        /\ \A i \in S : Rank(S, i) \in 1 .. m
        /\ \A i, j \in S : Rank(S, i) = Rank(S, j) => i = j
        /\ \A w \in 1 .. m : \E i \in S : Rank(S, i) = w
        /\ S = 1 .. n => m = n /\ \A i \in S : Rank(S, i) = i
    BY <1>1, <2>1, Ranks
  <2> QED BY <1>5, <2>2
<1>7. \A i \in S : r[Place(b, i)] = IF i = F THEN "ios" ELSE b.cmds[i]
  <2> TAKE i \in S
  <2> DEFINE p == Place(b, i)
             j == CHOOSE x \in S : Place(b, x) = p
  <2>1. r[p] = IF j = F THEN "ios" ELSE b.cmds[j]
    BY <1>6 DEF Rebuilt
  <2>2. j \in S /\ Place(b, j) = p
    OBVIOUS
  <2>3. j = i
    BY <1>6, <2>2
  <2> QED BY <2>1, <2>3
<1> QED BY <1>2, <1>3, <1>4, <1>6, <1>7

LEMMA RebuiltTable ==
  ASSUME NEW k, NEW b, Sound(k, b), Loads(b, "build") \/ Loads(b, "ios")
  PROVE  LET r == Rebuilt(b)
             has(name) == \E i \in DOMAIN r : r[i] = name
         IN  /\ r \in Seq(Commands) /\ Len(r) <= Len(b.cmds)
             /\ has("ios") /\ ~has("build")
             /\ \A i, j \in DOMAIN r : r[i] = "ios" /\ r[j] \in {"build", "ios"} => i = j
             /\ \A name \in {"dylib1", "dylib2", "strong_vt", "weak_vt"} : Loads(b, name) <=> has(name)
             /\ Present("stamp", b) => r = b.cmds
<1> DEFINE n == Len(b.cmds)
           F == FirstVersion(b)
           S == Staying(b)
           m == Cardinality(S)
           r == Rebuilt(b)
           has(name) == \E i \in DOMAIN r : r[i] = name
<1>1. n \in Nat /\ DOMAIN b.cmds = 1 .. n /\ b.cmds \in Seq(Commands)
      /\ \A i \in 1 .. n : b.cmds[i] \in Commands
  BY Fields DEF Sound
<1>2. /\ F \in BuildVersions(b) /\ F \in S
      /\ S \subseteq 1 .. n /\ BuildVersions(b) \subseteq 1 .. n
      /\ \A i \in S : i \in BuildVersions(b) => i = F
      /\ m \in Nat /\ m <= n
      /\ \A i \in S : Place(b, i) \in 1 .. m
      /\ \A i, j \in S : Place(b, i) = Place(b, j) => i = j
      /\ \A w \in 1 .. m : \E i \in S : Place(b, i) = w
      /\ \A i \in S : r[Place(b, i)] = IF i = F THEN "ios" ELSE b.cmds[i]
      /\ S = 1 .. n => m = n /\ \A i \in 1 .. n : Place(b, i) = i
  BY StayingPlaces
<1>3. DOMAIN r = 1 .. m /\ r = [w \in 1 .. m |-> r[w]]
  BY DEF Rebuilt
<1> HIDE DEF r, S, m, F, n
<1>4. \A i \in S : b.cmds[i] \in {"build", "ios"} => i = F
  BY <1>1, <1>2 DEF BuildVersions
<1>5. \A w \in 1 .. m : r[w] \in Commands
  <2> TAKE w \in 1 .. m
  <2>1. PICK i \in S : Place(b, i) = w
    BY <1>2
  <2> QED BY <1>1, <1>2, <2>1 DEF Commands
<1>6. r \in Seq(Commands) /\ Len(r) = m
  BY <1>2, <1>3, <1>5
<1>7. \A w \in 1 .. m : r[w] \in {"build", "ios"} => w = Place(b, F) /\ r[w] = "ios"
  <2> TAKE w \in 1 .. m
  <2>1. PICK i \in S : Place(b, i) = w
    BY <1>2
  <2> QED BY <1>2, <1>4, <2>1
<1>8. has("ios") /\ ~has("build")
  <2>1. Place(b, F) \in 1 .. m /\ r[Place(b, F)] = "ios"
    BY <1>2
  <2> QED BY <1>3, <1>7, <2>1
<1>9. \A i, j \in DOMAIN r : r[i] = "ios" /\ r[j] \in {"build", "ios"} => i = j
  BY <1>3, <1>7
<1>10. \A name \in {"dylib1", "dylib2", "strong_vt", "weak_vt"} : Loads(b, name) <=> has(name)
  <2> TAKE name \in {"dylib1", "dylib2", "strong_vt", "weak_vt"}
  <2>1. ASSUME Loads(b, name) PROVE has(name)
    <3>1. PICK i \in 1 .. n : b.cmds[i] = name
      BY <1>1, <2>1 DEF Loads
    <3>2. i \in S /\ i # F
      BY <1>1, <1>2, <3>1 DEF BuildVersions, S, Staying
    <3> QED BY <1>2, <1>3, <3>1, <3>2
  <2>2. ASSUME has(name) PROVE Loads(b, name)
    <3>1. PICK w \in 1 .. m : r[w] = name
      BY <1>3, <2>2
    <3>2. PICK i \in S : Place(b, i) = w
      BY <1>2
    <3> QED BY <1>1, <1>2, <3>1, <3>2 DEF Loads
  <2> QED BY <2>1, <2>2
<1>11. ASSUME Present("stamp", b) PROVE r = b.cmds
  <2>1. Loads(b, "ios") /\ ~Loads(b, "build")
    BY <1>11, ScriptNames DEF Present
  <2>2. \A i \in BuildVersions(b) : b.cmds[i] = "ios" /\ i = F
    <3>1. \A i \in BuildVersions(b) : i \in DOMAIN b.cmds /\ b.cmds[i] = "ios"
      BY <2>1 DEF BuildVersions, Loads
    <3> QED BY <1>2, <3>1 DEF Sound
  <2>3. S = 1 .. n
    BY <1>1, <1>2, <2>2 DEF S, Staying
  <2>4. m = n /\ \A i \in 1 .. n : Place(b, i) = i
    BY <1>2, <2>3
  <2>5. \A i \in 1 .. n : r[i] = b.cmds[i]
    BY <1>2, <2>2, <2>3, <2>4
  <2>6. b.cmds = [w \in 1 .. n |-> b.cmds[w]]
    BY <1>1
  <2> QED BY <1>3, <2>4, <2>5, <2>6
<1> QED BY <1>2, <1>6, <1>8, <1>9, <1>10, <1>11 DEF r, n

LEMMA StampedFile ==
  ASSUME NEW k, NEW b, Sound(k, b), Loads(b, "build") \/ Loads(b, "ios")
  PROVE  LET c == Stamped(b)
         IN  Sound(k, c) /\ Keeps(k, b, c) /\ Present("stamp", c) /\ (Present("stamp", b) => c = b)
<1> DEFINE n == Len(b.cmds)
           r == Rebuilt(b)
           has(name) == \E i \in DOMAIN r : r[i] = name
           words == [w \in 1 .. HeaderWords |->
                       IF w <= n THEN (IF w <= Len(r) THEN "cmd" ELSE "zero") ELSE b.slack[w]]
           c == Stamped(b)
<1>0. b \in Binaries(k) /\ n \in Nat /\ b.slack \in [1 .. HeaderWords -> Words] /\ n <= HeaderWords
      /\ \A w \in 1 .. n : b.slack[w] = "cmd"
  BY Fields DEF Sound
<1>1. /\ r \in Seq(Commands) /\ Len(r) <= n
      /\ has("ios") /\ ~has("build")
      /\ \A i, j \in DOMAIN r : r[i] = "ios" /\ r[j] \in {"build", "ios"} => i = j
      /\ \A name \in {"dylib1", "dylib2", "strong_vt", "weak_vt"} : Loads(b, name) <=> has(name)
      /\ Present("stamp", b) => r = b.cmds
  BY RebuiltTable
<1>2. c = [b EXCEPT !.cmds = r, !.slack = words]
  BY <1>0 DEF Stamped
<1>3. words \in [1 .. HeaderWords -> Words]
  BY <1>0 DEF Words
<1>4. Len(r) \in Nat
  BY <1>1
<1> HIDE DEF r
<1>5. \A w \in 1 .. Len(r) : w \in 1 .. HeaderWords /\ words[w] = "cmd"
  BY <1>0, <1>1, <1>4, HeaderAssumption
<1>6. CaveAt \in 1 .. HeaderWords /\ (b.slack[CaveAt] = "code" => words[CaveAt] = "code")
  <2>1. CaveAt \in 1 .. HeaderWords
    BY HeaderAssumption
  <2>2. b.slack[CaveAt] = "code" => ~(CaveAt <= n)
    BY <1>0, HeaderAssumption
  <2> QED BY <2>1, <2>2
<1>7. r = b.cmds => words = b.slack
  <2>1. \A w \in 1 .. HeaderWords : w <= n => w \in 1 .. n
    BY <1>0
  <2> QED BY <1>0, <2>1
<1> HIDE DEF words
<1>8. /\ c \in Binaries(k) /\ c.site = b.site /\ c.copies = b.copies /\ c.cmds = r /\ c.slack = words
  BY <1>0, <1>1, <1>2, <1>3 DEF Binaries
<1> HIDE DEF c
<1>9. \A name : Loads(c, name) <=> has(name)
  BY <1>8 DEF Loads
<1>10. Keeps(k, b, c)
  <2>1. \A name \in {"dylib1", "dylib2", "ios", "strong_vt"} : Loads(b, name) => Loads(c, name)
    BY <1>1, <1>9
  <2>2. \A name \in {"build", "weak_vt"} : ~Loads(b, name) => ~Loads(c, name)
    BY <1>1, <1>9
  <2> QED BY <1>6, <1>8, <2>1, <2>2 DEF Keeps
<1>11. Present("stamp", c)
  BY <1>1, <1>9, ScriptNames DEF Present
<1>12. Sound(k, c)
  <2>1. "reset" \in SitesOf(k) /\ c.site["reset"] = "new" => c.slack[CaveAt] = "code"
    BY <1>6, <1>8 DEF Sound
  <2>2. Len(r) <= HeaderWords
    BY <1>0, <1>1, <1>4, HeaderAssumption
  <2>3. "native_lookup" \in SitesOf(k) => c.site["native_lookup"] # "orig"
    BY <1>8 DEF Sound
  <2> QED BY <1>1, <1>5, <1>8, <2>1, <2>2, <2>3 DEF Sound
<1>13. Present("stamp", b) => c = b
  BY <1>0, <1>1, <1>7, <1>8, SameFile
<1> QED BY <1>10, <1>11, <1>12, <1>13 DEF c

-----------------------------------------------------------------------------
\* A script that reports success leaves a sound file with its own edits and
\* with all that were there; a second run leaves the same file.
LEMMA OutcomeSound ==
  ASSUME NEW k \in DOMAIN ScriptsOf, NEW s \in ScriptsOf[k], NEW b, Sound(k, b), Outcome(s, b).ok
  PROVE  LET c == Outcome(s, b).bin
         IN  Sound(k, c) /\ Keeps(k, b, c) /\ Present(s, c) /\ (Present(s, b) => c = b)
<1>0. Keeps(k, b, b)
  BY DEF Keeps
<1>1. CASE s \in {"add_dylib1", "add_dylib2"}
  <2> DEFINE name == DylibOf[s]
  <2>1. name \in {"dylib1", "dylib2"} /\ s \in DOMAIN DylibOf
    BY <1>1, ScriptNames
  <2>2. \A c : Present(s, c) <=> Loads(c, name)
    <3> TAKE c
    <3>1. s = "add_dylib1" \/ s = "add_dylib2"
      BY <1>1
    <3> QED BY <2>1, <3>1, ScriptNames DEF Present
  <2>3. CASE Loads(b, name)
    <3>1. Outcome(s, b) = [ok |-> TRUE, write |-> FALSE, bin |-> b]
      BY <1>1, <2>3 DEF Outcome, AlreadyLoaded
    <3>2. Outcome(s, b).bin = b
      BY <3>1
    <3> QED BY <1>0, <2>2, <2>3, <3>2
  <2>4. CASE ~Loads(b, name)
    <3>1. Outcome(s, b) = IF SlackFree(b) THEN [ok |-> TRUE, write |-> TRUE, bin |-> WithCommand(b, name)]
                          ELSE [ok |-> FALSE, write |-> FALSE, bin |-> b]
      BY <1>1, <2>4 DEF Outcome, AlreadyLoaded
    <3>2. SlackFree(b) /\ Outcome(s, b).bin = WithCommand(b, name)
      BY <3>1
    <3>3. Len(b.cmds) + 1 <= HeaderWords /\ (b.slack[CaveAt] = "code" => Len(b.cmds) + 1 # CaveAt)
      BY <3>2 DEF SlackFree
    <3>4. LET c == WithCommand(b, name) IN Sound(k, c) /\ Keeps(k, b, c) /\ Loads(c, name)
      <4> HIDE DEF name
      <4> QED BY <2>1, <3>3, CommandAdded
    <3> QED BY <2>2, <2>4, <3>2, <3>4
  <2> QED BY <2>3, <2>4
<1>2. CASE s = "stamp"
  <2> DEFINE some == Loads(b, "build") \/ Loads(b, "ios")
  <2>1. Outcome(s, b) = [ok |-> some, write |-> some, bin |-> IF some THEN Stamped(b) ELSE b]
    BY <1>2 DEF Outcome
  <2>2. some = TRUE \/ some = FALSE
    OBVIOUS
  <2> HIDE DEF some
  <2>3. some /\ Outcome(s, b).bin = Stamped(b)
    BY <2>1, <2>2
  <2>4. Loads(b, "build") \/ Loads(b, "ios")
    BY <2>3 DEF some
  <2> QED BY <1>2, <2>3, <2>4, StampedFile
<1>3. CASE s = "videotoolbox"
  <2>1. Outcome(s, b) = [ok |-> Loads(b, "weak_vt"), write |-> Loads(b, "weak_vt"), bin |-> StrongVt(b)]
    BY <1>3 DEF Outcome
  <2>2. Loads(b, "weak_vt") /\ Outcome(s, b).bin = StrongVt(b)
    BY <2>1
  <2>3. \A c : Present(s, c) <=> Loads(c, "strong_vt") /\ ~Loads(c, "weak_vt")
    BY <1>3, ScriptNames DEF Present
  <2> QED BY <2>2, <2>3, StrongFile
<1>4. CASE s = "netrb"
  BY <1>4, LookupFile
<1>5. CASE s = "pvg_reset"
  <2>1. Outcome(s, b) = IF Matches(s, b) /\ CaveFree(b)
                        THEN [ok |-> TRUE, write |-> TRUE, bin |-> WithCave(Edited(s, b))]
                        ELSE [ok |-> FALSE, write |-> FALSE, bin |-> b]
    BY <1>5 DEF Outcome
  <2>2. Matches(s, b) /\ CaveFree(b) /\ Outcome(s, b).bin = WithCave(Edited(s, b))
    BY <2>1
  <2> QED BY <1>5, <2>2, CaveScript
<1>6. CASE s \in DOMAIN Edits /\ s # "pvg_reset"
  <2>1. /\ s \notin {"add_dylib1", "add_dylib2", "stamp", "videotoolbox", "netrb", "pvg_reset"}
    BY <1>6, ScriptNames
  <2>2. Outcome(s, b) = [ok |-> Matches(s, b), write |-> IF s = "exception_log"
                                                        THEN Matches(s, b) /\ Edited(s, b) # b
                                                        ELSE Matches(s, b),
                         bin |-> IF Matches(s, b) THEN Edited(s, b) ELSE b]
    BY <2>1 DEF Outcome
  <2>3. Matches(s, b) /\ Outcome(s, b).bin = Edited(s, b)
    BY <2>2
  <2> QED BY <1>6, <2>3, PlainScript
<1> QED BY <1>1, <1>2, <1>3, <1>4, <1>5, <1>6, KnownScripts

\* A copy of the original.
LEMMA FreshSound ==
  ASSUME NEW k \in DOMAIN ScriptsOf, NEW site \in {"orig", "other"}
  PROVE  Sound(k, Fresh(k, site))
<1> DEFINE b == Fresh(k, site)
           sites == [x \in SitesOf(k) |-> IF x = "native_lookup" THEN "other" ELSE site]
           copies == [s \in StringsOf(k) |-> Copies(s)]
           words == [w \in 1 .. HeaderWords |-> IF w <= 3 THEN "cmd" ELSE "zero"]
<1>1. sites \in [SitesOf(k) -> SiteStates]
  BY DEF SiteStates
<1>2. copies \in [StringsOf(k) -> Nat]
  BY DEF Copies
<1>3. words \in [1 .. HeaderWords -> Words]
  BY DEF Words
<1>4. FreshHeader \in Seq(Commands) /\ Len(FreshHeader) = 3 /\ DOMAIN FreshHeader = 1 .. 3
      /\ \A i \in 1 .. 3 : FreshHeader[i] # "ios"
  <2>1. {"build", "weak_vt"} \subseteq Commands
    BY DEF Commands
  <2>2. FreshHeader \in Seq(Commands) /\ Len(FreshHeader) = 3
    BY <2>1 DEF FreshHeader
  <2>3. \A i \in 1 .. 3 : i = 1 \/ i = 2 \/ i = 3
    OBVIOUS
  <2> QED BY <2>2, <2>3 DEF FreshHeader
<1>5. /\ b = [torn |-> FALSE, site |-> sites, copies |-> copies, cmds |-> FreshHeader, slack |-> words]
  BY <1>4 DEF Fresh
<1>6. \A w \in 1 .. 3 : words[w] = "cmd"
  BY HeaderAssumption
<1>7. /\ "reset" \in SitesOf(k) => sites["reset"] # "new"
      /\ "native_lookup" \in SitesOf(k) => sites["native_lookup"] # "orig"
  OBVIOUS
<1> HIDE DEF sites, copies, words
<1>8. b \in Binaries(k)
  BY <1>1, <1>2, <1>3, <1>4, <1>5 DEF Binaries
<1>9. Len(b.cmds) <= HeaderWords /\ \A w \in 1 .. Len(b.cmds) : b.slack[w] = "cmd"
  <2>1. b.cmds = FreshHeader /\ b.slack = words
    BY <1>5
  <2> HIDE DEF b
  <2> QED BY <1>4, <1>6, <2>1, HeaderAssumption
<1> QED BY <1>4, <1>5, <1>7, <1>8, <1>9 DEF Sound

-----------------------------------------------------------------------------
\* A file is torn, or it is sound and has every edit that was reported; a
\* script that is writing holds a content that will be both.
PatchInv ==
  /\ kind \in DOMAIN ScriptsOf /\ applied \subseteq ScriptsOf[kind]
  /\ \/ bin = Torn
     \/ Sound(kind, bin) /\ \A s \in applied : Present(s, bin)
  /\ \/ job = Idle
     \/ /\ bin = Torn /\ job.s \in ScriptsOf[kind]
        /\ Sound(kind, job.bin) /\ \A s \in applied \cup {job.s} : Present(s, job.bin)

\* A script reports its success.
LEMMA ScriptRun ==
  ASSUME PatchInv, NEW s \in ScriptsOf[kind], RunScript(s)
  PROVE  LET o == Outcome(s, bin)
         IN  /\ Sound(kind, bin) /\ Sound(kind, o.bin) /\ Keeps(kind, bin, o.bin)
             /\ Present(s, bin) => o.bin = bin
             /\ \A t \in applied \cup {s} : Present(t, o.bin)
<1> DEFINE o == Outcome(s, bin)
<1>1. Sound(kind, bin) /\ kind \in DOMAIN ScriptsOf /\ applied \subseteq ScriptsOf[kind]
      /\ \A t \in applied : Present(t, bin)
  BY DEF PatchInv, RunScript, Torn
<1>2. o.ok
  BY DEF RunScript
<1>3. Sound(kind, o.bin) /\ Keeps(kind, bin, o.bin) /\ Present(s, o.bin)
      /\ (Present(s, bin) => o.bin = bin)
  BY <1>1, <1>2, OutcomeSound
<1> HIDE DEF o
<1>4. \A t \in applied : Present(t, o.bin)
  BY <1>1, <1>3, PresentKept
<1> QED BY <1>1, <1>3, <1>4 DEF o

\* install_name_tool stops before the cave.
LEMMA RenameRun ==
  ASSUME PatchInv, InstallNameTool
  PROVE  Sound(kind, bin') /\ \A t \in applied : Present(t, bin')
<1>1. Sound(kind, bin) /\ kind \in DOMAIN ScriptsOf /\ applied \subseteq ScriptsOf[kind]
      /\ \A t \in applied : Present(t, bin)
  BY DEF PatchInv, InstallNameTool, Torn
<1>2. Len(bin.cmds) \in Nat
  BY <1>1, Fields DEF Sound
<1>3. bin' = WithCommand(bin, "path") /\ Len(bin.cmds) + 1 < CaveAt
  BY DEF InstallNameTool
<1>4. Len(bin.cmds) + 1 <= HeaderWords /\ Len(bin.cmds) + 1 # CaveAt
  BY <1>2, <1>3, HeaderAssumption
<1>5. Sound(kind, bin') /\ Keeps(kind, bin, bin')
  BY <1>1, <1>3, <1>4, CommandAdded
<1> QED BY <1>1, <1>5, PresentKept

LEMMA PatchInvInit == PatchInit => PatchInv
<1> SUFFICES ASSUME PatchInit PROVE PatchInv
  OBVIOUS
<1>1. kind \in DOMAIN ScriptsOf /\ job = Idle /\ applied = {}
  BY DEF PatchInit
<1>2. PICK site \in {"orig", "other"} : bin = Fresh(kind, site)
  BY DEF PatchInit
<1>3. Sound(kind, bin)
  BY <1>1, <1>2, FreshSound
<1> QED BY <1>1, <1>3 DEF PatchInv

LEMMA PatchInvStep == PatchInv /\ PatchNext => PatchInv'
<1> SUFFICES ASSUME PatchInv, PatchNext PROVE PatchInv'
  OBVIOUS
<1>1. CASE CopyFresh
  <2>1. /\ kind' = kind /\ job' = job /\ job = Idle /\ applied' = {} /\ bin' = Fresh(kind, "orig")
        /\ kind \in DOMAIN ScriptsOf
    BY <1>1 DEF CopyFresh, PatchInv
  <2>2. Sound(kind, bin')
    BY <2>1, FreshSound
  <2> QED BY <2>1, <2>2 DEF PatchInv
<1>2. CASE FinishWrite
  <2>1. /\ job.s \in ScriptsOf[kind] /\ Sound(kind, job.bin)
        /\ \A s \in applied \cup {job.s} : Present(s, job.bin)
        /\ kind \in DOMAIN ScriptsOf /\ applied \subseteq ScriptsOf[kind]
    BY <1>2 DEF FinishWrite, PatchInv
  <2>2. kind' = kind /\ job' = Idle /\ bin' = job.bin /\ applied' = applied \cup {job.s}
    BY <1>2 DEF FinishWrite
  <2> QED BY <2>1, <2>2 DEF PatchInv
<1>3. CASE CrashWriting
  BY <1>3 DEF CrashWriting, PatchInv
<1>4. CASE InstallNameTool
  <2>1. Sound(kind, bin') /\ \A t \in applied : Present(t, bin')
    BY <1>4, RenameRun
  <2>2. kind' = kind /\ applied' = applied /\ job' = job /\ job = Idle
    BY <1>4 DEF InstallNameTool
  <2> QED BY <2>1, <2>2 DEF PatchInv
<1>5. CASE Sign
  BY <1>5 DEF Sign, PatchInv
<1>6. ASSUME NEW s \in ScriptsOf[kind], RunScript(s) PROVE PatchInv'
  <2> DEFINE o == Outcome(s, bin)
             same == sealed /\ o.bin = bin
  <2>1. Sound(kind, o.bin) /\ \A t \in applied \cup {s} : Present(t, o.bin)
    BY <1>6, ScriptRun
  <2>2. /\ kind' = kind /\ kind \in DOMAIN ScriptsOf /\ applied \subseteq ScriptsOf[kind]
        /\ job = Idle
    BY <1>6 DEF RunScript, PatchInv
  <2>3. \/ job' = [s |-> s, bin |-> o.bin, sealed |-> same] /\ bin' = Torn /\ applied' = applied
        \/ bin' = o.bin /\ applied' = applied \cup {s} /\ job' = job
    BY <1>6 DEF RunScript
  <2> HIDE DEF o, same
  <2>4. CASE job' = [s |-> s, bin |-> o.bin, sealed |-> same] /\ bin' = Torn /\ applied' = applied
    <3>1. job'.s = s /\ job'.bin = o.bin
      BY <2>4
    <3> QED BY <2>1, <2>2, <2>4, <3>1 DEF PatchInv
  <2>5. CASE bin' = o.bin /\ applied' = applied \cup {s} /\ job' = job
    BY <2>1, <2>2, <2>5 DEF PatchInv
  <2> QED BY <2>3, <2>4, <2>5
<1>7. ASSUME NEW s \in ScriptsOf[kind], RunOnTorn(s) PROVE PatchInv'
  <2>1. bin = Torn
    BY <1>7, Fields DEF RunOnTorn, PatchInv, Sound
  <2> QED BY <1>7, <2>1 DEF RunOnTorn, PatchInv
<1> QED BY <1>1, <1>2, <1>3, <1>4, <1>5, <1>6, <1>7 DEF PatchNext

\* Packaging leaves the payload alone.
LEMMA PayloadKept == Packing => UNCHANGED patchVars
  BY DEF Packing, StartPackaging, StageGroup, CopyVmm, CheckPrebuilt, AddDependency, SignVmm,
         Preserved, ConfigureApp, Verify, WriteTrust, WriteDeploy, WriteAppTar, WriteManifest,
         Abort, RebuildApp

LEMMA PatchInvAlways == Spec => []PatchInv
<1>1. Init => PatchInv
  BY PatchInvInit DEF Init
<1>2. PatchInv /\ [Next]_vars => PatchInv'
  <2> SUFFICES ASSUME PatchInv, [Next]_vars PROVE PatchInv'
    OBVIOUS
  <2>1. CASE Patching
    BY <2>1, PatchInvStep DEF Patching
  <2>2. CASE UNCHANGED patchVars
    BY <2>2 DEF patchVars, PatchInv
  <2>3. Packing => UNCHANGED patchVars
    BY PayloadKept
  <2>4. UNCHANGED vars => UNCHANGED patchVars
    BY DEF vars
  <2> QED BY <2>1, <2>2, <2>3, <2>4 DEF Next
<1> QED BY <1>1, <1>2, PTL DEF Spec

\* Whatever scripts, install_name_tool and crashes did in between, in any order
\* and any number: a readable file holds every edit a script reported since the
\* last fresh copy, and no word of its command table is overwritten.
THEOREM PatchesStickSafe == Spec => []PatchesStick
<1>1. PatchInv => PatchesStick
  <2> SUFFICES ASSUME PatchInv, ~bin.torn PROVE PatchesStick
    BY DEF PatchesStick
  <2>1. Sound(kind, bin) /\ \A s \in applied : Present(s, bin)
    BY DEF PatchInv, Torn
  <2> QED BY <2>1 DEF PatchesStick, Sound
<1> QED BY <1>1, PatchInvAlways, PTL

\* A script that is run again on a file that has its edits refuses, finds
\* nothing to do or writes the same bytes, whatever was done in between.
THEOREM RerunSafe == Spec => RerunStable
<1> DEFINE Stable == \A s \in applied : Present(s, bin) /\ RunScript(s) => job' # Idle /\ job'.bin = bin
<1>1. PatchInv /\ [Next]_vars => [~bin.torn /\ bin' # bin => Stable]_patchVars
  <2> SUFFICES ASSUME PatchInv, bin' # bin, NEW s \in applied, RunScript(s), Present(s, bin)
               PROVE  job' # Idle /\ job'.bin = bin
    OBVIOUS
  <2> DEFINE o == Outcome(s, bin)
             same == sealed /\ o.bin = bin
  <2>1. s \in ScriptsOf[kind] /\ kind \in DOMAIN ScriptsOf
    BY DEF PatchInv
  <2>2. o.bin = bin
    BY <2>1, ScriptRun
  <2>3. \/ job' = [s |-> s, bin |-> o.bin, sealed |-> same]
        \/ bin' = o.bin
    BY DEF RunScript
  <2> HIDE DEF o, same
  <2>4. job' = [s |-> s, bin |-> o.bin, sealed |-> same]
    BY <2>2, <2>3
  <2>5. job'.s = s /\ job'.bin = bin
    BY <2>2, <2>4
  <2>6. s # "none" /\ Idle.s = "none"
    BY <2>1, KnownScripts, ScriptNames DEF Idle
  <2> QED BY <2>5, <2>6
<1> QED BY <1>1, PatchInvAlways, PTL DEF Spec, RerunStable

-----------------------------------------------------------------------------
\* What a packaging run knows at each of its steps.
Final == {"trust", "deploy", "app_tar", "manifest"}
AppSteps == {"app_exe", "app_lib", "app_unseal", "app_seal", "verify"}
Built == {"app"} \cup AppSteps \cup Final
VmmSteps == {"check_vmm", "add_dylib1", "add_dylib2", "sign_vmm"}
Steps == {"idle", "compiler", "cache", "runtime", "vmm"} \cup VmmSteps \cup Built

\* The payload is finished once a run has started.
RunInv ==
  /\ pc \in Steps /\ runs \in Nat
  /\ pc # "idle" => runs > 0
  /\ runs > 0 => Finished
  /\ runs = 0 => deploy = NoArchive

\* The VMM that is staged, and the archived one, have the payload's patches.
IsCopy(v) == v \in [torn : {FALSE}, bin : {v.bin}, sealed : {v.sealed}]
VmmSound(v) ==
  /\ IsCopy(v) /\ Sound("vmm", v.bin)
  /\ \A s \in applied : Present(s, v.bin)

VmmInv ==
  /\ pc \in VmmSteps \cup Built => VmmSound(vmm)
  /\ pc \in {"add_dylib2", "sign_vmm"} \cup Built => Present("add_dylib1", vmm.bin)
  /\ pc \in {"sign_vmm"} \cup Built => Present("add_dylib2", vmm.bin)
  /\ Whole(deploy) => VmmSound(deploy.vmm)

\* The files of the groups that are done are inputs of this run.
Written ==
  (IF pc \notin {"idle", "compiler"} /\ opt.compiler THEN CompilerFiles \cup {"profile"} ELSE {})
  \cup (IF pc \notin {"idle", "compiler", "cache"} /\ opt.cache
        THEN CacheFiles \cup {"smanifest"} ELSE {})
  \cup (IF pc \notin {"idle", "compiler", "cache", "runtime"}
        THEN {"lib", "task", "taskinfo"} ELSE {})
StageInv == \A p \in Written : stage[p] = Input(p)

IsApp(a) == a \in [info : {a.info}, exe : {a.exe}, lib : {a.lib}, res : {a.res}]
AppInv ==
  /\ IsApp(app)
  /\ pc \in AppSteps \cup Final => app.info = opt.version
  /\ pc \in (AppSteps \ {"app_exe"}) \cup Final => app.exe.id = "v2"

\* What was verified is still what is there.
VerifyInv ==
  pc \in Final =>
    /\ hashes = Verified /\ vmm.sealed /\ ExeVerifies /\ app.lib
    /\ \A p \in Code(opt) : stage[p].verifies
    /\ pc # "trust" => trust = hashes

ArchiveInv ==
  /\ manifest.run \in Int /\ manifest.run <= runs
  /\ pc # "idle" => manifest.run < runs
  /\ pc \in {"app_tar", "manifest"} => deploy.run = runs /\ deploy.trust = hashes
  /\ pc = "manifest" => appTar.run = runs /\ appTar.app = app

PackInv == PatchInv /\ RunInv /\ VmmInv /\ StageInv /\ AppInv /\ VerifyInv /\ ArchiveInv /\ DeploymentSound

LEMMA RunInvStep == PackInv /\ Next => RunInv'
<1> SUFFICES ASSUME PackInv, Next PROVE RunInv'
  OBVIOUS
<1> USE DEF Steps, Built, AppSteps, Final, VmmSteps
<1>0. RunInv
  BY DEF PackInv
<1>1. CASE Patching
  BY <1>0, <1>1 DEF RunInv, Patching, packVars
<1>2. CASE Packing
  <2>1. Finished' <=> Finished
    BY <1>2, PayloadKept DEF Finished, patchVars
  <2>2. CASE StartPackaging
    BY <1>0, <2>1, <2>2 DEF RunInv, StartPackaging
  <2>3. ASSUME UNCHANGED <<runs, deploy>>, pc' \in Steps, pc # "idle" \/ pc' = "idle"
        PROVE  RunInv'
    BY <1>0, <2>1, <2>3 DEF RunInv
  <2>4. CASE StageGroup
    BY <2>3, <2>4 DEF StageGroup
  <2>5. CASE CopyVmm \/ CheckPrebuilt \/ SignVmm
    BY <2>3, <2>5 DEF CopyVmm, CheckPrebuilt, SignVmm
  <2>6. CASE AddDependency
    BY <2>3, <2>6, ScriptNames DEF AddDependency
  <2>7. CASE Preserved \/ Verify \/ WriteTrust \/ WriteAppTar \/ WriteManifest \/ RebuildApp
    BY <2>3, <2>7 DEF Preserved, Verify, WriteTrust, WriteAppTar, WriteManifest, RebuildApp
  <2>8. CASE ConfigureApp
    <3>1. pc' = After(pc) /\ pc \in {"app", "app_exe", "app_lib", "app_unseal", "app_seal"}
      BY <2>8 DEF ConfigureApp
    <3>2. pc' \in AppSteps
      BY <3>1 DEF After
    <3> QED BY <2>3, <2>8, <3>1, <3>2 DEF ConfigureApp
  <2>9. CASE WriteDeploy
    BY <1>0, <2>1, <2>9 DEF RunInv, WriteDeploy
  <2>10. CASE Abort
    BY <1>0, <2>1, <2>10 DEF RunInv, Abort
  <2> QED BY <1>2, <2>2, <2>4, <2>5, <2>6, <2>7, <2>8, <2>9, <2>10 DEF Packing
<1> QED BY <1>1, <1>2 DEF Next

\* The scripts that Packaging runs itself are scripts of the VMM.
LEMMA DylibScripts ==
  /\ "vmm" \in DOMAIN ScriptsOf
  /\ "add_dylib1" \in ScriptsOf["vmm"] /\ "add_dylib2" \in ScriptsOf["vmm"]
  BY DEF ScriptsOf, Header

\* A copy of a file and its signature.
LEMMA CopySigned ==
  ASSUME NEW v, IsCopy(v), NEW y, NEW w, w = [v EXCEPT !.sealed = y]
  PROVE  IsCopy(w) /\ w.bin = v.bin
<1>1. w.bin = v.bin /\ w.sealed = y /\ w \in [torn : {FALSE}, bin : {v.bin}, sealed : {y}]
  BY DEF IsCopy
<1> QED BY <1>1 DEF IsCopy

LEMMA VmmInvStep == PackInv /\ Next => VmmInv'
<1> SUFFICES ASSUME PackInv, Next PROVE VmmInv'
  OBVIOUS
<1> USE DEF Built, AppSteps, Final, VmmSteps
<1>0. RunInv /\ VmmInv /\ PatchInv
  BY DEF PackInv
<1>1. CASE Patching
  <2>1. pc' = "idle" /\ deploy' = NoArchive
    BY <1>0, <1>1 DEF Patching, packVars, RunInv
  <2> QED BY <2>1 DEF VmmInv, Whole, NoArchive
<1>2. CASE Packing
  <2>0. applied' = applied
    BY <1>2, PayloadKept DEF patchVars
  <2>1. \A v : VmmSound(v)' <=> VmmSound(v)
    BY <2>0 DEF VmmSound
  <2>2. ASSUME deploy' = deploy, vmm' = vmm,
               pc' \in {"idle", "compiler", "cache", "runtime", "vmm"} \/ (pc \in Built /\ pc' \in Built)
        PROVE  VmmInv'
    BY <1>0, <2>0, <2>2 DEF VmmInv, VmmSound
  <2>3. CASE StartPackaging \/ StageGroup \/ WriteManifest \/ RebuildApp
    <3>1. pc' \in {"idle", "compiler", "cache", "runtime", "vmm"}
      BY <1>0, <2>3 DEF StartPackaging, StageGroup, WriteManifest, RebuildApp
    <3> QED BY <2>2, <2>3, <3>1 DEF StartPackaging, StageGroup, WriteManifest, RebuildApp
  <2>4. CASE Preserved \/ Verify \/ WriteTrust \/ WriteAppTar
    BY <2>2, <2>4 DEF Preserved, Verify, WriteTrust, WriteAppTar
  <2>5. CASE ConfigureApp
    <3>1. pc' = After(pc) /\ pc \in {"app", "app_exe", "app_lib", "app_unseal", "app_seal"}
      BY <2>5 DEF ConfigureApp
    <3>2. pc' \in AppSteps
      BY <3>1 DEF After
    <3> QED BY <2>2, <2>5, <3>1, <3>2 DEF ConfigureApp
  <2>6. CASE CopyVmm
    <3>1. VmmSound(Payload)
      <4>1. Payload = [torn |-> FALSE, bin |-> bin, sealed |-> sealed]
        BY DEF Payload
      <4>2. Payload.bin = bin /\ Payload.sealed = sealed
        BY <4>1
      <4>3. Finished
        BY <1>0, <2>6 DEF RunInv, CopyVmm
      <4>4. Sound("vmm", bin) /\ \A s \in applied : Present(s, bin)
        BY <1>0, <4>3 DEF Finished, PatchInv, Torn
      <4>5. IsCopy(Payload)
        BY <4>1 DEF IsCopy
      <4> QED BY <4>2, <4>4, <4>5 DEF VmmSound
    <3>2. VmmSound(vmm')
      BY <1>0, <2>6, <3>1 DEF CopyVmm, Prebuilt, VmmInv
    <3>3. VmmSound(vmm)'
      BY <2>0, <3>2 DEF VmmSound
    <3>4. pc' \in {"check_vmm", "add_dylib1"} /\ deploy' = deploy
      BY <2>6 DEF CopyVmm
    <3>5. Whole(deploy)' => VmmSound(deploy.vmm)'
      BY <1>0, <2>0, <3>4 DEF VmmInv, VmmSound
    <3> QED BY <3>3, <3>4, <3>5 DEF VmmInv
  <2>7. CASE CheckPrebuilt
    <3>1. VmmSound(vmm) /\ pc' = "app" /\ vmm' = vmm /\ deploy' = deploy
      BY <1>0, <2>7 DEF CheckPrebuilt, VmmInv
    <3>2. LoadsBoth(vmm.bin)
      BY <2>7 DEF CheckPrebuilt
    <3>3. Loads(vmm.bin, "dylib1") /\ Loads(vmm.bin, "dylib2")
      BY <3>2, ScriptNames DEF LoadsBoth, Dependencies, Loads
    <3>4. Present("add_dylib1", vmm.bin) /\ Present("add_dylib2", vmm.bin)
      BY <3>3, ScriptNames DEF Present
    <3> QED BY <1>0, <2>0, <3>1, <3>4 DEF VmmInv, VmmSound
  <2>8. CASE AddDependency
    <3> DEFINE o == Outcome(pc, vmm.bin)
               signed == vmm.sealed /\ o.bin = vmm.bin
    <3>1. pc \in {"add_dylib1", "add_dylib2"} /\ pc \in ScriptsOf["vmm"]
      BY <2>8, ScriptNames, DylibScripts DEF AddDependency
    <3>2. VmmSound(vmm)
      BY <1>0, <3>1 DEF VmmInv
    <3>3. o.ok /\ deploy' = deploy /\ pc' = IF pc = "add_dylib1" THEN "add_dylib2" ELSE "sign_vmm"
      BY <2>8 DEF AddDependency
    <3>4. Sound("vmm", o.bin) /\ Keeps("vmm", vmm.bin, o.bin) /\ Present(pc, o.bin)
      BY <3>1, <3>2, <3>3, DylibScripts, OutcomeSound DEF VmmSound
    <3>5. vmm' = [vmm EXCEPT !.bin = o.bin, !.sealed = signed]
      BY <2>8 DEF AddDependency
    <3> HIDE DEF o, signed
    <3>6. IsCopy(vmm)
      BY <3>2 DEF VmmSound
    <3>7. vmm'.bin = o.bin /\ IsCopy(vmm')
      <4>1. vmm \in [torn : {FALSE}, bin : {o.bin, vmm.bin}, sealed : {signed, vmm.sealed}]
        BY <3>6 DEF IsCopy
      <4>2. vmm'.bin = o.bin /\ vmm'.sealed = signed
            /\ vmm' \in [torn : {FALSE}, bin : {o.bin}, sealed : {signed}]
        BY <3>5, <4>1
      <4> QED BY <4>2 DEF IsCopy
    <3>8. applied \subseteq ScriptsOf["vmm"]
      BY <1>0, <3>1 DEF RunInv, Finished, PatchInv
    <3>9. \A t \in ScriptsOf["vmm"] : Present(t, vmm.bin) => Present(t, o.bin)
      BY <3>4, DylibScripts, PresentKept
    <3>10. VmmSound(vmm)'
      <4>1. \A t \in applied : Present(t, o.bin)
        BY <3>2, <3>8, <3>9 DEF VmmSound
      <4> QED BY <2>0, <3>4, <3>7, <4>1 DEF VmmSound
    <3>11. pc = "add_dylib2" => Present("add_dylib1", o.bin)
      BY <1>0, <3>9, DylibScripts DEF VmmInv
    <3>12. Whole(deploy)' => VmmSound(deploy.vmm)'
      BY <1>0, <2>0, <3>3 DEF VmmInv, VmmSound
    <3>13. CASE pc = "add_dylib1"
      <4>1. pc' = "add_dylib2" /\ Present("add_dylib1", vmm'.bin)
        BY <3>3, <3>4, <3>7, <3>13
      <4> QED BY <3>10, <3>12, <4>1 DEF VmmInv
    <3>14. CASE pc = "add_dylib2"
      <4>1. pc' = "sign_vmm" /\ Present("add_dylib1", vmm'.bin) /\ Present("add_dylib2", vmm'.bin)
        BY <3>3, <3>4, <3>7, <3>11, <3>14
      <4> QED BY <3>10, <3>12, <4>1 DEF VmmInv
    <3> QED BY <3>1, <3>13, <3>14
  <2>9. CASE SignVmm
    <3>1. VmmSound(vmm) /\ Present("add_dylib1", vmm.bin) /\ Present("add_dylib2", vmm.bin)
      BY <1>0, <2>9 DEF SignVmm, VmmInv
    <3>2. vmm' = [vmm EXCEPT !.sealed = TRUE] /\ deploy' = deploy /\ pc' = "app"
      BY <2>9 DEF SignVmm
    <3>3. IsCopy(vmm)
      BY <3>1 DEF VmmSound
    <3>4. vmm'.bin = vmm.bin /\ IsCopy(vmm')
      BY <3>2, <3>3, CopySigned
    <3>5. VmmSound(vmm)' /\ (Whole(deploy)' => VmmSound(deploy.vmm)')
      BY <1>0, <2>0, <3>1, <3>2, <3>4 DEF VmmInv, VmmSound
    <3> QED BY <3>1, <3>2, <3>4, <3>5 DEF VmmInv
  <2>10. CASE WriteDeploy
    <3>1. deploy'.vmm = vmm /\ vmm' = vmm /\ pc' = "app_tar" /\ pc = "deploy"
      BY <2>10 DEF WriteDeploy
    <3> QED BY <1>0, <2>0, <3>1 DEF VmmInv, VmmSound
  <2>11. CASE Abort
    <3>1. pc' = "idle" /\ (deploy' = deploy \/ deploy' = TornArchive)
      <4>1. deploy' \in {deploy} \cup (IF pc = "deploy" THEN {TornArchive} ELSE {}) /\ pc' = "idle"
        BY <2>11, Zenon DEF Abort
      <4> QED BY <4>1
    <3>2. Whole(deploy') => deploy' = deploy
      BY <3>1 DEF Whole, TornArchive
    <3> QED BY <1>0, <2>0, <3>1, <3>2 DEF VmmInv, VmmSound, Whole
  <2> QED BY <1>2, <2>3, <2>4, <2>5, <2>6, <2>7, <2>8, <2>9, <2>10, <2>11 DEF Packing
<1> QED BY <1>1, <1>2 DEF Next

LEMMA StageInvStep == PackInv /\ Next => StageInv'
<1> SUFFICES ASSUME PackInv, Next PROVE StageInv'
  OBVIOUS
<1> USE DEF Steps, Built, AppSteps, Final, VmmSteps
<1>0. RunInv /\ StageInv
  BY DEF PackInv
<1>1. ASSUME pc' \in {"idle", "compiler"} PROVE StageInv'
  <2>1. Written' = {}
    BY <1>1 DEF Written
  <2> QED BY <2>1 DEF StageInv
<1>2. ASSUME pc \in {"vmm"} \cup VmmSteps \cup Built, pc' \in VmmSteps \cup Built,
             UNCHANGED <<stage, opt, runs>>
      PROVE  StageInv'
  <2>1. Written' = Written
    BY <1>2 DEF Written
  <2>2. \A p : Input(p)' = Input(p)
    BY <1>2 DEF Input
  <2> QED BY <1>0, <1>2, <2>1, <2>2 DEF StageInv
<1>3. CASE Patching
  BY <1>1, <1>3 DEF Patching, packVars
<1>4. CASE StartPackaging \/ WriteManifest \/ Abort \/ RebuildApp
  <2>1. pc' \in {"idle", "compiler"}
    BY <1>4 DEF StartPackaging, WriteManifest, Abort, RebuildApp
  <2> QED BY <1>1, <2>1
<1>5. CASE StageGroup
  <2>1. /\ pc \in {"compiler", "cache", "runtime"} /\ stage' = Staged(Len(Group))
        /\ opt' = opt /\ runs' = runs
        /\ pc' = CASE pc = "compiler" -> "cache" [] pc = "cache" -> "runtime" [] OTHER -> "vmm"
    BY <1>5 DEF StageGroup
  <2>2. \A p : Input(p)' = Input(p)
    BY <2>1 DEF Input
  <2>3. ASSUME NEW p \in Written', p \notin Written PROVE \E i \in 1 .. Len(Group) : Group[i] = p
    <3>1. CASE pc = "compiler"
      <4>1. opt.compiler /\ p \in {"c1", "c2", "profile"}
        BY <2>1, <2>3, <3>1 DEF Written, CompilerFiles
      <4>2. Group = <<"c1", "c2", "profile">>
        BY <3>1, <4>1 DEF Group, CompilerGroup
      <4>3. Len(Group) = 3 /\ Group[1] = "c1" /\ Group[2] = "c2" /\ Group[3] = "profile"
        BY <4>2
      <4> QED BY <4>1, <4>3
    <3>2. CASE pc = "cache"
      <4>1. opt.cache /\ p \in {"s1", "s2", "smanifest"}
        BY <2>1, <2>3, <3>2 DEF Written, CacheFiles
      <4>2. Group = <<"s1", "s2", "smanifest">>
        BY <3>2, <4>1 DEF Group, CacheGroup
      <4>3. Len(Group) = 3 /\ Group[1] = "s1" /\ Group[2] = "s2" /\ Group[3] = "smanifest"
        BY <4>2
      <4> QED BY <4>1, <4>3
    <3>3. CASE pc = "runtime"
      <4>1. p \in {"lib", "task", "taskinfo"}
        BY <2>1, <2>3, <3>3 DEF Written
      <4>2. Group = <<"lib", "task", "taskinfo">>
        BY <3>3, <4>1 DEF Group, RuntimeGroup
      <4>3. Len(Group) = 3 /\ Group[1] = "lib" /\ Group[2] = "task" /\ Group[3] = "taskinfo"
        BY <4>2
      <4> QED BY <4>1, <4>3
    <3> QED BY <2>1, <3>1, <3>2, <3>3
  <2>4. Written' \subseteq StagePaths
    BY DEF Written, StagePaths
  <2>5. \A p \in Written' : stage'[p] = Input(p)
    <3> TAKE p \in Written'
    <3>1. stage'[p] = IF \E i \in 1 .. Len(Group) : Group[i] = p THEN Input(p) ELSE stage[p]
      BY <2>1, <2>4 DEF Staged
    <3>2. p \in Written => stage[p] = Input(p)
      BY <1>0 DEF StageInv
    <3> QED BY <2>3, <3>1, <3>2
  <2> QED BY <2>2, <2>5 DEF StageInv
<1>6. CASE CopyVmm \/ CheckPrebuilt \/ SignVmm
  <2>1. pc \in {"vmm"} \cup VmmSteps /\ pc' \in VmmSteps \cup Built
    BY <1>6 DEF CopyVmm, CheckPrebuilt, SignVmm
  <2> QED BY <1>2, <1>6, <2>1 DEF CopyVmm, CheckPrebuilt, SignVmm
<1>7. CASE AddDependency
  BY <1>2, <1>7, ScriptNames DEF AddDependency
<1>8. CASE ConfigureApp
  <2>1. pc' = After(pc) /\ pc \in {"app", "app_exe", "app_lib", "app_unseal", "app_seal"}
    BY <1>8 DEF ConfigureApp
  <2>2. pc' \in AppSteps
    BY <2>1 DEF After
  <2> QED BY <1>2, <1>8, <2>1, <2>2 DEF ConfigureApp
<1>9. CASE Preserved \/ Verify \/ WriteTrust \/ WriteDeploy \/ WriteAppTar
  <2>1. pc \in Built /\ pc' \in Built
    BY <1>9 DEF Preserved, Verify, WriteTrust, WriteDeploy, WriteAppTar
  <2> QED BY <1>2, <1>9, <2>1 DEF Preserved, Verify, WriteTrust, WriteDeploy, WriteAppTar
<1> QED BY <1>3, <1>4, <1>5, <1>6, <1>7, <1>8, <1>9 DEF Next, Packing

\* One file of the app bundle is replaced.
LEMMA AppEdited ==
  ASSUME NEW a, IsApp(a), NEW v, NEW c
  PROVE  /\ c = [a EXCEPT !.info = v] => IsApp(c) /\ c.info = v /\ c.exe = a.exe
         /\ c = [a EXCEPT !.exe = v] => IsApp(c) /\ c.info = a.info /\ c.exe = v
         /\ c = [a EXCEPT !.lib = v] => IsApp(c) /\ c.info = a.info /\ c.exe = a.exe
         /\ c = [a EXCEPT !.res = v] => IsApp(c) /\ c.info = a.info /\ c.exe = a.exe
<1>1. ASSUME c = [a EXCEPT !.info = v] PROVE IsApp(c) /\ c.info = v /\ c.exe = a.exe
  <2>1. c.info = v /\ c.exe = a.exe /\ c.lib = a.lib /\ c.res = a.res
        /\ c \in [info : {v}, exe : {a.exe}, lib : {a.lib}, res : {a.res}]
    BY <1>1 DEF IsApp
  <2> QED BY <2>1 DEF IsApp
<1>2. ASSUME c = [a EXCEPT !.exe = v] PROVE IsApp(c) /\ c.info = a.info /\ c.exe = v
  <2>1. c.info = a.info /\ c.exe = v /\ c.lib = a.lib /\ c.res = a.res
        /\ c \in [info : {a.info}, exe : {v}, lib : {a.lib}, res : {a.res}]
    BY <1>2 DEF IsApp
  <2> QED BY <2>1 DEF IsApp
<1>3. ASSUME c = [a EXCEPT !.lib = v] PROVE IsApp(c) /\ c.info = a.info /\ c.exe = a.exe
  <2>1. c.info = a.info /\ c.exe = a.exe /\ c.lib = v /\ c.res = a.res
        /\ c \in [info : {a.info}, exe : {a.exe}, lib : {v}, res : {a.res}]
    BY <1>3 DEF IsApp
  <2> QED BY <2>1 DEF IsApp
<1>4. ASSUME c = [a EXCEPT !.res = v] PROVE IsApp(c) /\ c.info = a.info /\ c.exe = a.exe
  <2>1. c.info = a.info /\ c.exe = a.exe /\ c.lib = a.lib /\ c.res = v
        /\ c \in [info : {a.info}, exe : {a.exe}, lib : {a.lib}, res : {v}]
    BY <1>4 DEF IsApp
  <2> QED BY <2>1 DEF IsApp
<1> QED BY <1>1, <1>2, <1>3, <1>4

LEMMA AppsAre == \A a \in Apps : IsApp(a)
<1> SUFFICES ASSUME NEW a \in Apps PROVE IsApp(a)
  OBVIOUS
<1>1. \/ a = [info |-> 0, exe |-> Exe("build", 0), lib |-> TRUE, res |-> 0]
      \/ a = [info |-> 1, exe |-> Exe("v2", 0), lib |-> TRUE, res |-> 0]
  BY DEF Apps
<1> QED BY <1>1 DEF IsApp

LEMMA AppInvStep == PackInv /\ Next => AppInv'
<1> SUFFICES ASSUME PackInv, Next PROVE AppInv'
  OBVIOUS
<1> USE DEF Built, AppSteps, Final, VmmSteps
<1>0. RunInv /\ AppInv
  BY DEF PackInv
<1>1. ASSUME app' = app, pc' \notin AppSteps \cup Final PROVE AppInv'
  BY <1>0, <1>1 DEF AppInv
<1>2. CASE Patching
  BY <1>1, <1>2 DEF Patching, packVars
<1>3. CASE StartPackaging \/ StageGroup \/ CopyVmm \/ CheckPrebuilt \/ SignVmm \/ WriteManifest
  <2>1. app' = app /\ pc' \in {"idle", "compiler", "cache", "runtime", "vmm", "app"} \cup VmmSteps
    BY <1>3 DEF StartPackaging, StageGroup, CopyVmm, CheckPrebuilt, SignVmm, WriteManifest
  <2> QED BY <1>1, <2>1
<1>4. CASE AddDependency
  BY <1>1, <1>4, ScriptNames DEF AddDependency
<1>5. CASE Preserved
  BY <1>0, <1>5 DEF Preserved, AppInv
<1>6. CASE ConfigureApp
  <2>1. /\ pc' = After(pc) /\ pc \in {"app", "app_exe", "app_lib", "app_unseal", "app_seal"}
        /\ app' = Configured(app, pc) /\ opt' = opt /\ IsApp(app)
    BY <1>0, <1>6 DEF ConfigureApp, AppInv
  <2>2. CASE pc = "app"
    <3>1. app' = [app EXCEPT !.info = opt.version] /\ pc' = "app_exe"
      BY <2>1, <2>2 DEF Configured, After
    <3> QED BY <2>1, <3>1, AppEdited DEF AppInv
  <2>3. CASE pc = "app_exe"
    <3>1. app' = [app EXCEPT !.exe = Exe("v2", opt.version)] /\ pc' = "app_lib"
      BY <2>1, <2>3 DEF Configured, After
    <3>2. IsApp(app') /\ app'.info = app.info /\ app'.exe = Exe("v2", opt.version)
      BY <2>1, <3>1, AppEdited
    <3>3. Exe("v2", opt.version).id = "v2"
      BY DEF Exe
    <3> QED BY <1>0, <2>1, <2>3, <3>1, <3>2, <3>3 DEF AppInv
  <2>4. CASE pc = "app_lib"
    <3>1. app' = [app EXCEPT !.lib = TRUE] /\ pc' = "app_unseal"
      BY <2>1, <2>4 DEF Configured, After
    <3>2. IsApp(app') /\ app'.info = app.info /\ app'.exe = app.exe
      BY <2>1, <3>1, AppEdited
    <3> QED BY <1>0, <2>1, <2>4, <3>1, <3>2 DEF AppInv
  <2>5. CASE pc = "app_unseal"
    <3>1. app' = [app EXCEPT !.res = 0] /\ pc' = "app_seal"
      BY <2>1, <2>5 DEF Configured, After
    <3>2. IsApp(app') /\ app'.info = app.info /\ app'.exe = app.exe
      BY <2>1, <3>1, AppEdited
    <3> QED BY <1>0, <2>1, <2>5, <3>1, <3>2 DEF AppInv
  <2>6. CASE pc = "app_seal"
    <3>1. app' = [app EXCEPT !.res = opt.version] /\ pc' = "verify"
      BY <2>1, <2>6 DEF Configured, After
    <3>2. IsApp(app') /\ app'.info = app.info /\ app'.exe = app.exe
      BY <2>1, <3>1, AppEdited
    <3> QED BY <1>0, <2>1, <2>6, <3>1, <3>2 DEF AppInv
  <2> QED BY <2>1, <2>2, <2>3, <2>4, <2>5, <2>6
<1>7. CASE Verify \/ WriteTrust \/ WriteDeploy \/ WriteAppTar
  BY <1>0, <1>7 DEF Verify, WriteTrust, WriteDeploy, WriteAppTar, AppInv
<1>8. CASE Abort
  <2>1. pc' = "idle" /\ app' \in TornApp
    BY <1>8 DEF Abort
  <2>2. \/ app' = app \/ app' = [app EXCEPT !.info = -1]
        \/ app' = [app EXCEPT !.exe = TornExe] \/ app' = [app EXCEPT !.lib = FALSE]
    BY <2>1 DEF TornApp
  <2>3. IsApp(app')
    BY <1>0, <2>2, AppEdited DEF AppInv
  <2> QED BY <2>1, <2>3 DEF AppInv
<1>9. CASE RebuildApp
  <2>1. pc' = "idle" /\ app' \in Apps
    BY <1>9 DEF RebuildApp
  <2> QED BY <2>1, AppsAre DEF AppInv
<1> QED BY <1>2, <1>3, <1>4, <1>5, <1>6, <1>7, <1>8, <1>9 DEF Next, Packing

LEMMA VerifyInvStep == PackInv /\ Next => VerifyInv'
<1> SUFFICES ASSUME PackInv, Next PROVE VerifyInv'
  OBVIOUS
<1> USE DEF Built, AppSteps, Final, VmmSteps
<1>0. VerifyInv
  BY DEF PackInv
<1>1. ASSUME pc' \notin Final PROVE VerifyInv'
  BY <1>1 DEF VerifyInv
<1>2. CASE Patching \/ RebuildApp
  BY <1>1, <1>2 DEF Patching, packVars, RebuildApp
<1>3. CASE StartPackaging \/ StageGroup \/ CopyVmm \/ CheckPrebuilt \/ SignVmm \/ Preserved
           \/ WriteManifest \/ Abort
  <2>1. pc' \in {"idle", "compiler", "cache", "runtime", "vmm", "app", "verify"} \cup VmmSteps
    BY <1>3 DEF StartPackaging, StageGroup, CopyVmm, CheckPrebuilt, SignVmm, Preserved,
                WriteManifest, Abort
  <2> QED BY <1>1, <2>1
<1>4. CASE AddDependency
  BY <1>1, <1>4 DEF AddDependency
<1>5. CASE ConfigureApp
  <2>1. pc' = After(pc) /\ pc \in {"app", "app_exe", "app_lib", "app_unseal", "app_seal"}
    BY <1>5 DEF ConfigureApp
  <2>2. pc' \in AppSteps
    BY <2>1 DEF After
  <2> QED BY <1>1, <2>2
<1>6. ASSUME UNCHANGED <<opt, stage, vmm, app>>
      PROVE  /\ Verified' = Verified /\ Code(opt)' = Code(opt) /\ (ExeVerifies' <=> ExeVerifies)
  BY <1>6 DEF Verified, Code, ExeVerifies
<1>7. CASE Verify
  <2>1. /\ UNCHANGED <<opt, stage, vmm, app>> /\ pc' = "trust" /\ hashes' = Verified
        /\ vmm.sealed /\ ExeVerifies /\ app.lib /\ \A p \in Code(opt) : stage[p].verifies
    BY <1>7 DEF Verify
  <2> QED BY <1>6, <2>1 DEF VerifyInv
<1>8. CASE WriteTrust \/ WriteDeploy \/ WriteAppTar
  <2>1. /\ UNCHANGED <<opt, stage, vmm, app, hashes>> /\ pc \in Final /\ pc' \in Final
        /\ pc = "trust" => trust' = hashes
        /\ pc # "trust" => trust' = trust
    BY <1>8 DEF WriteTrust, WriteDeploy, WriteAppTar
  <2>2. /\ hashes = Verified /\ vmm.sealed /\ ExeVerifies /\ app.lib
        /\ \A p \in Code(opt) : stage[p].verifies
        /\ pc # "trust" => trust = hashes
    BY <1>0, <2>1 DEF VerifyInv
  <2> QED BY <1>6, <2>1, <2>2 DEF VerifyInv
<1> QED BY <1>2, <1>3, <1>4, <1>5, <1>7, <1>8 DEF Next, Packing

LEMMA ArchiveInvStep == PackInv /\ Next => ArchiveInv'
<1> SUFFICES ASSUME PackInv, Next PROVE ArchiveInv'
  OBVIOUS
<1> USE DEF Built, AppSteps, Final, VmmSteps
<1>0. RunInv /\ VerifyInv /\ ArchiveInv
  BY DEF PackInv
<1>1. runs \in Nat /\ (pc # "idle" => runs > 0)
  BY <1>0 DEF RunInv
<1>2. ASSUME runs' = runs, manifest' = manifest, pc' = "idle" \/ pc # "idle",
             pc' \notin {"app_tar", "manifest"}
      PROVE  ArchiveInv'
  BY <1>0, <1>1, <1>2 DEF ArchiveInv
<1>3. CASE Patching \/ RebuildApp
  <2>1. runs' = runs /\ manifest' = manifest /\ pc' = "idle"
    BY <1>3 DEF Patching, packVars, RebuildApp
  <2> QED BY <1>2, <2>1
<1>4. CASE StartPackaging
  <2>1. runs' = runs + 1 /\ manifest' = manifest /\ pc' = "compiler"
    BY <1>4 DEF StartPackaging
  <2> QED BY <1>0, <1>1, <2>1 DEF ArchiveInv
<1>5. CASE StageGroup \/ CopyVmm \/ CheckPrebuilt \/ SignVmm \/ Preserved \/ Verify \/ WriteTrust
  <2>1. /\ runs' = runs /\ manifest' = manifest /\ pc # "idle"
        /\ pc' \in {"cache", "runtime", "vmm", "app", "verify", "trust", "deploy"} \cup VmmSteps
    BY <1>5 DEF StageGroup, CopyVmm, CheckPrebuilt, SignVmm, Preserved, Verify, WriteTrust
  <2> QED BY <1>2, <2>1
<1>6. CASE AddDependency
  BY <1>2, <1>6, ScriptNames DEF AddDependency
<1>7. CASE ConfigureApp
  <2>1. /\ pc' = After(pc) /\ pc \in {"app", "app_exe", "app_lib", "app_unseal", "app_seal"}
        /\ runs' = runs /\ manifest' = manifest
    BY <1>7 DEF ConfigureApp
  <2>2. pc' \in AppSteps
    BY <2>1 DEF After
  <2> QED BY <1>2, <2>1, <2>2
<1>8. CASE WriteDeploy
  <2>1. /\ pc = "deploy" /\ pc' = "app_tar" /\ UNCHANGED <<runs, manifest, hashes>>
        /\ deploy' = [run |-> runs, code |-> {<<p, stage[p]>> : p \in Members}, vmm |-> vmm, trust |-> trust]
    BY <1>8 DEF WriteDeploy
  <2>2. deploy'.run = runs /\ deploy'.trust = trust
    BY <2>1
  <2>3. trust = hashes
    BY <1>0, <2>1 DEF VerifyInv
  <2> QED BY <1>0, <2>1, <2>2, <2>3 DEF ArchiveInv
<1>9. CASE WriteAppTar
  <2>1. /\ pc = "app_tar" /\ pc' = "manifest" /\ UNCHANGED <<runs, manifest, hashes, deploy, app>>
        /\ appTar' = [run |-> runs, app |-> app]
    BY <1>9 DEF WriteAppTar, AppArchive
  <2>2. appTar'.run = runs /\ appTar'.app = app
    BY <2>1
  <2> QED BY <1>0, <2>1, <2>2 DEF ArchiveInv
<1>10. CASE WriteManifest
  <2>1. /\ pc' = "idle" /\ runs' = runs
        /\ manifest' = [run |-> runs, version |-> opt.version, hashes |-> hashes]
    BY <1>10 DEF WriteManifest
  <2>2. manifest'.run = runs
    BY <2>1
  <2> QED BY <1>1, <2>1, <2>2 DEF ArchiveInv
<1>11. CASE Abort
  <2>1. pc' = "idle" /\ runs' = runs
        /\ manifest' \in {manifest} \cup (IF pc = "manifest" THEN {TornArchive} ELSE {})
    BY <1>11 DEF Abort
  <2>2. manifest' = manifest \/ manifest' = TornArchive
    BY <2>1
  <2>3. TornArchive.run = -1
    BY DEF TornArchive
  <2>4. manifest'.run \in Int /\ manifest'.run <= runs
    BY <1>0, <1>1, <2>2, <2>3 DEF ArchiveInv
  <2> QED BY <2>1, <2>4 DEF ArchiveInv
<1> QED BY <1>3, <1>4, <1>5, <1>6, <1>7, <1>8, <1>9, <1>10, <1>11 DEF Next, Packing

\* The deployment archive, when it is written.
LEMMA DeployWritten ==
  ASSUME PackInv, WriteDeploy
  PROVE  DeployTrusted' /\ DeployedVmm'
<1> USE DEF Built, AppSteps, Final
<1>0. RunInv /\ VmmInv /\ StageInv /\ VerifyInv
  BY DEF PackInv
<1>1. /\ pc = "deploy" /\ applied' = applied
      /\ deploy' = [run |-> runs, code |-> {<<p, stage[p]>> : p \in Members}, vmm |-> vmm, trust |-> trust]
  BY DEF WriteDeploy, patchVars
<1>2. /\ deploy'.run = runs /\ deploy'.code = {<<p, stage[p]>> : p \in Members}
      /\ deploy'.vmm = vmm /\ deploy'.trust = trust
  BY <1>1
<1>3. /\ trust = Verified /\ vmm.sealed /\ \A p \in Code(opt) : stage[p].verifies
  BY <1>0, <1>1 DEF VerifyInv
<1>4. \A p \in Members : stage[p] = Input(p)
  <2>1. Members \subseteq Written
    BY <1>1 DEF Members, Code, Metadata, Written
  <2> QED BY <1>0, <2>1 DEF StageInv
<1>5. \A p \in Members : stage[p].run = runs
  <2>1. \A p : Input(p).run = runs
    BY DEF Input
  <2> QED BY <1>4, <2>1
<1>6. \A p \in Members : stage[p].verifies
  <2>1. ASSUME NEW p \in Metadata(opt) PROVE stage[p].verifies
    <3>1. p # "lib"
      BY <2>1 DEF Metadata, CacheFiles
    <3>2. stage[p] = [run |-> runs, verifies |-> TRUE]
      BY <1>4, <2>1, <3>1 DEF Members, Input
    <3> QED BY <3>2
  <2> QED BY <1>3, <2>1 DEF Members
<1>7. DeployTrusted'
  <2>1. ASSUME NEW m \in deploy'.code PROVE m[2].run = deploy'.run /\ m[2].verifies
    <3>1. PICK p \in Members : m = <<p, stage[p]>>
      BY <1>2, <2>1
    <3>2. m[2] = stage[p]
      BY <3>1
    <3> QED BY <1>2, <1>5, <1>6, <3>2
  <2>2. ASSUME NEW m \in deploy'.code, m[1] \in {"lib", "task"} \cup CompilerFiles
        PROVE  m \in deploy'.trust
    <3>1. PICK p \in Members : m = <<p, stage[p]>>
      BY <1>2, <2>2
    <3>2. p \in {"lib", "task"} \cup CompilerFiles
      BY <2>2, <3>1
    <3>3. p \in Code(opt)
      BY <3>1, <3>2 DEF Members, Code, Metadata, CompilerFiles, CacheFiles
    <3> QED BY <1>2, <1>3, <3>1, <3>3 DEF Verified
  <2>3. <<"vmm", deploy'.vmm>> \in deploy'.trust
    BY <1>2, <1>3 DEF Verified
  <2>4. ASSUME NEW h \in deploy'.trust PROVE h \in deploy'.code \/ h[1] \in {"vmm", "exe", "applib"}
    <3>1. \/ \E p \in Code(opt) : h = <<p, stage[p]>>
          \/ h = <<"vmm", vmm>> \/ h = <<"exe", app.exe>> \/ h = <<"applib", app.lib>>
      BY <1>2, <1>3, <2>4 DEF Verified
    <3>2. CASE \E p \in Code(opt) : h = <<p, stage[p]>>
      BY <1>2, <3>2 DEF Members
    <3>3. CASE h = <<"vmm", vmm>> \/ h = <<"exe", app.exe>> \/ h = <<"applib", app.lib>>
      BY <3>3
    <3> QED BY <3>1, <3>2, <3>3
  <2> QED BY <2>1, <2>2, <2>3, <2>4 DEF DeployTrusted
<1>8. DeployedVmm'
  <2>1. VmmSound(vmm) /\ Present("add_dylib1", vmm.bin) /\ Present("add_dylib2", vmm.bin)
    BY <1>0, <1>1 DEF VmmInv
  <2>2. \A s \in applied \cup DOMAIN DylibOf : Present(s, vmm.bin)
    BY <2>1, ScriptNames DEF VmmSound
  <2>3. \A w \in 1 .. Len(vmm.bin.cmds) : vmm.bin.slack[w] = "cmd"
    BY <2>1 DEF VmmSound, Sound
  <2> QED BY <1>1, <1>2, <1>3, <2>2, <2>3 DEF DeployedVmm
<1> QED BY <1>7, <1>8

LEMMA DeploymentStep == PackInv /\ Next => DeploymentSound'
<1> SUFFICES ASSUME PackInv, Next PROVE DeploymentSound'
  OBVIOUS
<1> USE DEF Built, AppSteps, Final
<1>0. RunInv /\ AppInv /\ VerifyInv /\ ArchiveInv
      /\ DeployTrusted /\ DeployedVmm /\ ArchivedApp /\ ManifestDescribes
  BY DEF PackInv, DeploymentSound
<1>1. DeployTrusted' /\ DeployedVmm'
  <2>1. CASE Patching
    <3>1. deploy' = NoArchive
      BY <1>0, <2>1 DEF Patching, packVars, RunInv
    <3>2. ~Whole(deploy')
      BY <3>1 DEF Whole, NoArchive
    <3> QED BY <3>2 DEF DeployTrusted, DeployedVmm, Whole
  <2>2. CASE WriteDeploy
    BY <2>2, DeployWritten
  <2>3. CASE Packing /\ ~WriteDeploy
    <3>1. applied' = applied
      BY <2>3, PayloadKept DEF patchVars
    <3>2. deploy' = deploy \/ deploy' = TornArchive
      <4>1. CASE Abort
        <5>1. deploy' \in {deploy} \cup (IF pc = "deploy" THEN {TornArchive} ELSE {})
          BY <4>1, Zenon DEF Abort
        <5> QED BY <5>1
      <4>2. CASE ~Abort
        BY <2>3, <4>2 DEF Packing, StartPackaging, StageGroup, CopyVmm, CheckPrebuilt,
                AddDependency, SignVmm, Preserved, ConfigureApp, Verify, WriteTrust, WriteAppTar,
                WriteManifest, RebuildApp
      <4> QED BY <4>1, <4>2
    <3>3. CASE deploy' = deploy
      BY <1>0, <3>1, <3>3 DEF DeployTrusted, DeployedVmm
    <3>4. CASE deploy' = TornArchive
      <4>1. ~Whole(deploy')
        BY <3>4 DEF Whole, TornArchive
      <4> QED BY <4>1 DEF DeployTrusted, DeployedVmm, Whole
    <3> QED BY <3>2, <3>3, <3>4
  <2> QED BY <2>1, <2>2, <2>3 DEF Next
<1>2. CASE WriteAppTar
  <2>1. /\ pc = "app_tar" /\ UNCHANGED <<runs, manifest>>
        /\ appTar' = [run |-> runs, app |-> app]
    BY <1>2 DEF WriteAppTar, AppArchive
  <2>2. appTar'.app = app
    BY <2>1
  <2>3. app.exe.id = "v2" /\ app.lib /\ (app.exe.binds # 0 => app.exe.binds = app.info /\ app.res = app.info)
    BY <1>0, <2>1 DEF AppInv, VerifyInv, ExeVerifies
  <2>4. ArchivedApp'
    BY <2>2, <2>3 DEF ArchivedApp
  <2>5. ManifestDescribes'
    <3>1. manifest.run # runs
      BY <1>0, <2>1 DEF ArchiveInv, RunInv
    <3> QED BY <2>1, <3>1 DEF ManifestDescribes
  <2> QED BY <1>1, <2>4, <2>5 DEF DeploymentSound
<1>3. CASE ~WriteAppTar
  <2>1. ArchivedApp'
    <3>1. appTar' = appTar \/ appTar' = TornArchive
      <4>1. CASE Abort
        <5>1. appTar' \in {appTar} \cup (IF pc = "app_tar" THEN {TornArchive} ELSE {})
          BY <4>1, Zenon DEF Abort
        <5> QED BY <5>1
      <4>2. CASE ~Abort
        BY <1>3, <4>2 DEF Next, Patching, packVars, Packing, StartPackaging, StageGroup, CopyVmm,
                CheckPrebuilt, AddDependency, SignVmm, Preserved, ConfigureApp, Verify, WriteTrust,
                WriteDeploy, WriteManifest, RebuildApp
      <4> QED BY <4>1, <4>2
    <3>2. CASE appTar' = appTar
      BY <1>0, <3>2 DEF ArchivedApp
    <3>3. CASE appTar' = TornArchive
      <4>1. ~Whole(appTar')
        BY <3>3 DEF Whole, TornArchive
      <4> QED BY <4>1 DEF ArchivedApp, Whole
    <3> QED BY <3>1, <3>2, <3>3
  <2>2. ManifestDescribes'
    <3>1. CASE WriteManifest
      <4>1. /\ pc = "manifest" /\ UNCHANGED <<runs, deploy, appTar>>
            /\ manifest' = [run |-> runs, version |-> opt.version, hashes |-> hashes]
        BY <3>1 DEF WriteManifest
      <4>2. manifest'.version = opt.version /\ manifest'.hashes = hashes
        BY <4>1
      <4>3. /\ deploy.run = runs /\ deploy.trust = hashes /\ appTar.run = runs /\ appTar.app = app
        BY <1>0, <4>1 DEF ArchiveInv
      <4>4. app.info = opt.version /\ <<"exe", app.exe>> \in hashes
        BY <1>0, <4>1 DEF AppInv, VerifyInv, Verified
      <4> QED BY <4>1, <4>2, <4>3, <4>4 DEF ManifestDescribes
    <3>2. CASE UNCHANGED <<manifest, runs, deploy, appTar>>
      BY <1>0, <3>2 DEF ManifestDescribes
    <3>3. ASSUME manifest'.run < runs', runs' \in Nat, manifest'.run \in Int PROVE ManifestDescribes'
      BY <3>3 DEF ManifestDescribes
    <3>4. CASE StartPackaging
      <4>1. manifest' = manifest /\ runs' = runs + 1
        BY <3>4 DEF StartPackaging
      <4> QED BY <1>0, <3>3, <4>1 DEF ArchiveInv, RunInv
    <3>5. CASE WriteDeploy
      <4>1. pc = "deploy" /\ manifest' = manifest /\ runs' = runs
        BY <3>5 DEF WriteDeploy
      <4> QED BY <1>0, <3>3, <4>1 DEF ArchiveInv, RunInv
    <3>6. CASE Abort
      <4>1. pc # "idle" /\ runs' = runs
            /\ manifest' \in {manifest} \cup (IF pc = "manifest" THEN {TornArchive} ELSE {})
        BY <3>6, Zenon DEF Abort
      <4>2. manifest' = manifest \/ manifest' = TornArchive
        BY <4>1
      <4>3. TornArchive.run = -1
        BY DEF TornArchive
      <4> QED BY <1>0, <3>3, <4>1, <4>2, <4>3 DEF ArchiveInv, RunInv
    <3>7. CASE ~(WriteManifest \/ StartPackaging \/ WriteDeploy \/ Abort)
      BY <1>3, <3>2, <3>7 DEF Next, Patching, packVars, Packing, StageGroup, CopyVmm,
              CheckPrebuilt, AddDependency, SignVmm, Preserved, ConfigureApp, Verify, WriteTrust,
              RebuildApp
    <3> QED BY <3>1, <3>4, <3>5, <3>6, <3>7
  <2> QED BY <1>1, <2>1, <2>2 DEF DeploymentSound
<1> QED BY <1>2, <1>3

LEMMA PackInvInit == Init => PackInv
<1> SUFFICES ASSUME Init PROVE PackInv
  OBVIOUS
<1> USE DEF Steps, Built, AppSteps, Final, VmmSteps
<1>1. /\ pc = "idle" /\ runs = 0 /\ app \in Apps
      /\ deploy = NoArchive /\ appTar = NoArchive /\ manifest = NoArchive
  BY DEF Init, PackInit
<1>2. NoArchive.run = 0 /\ ~Whole(NoArchive)
  BY DEF NoArchive, Whole
<1>3. PatchInv
  BY PatchInvInit DEF Init
<1>4. RunInv /\ VmmInv /\ VerifyInv
  BY <1>1, <1>2 DEF RunInv, VmmInv, VerifyInv
<1>5. StageInv
  BY <1>1 DEF StageInv, Written
<1>6. AppInv /\ ArchiveInv
  BY <1>1, <1>2, AppsAre DEF AppInv, ArchiveInv
<1>7. DeploymentSound
  BY <1>1, <1>2 DEF DeploymentSound, DeployTrusted, DeployedVmm, ArchivedApp, ManifestDescribes
<1> QED BY <1>3, <1>4, <1>5, <1>6, <1>7 DEF PackInv

\* Whatever earlier runs, crashes and other tools left in the output directory,
\* and however often packaging is run: a whole deployment archive holds files
\* of its own run that verify and are trusted, and a VMM that has all patches
\* of its payload; a whole app archive verifies; and a manifest of the last run
\* describes both.
THEOREM DeploymentSafe == Spec => []DeploymentSound
<1>1. PackInv /\ [Next]_vars => PackInv'
  <2> SUFFICES ASSUME PackInv, [Next]_vars PROVE PackInv'
    OBVIOUS
  <2>1. CASE Next
    <3>1. PatchInv'
      <4>1. PatchInv
        BY DEF PackInv
      <4>2. CASE Patching
        BY <4>1, <4>2, PatchInvStep DEF Patching
      <4>3. CASE Packing
        BY <4>1, <4>3, PayloadKept DEF patchVars, PatchInv
      <4> QED BY <2>1, <4>2, <4>3 DEF Next
    <3> QED BY <2>1, <3>1, RunInvStep, VmmInvStep, StageInvStep, AppInvStep, VerifyInvStep,
               ArchiveInvStep, DeploymentStep DEF PackInv
  <2>2. CASE UNCHANGED vars
    <3>1. UNCHANGED patchVars /\ UNCHANGED packVars
      BY <2>2 DEF vars
    <3>2. PatchInv' /\ RunInv' /\ VmmInv'
      BY <3>1 DEF PackInv, patchVars, packVars, PatchInv, RunInv, Finished, VmmInv, VmmSound, Whole
    <3>3. StageInv' /\ AppInv' /\ VerifyInv'
      BY <3>1 DEF PackInv, packVars, StageInv, Written, Input, AppInv, VerifyInv, Verified, Code,
                  ExeVerifies
    <3>4. ArchiveInv' /\ DeploymentSound'
      BY <3>1 DEF PackInv, patchVars, packVars, ArchiveInv, DeploymentSound, DeployTrusted,
                  DeployedVmm, ArchivedApp, ManifestDescribes, Whole
    <3> QED BY <3>2, <3>3, <3>4 DEF PackInv
  <2> QED BY <2>1, <2>2
<1>2. PackInv => DeploymentSound
  BY DEF PackInv
<1> QED BY <1>1, <1>2, PackInvInit, PTL DEF Spec
=============================================================================
