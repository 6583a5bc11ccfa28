------------------------------ MODULE Uncache ------------------------------
(***************************************************************************)
(* uncache.py: an image of the dyld shared cache becomes a dylib that dyld *)
(* can load by itself.  The cache keeps the image's pointers as slide-info *)
(* chains over the whole cache, and has moved its GOT, its selector        *)
(* strings and its branch islands out of the image; main() collects what   *)
(* is needed, lays the image out again, repoints the code, classifies      *)
(* every pointer as a rebase or a bind and weaves the chained fixups.      *)
(*                                                                         *)
(* One action per stage of main(), in its order.  `img` is the input: the  *)
(* cache's view of the image and DyldExtractor's file.  Instruction        *)
(* rewriting (rewrite_adrp) has a module of its own, AdrpRewrite: here a   *)
(* code reference is the slot it ends up reading.                          *)
(***************************************************************************)
EXTENDS ChainedFixups, Functions, TLC

CONSTANTS Images,      \* the inputs
          Sym,         \* ipsw dyld a2sb: address -> label [tag, base]
          CStr,        \* address -> the C string the cache holds there
          SymbolAt,    \* address -> the symbol that really lives there
          BranchReach  \* words a B/BL instruction can span

\* The sections that can host the pool, and who has methods.
Hosts == {"__objc_selrefs", "__got", "__data"}
MethodOwners == {"class", "metaclass", "category", "protocol"}

\* A Mach-O image as DyldExtractor writes it: segments share neither memory nor
\* file and are not longer in the file, and a section that can host the pool has
\* its bytes in the file.
Apart(x, xs, y, ys) == x + xs <= y \/ y + ys <= x
ImageOK(image) ==
  LET segs == image.segs
  IN  /\ segs # <<>> /\ segs \in Seq([name : STRING, va : Nat, vs : Nat, fo : Nat, fs : Nat])
      /\ \A i \in DOMAIN segs : segs[i].fs <= segs[i].vs
      /\ \A i, j \in DOMAIN segs : i # j =>
           /\ Apart(segs[i].va, segs[i].vs, segs[j].va, segs[j].vs)
           /\ Apart(segs[i].fo, segs[i].fs, segs[j].fo, segs[j].fs)
      /\ \A n \in Hosts \cap DOMAIN image.sects :
           LET sect == image.sects[n]
           IN  /\ sect.addr \in Nat /\ sect.size \in Nat
               /\ \E i \in SegAt(segs, sect.addr) :
                    sect.addr + sect.size <= segs[i].va + segs[i].fs
      /\ IsFiniteSet(UNION {l.methods : l \in UNION {image.lists[o] : o \in MethodOwners}})
      /\ IsFiniteSet(image.slides) /\ IsFiniteSet(DOMAIN image.got) /\ IsFiniteSet(DOMAIN image.pers)
      /\ IsFiniteSet(DOMAIN image.branches) /\ IsFiniteSet(DOMAIN image.lsda.types)
      /\ image.header.kept \in Nat /\ image.header.droppable \in Nat
      /\ image.header.firstSection \in Nat

ASSUME ImagesAssumption == \A image \in Images : ImageOK(image)

VARIABLES pc, img, fx, refs, pool, lay, code, methods, entries, imports, starts, exports, header

uncacheVars == <<pc, img, fx, refs, pool, lay, code, methods, entries, imports, starts, exports, header>>

Nil == [k |-> "nil"]
NoName == [tag |-> "none", base |-> ""]
NoStr == ""

a2s(t) == IF t \in DOMAIN Sym THEN Sym[t] ELSE NoName
read_cstr(t) == IF t \in DOMAIN CStr THEN CStr[t] ELSE NoStr
StripPtr(n) == IF n.tag = "ptr" THEN [n EXCEPT !.tag = "plain"] ELSE n

\* a2s names a concrete block or an XPC type singleton after a class alias.
ALIAS == [b \in {"class_NSGlobalBlock"} |-> "NSConcreteGlobalBlock"]
MsgSend == [b \in {"objc_msgSend$init"} |-> "init"]      \* branch islands that load a selector

\* canonical_import_name: a slot label back to the symbol it stands for.
CanonicalImportName(n) ==
  LET b == IF n.tag = "branch" /\ n.base \in DOMAIN MsgSend THEN "objc_msgSend" ELSE n.base
  IN  IF b \in DOMAIN ALIAS THEN ALIAS[b] ELSE b

compact == img.mode = "compact"
modern == img.version = 5
CacheSegs == SelectSeq(img.segs, LAMBDA s : s.name # "__EXTRA_OBJC")
InImg(a) == InSegs(CacheSegs, a)
HasSect(s) == s \in DOMAIN img.sects
amap(a) == Amap(lay.deltas, a)
nbase == IF compact THEN NewBase ELSE Least({CacheSegs[i].va : i \in DOMAIN CacheSegs})
TextSeg(segs) == segs[Least({i \in DOMAIN segs : segs[i].name = "__TEXT"})]
SelCount == Len(pool.sel) + Len(pool.bsel)
SlotWords == SelCount + Len(pool.syms)
\* The members of a set in a fixed order.
Listed(S) ==
  LET rest[n \in Nat] == IF n = 0 THEN S ELSE rest[n - 1] \ {CHOOSE x \in rest[n - 1] : TRUE}
  IN  [i \in 1 .. Cardinality(S) |-> CHOOSE x \in rest[i - 1] : TRUE]
Index(s, x) == Least({i \in DOMAIN s : s[i] = x})
Fail == pc' = "failed"

UncacheInit ==
  /\ pc = "collect" /\ img \in Images
  /\ fx = {} /\ refs = Nil /\ pool = Nil /\ lay = Nil /\ code = Nil
  /\ methods = <<>> /\ entries = <<>> /\ imports = <<>> /\ starts = <<>>
  /\ exports = <<>> /\ header = Nil

-----------------------------------------------------------------------------
\* The slide-info walk: the chains of the whole cache are followed and the
\* pointers inside the image kept.  A version the script does not know stops
\* it only if the mapping overlaps the image.
ImagePointers == {f \in img.slides : InImg(f.addr)}

CollectFixups ==
  /\ pc = "collect"
  /\ IF img.version \in {3, 5} \/ ~img.overlaps
     THEN /\ fx' = IF img.version \in {3, 5} THEN ImagePointers ELSE {}
          /\ pc' = "refs"
     ELSE Fail /\ UNCHANGED fx
  /\ UNCHANGED <<img, refs, pool, lay, code, methods, entries, imports, starts, exports, header>>

\* objc_collect_relmethods: the method lists of classes, their metaclasses,
\* categories and protocols, behind a list of lists or not; only relative
\* lists in the image need help, pointer lists are ordinary fixups.
RelMethods ==
  UNION {l.methods : l \in {x \in UNION {img.lists[o] : o \in MethodOwners} :
                              x.inImage /\ x.relative}}

\* collect_lsda_type_refs: type-table entries up to the largest filter that an
\* action record reached from the call sites names.
ReachedActions(l) ==
  LET step(S) == S \cup {l.next[a] : a \in {b \in S : l.next[b] # 0}}
      grow[n \in Nat] == IF n = 0 THEN l.sites ELSE step(grow[n - 1])
  IN  grow[Cardinality(DOMAIN l.next)]
UsedTypes(l) == {i \in DOMAIN l.types : \E a \in ReachedActions(l) : i <= l.filter[a]}
LsdaRefs(l) == IF l.encoding = "absent" THEN {} ELSE {l.types[i] : i \in UsedTypes(l)}
LsdaFails(l) == l.encoding = "unsupported" /\ UsedTypes(l) # {}

\* collect_got_refs: what __text and __objc_stubs reach outside the image and
\* a2s can name.  The consumer scanned last decides whether the slot holds a
\* signed pointer: an ADD consumer calls through it.
OutRefs == {i \in DOMAIN img.got : ~InImg(img.got[i].target) /\ a2s(img.got[i].target) # NoName}
GotTargets == [t \in {img.got[i].target : i \in OutRefs} |-> StripPtr(a2s(t))]
Signed(t) == img.got[Greatest({i \in OutRefs : img.got[i].target = t})].add

\* collect_unwind_personalities
Personalities == [i \in DOMAIN img.pers |-> StripPtr(a2s(img.pers[i]))]

\* collect_external_branches: only modern caches; an island that has no name
\* stops the script.
ExternalBranches == IF modern THEN img.branches ELSE <<>>
BranchLost == \E p \in DOMAIN ExternalBranches :
                LET n == a2s(ExternalBranches[p]) IN n = NoName \/ n.base = "?"
BranchName(t) == [tag |-> "branch", base |-> a2s(t).base]

\* All collectors, then the table of GOT symbols to rebuild: a symbol's slot is
\* signed if any of its users needs it so.
LsdaSymbols == [r \in LsdaRefs(img.lsda) |->
                  IF InImg(r.target) THEN NoName ELSE StripPtr(a2s(r.target))]
LsdaLost == \E r \in DOMAIN LsdaSymbols : ~InImg(r.target) /\ LsdaSymbols[r] = NoName
CollectRefs ==
  LET got == GotTargets
      pers == Personalities
      lsda == LsdaSymbols
      br == ExternalBranches
      named == Range(got) \cup Range(pers) \cup Range(lsda)
                 \cup {BranchName(br[p]) : p \in DOMAIN br}
      auth(s) == \/ \E t \in DOMAIN got : got[t] = s /\ Signed(t)
                 \/ s \in Range(pers) \/ s.tag = "branch"
      none == [got |-> <<>>, pers |-> <<>>, lsda |-> <<>>, br |-> <<>>, auth |-> <<>>]
  IN  /\ pc = "refs"
      /\ IF compact /\ (LsdaFails(img.lsda) \/ LsdaLost \/ BranchLost)
         THEN Fail /\ UNCHANGED refs
         ELSE /\ refs' = IF ~compact THEN none
                         ELSE [got |-> got, pers |-> pers, lsda |-> lsda, br |-> br,
                               auth |-> [s \in named \ {NoName} |-> auth(s)]]
              /\ pc' = "pool"
      /\ UNCHANGED <<img, fx, pool, lay, code, methods, entries, imports, starts, exports, header>>

\* Mutant: selector slots go wherever there is room.
PoolHostsAny(selectors) == <<"__got", "__data">>

PoolHosts(selectors) ==
  (IF selectors # <<>> THEN <<"__objc_selrefs">> ELSE <<>>) \o <<"__got", "__data">>

\* The pool that relayout opens: selector slots, GOT slots, string copies (a
\* string is one word here), behind the first section that can host it.
PlanPool ==
  LET sel == IF compact THEN Listed({m.sel : m \in RelMethods}) ELSE <<>>
      brNames == {a2s(refs.br[p]).base : p \in DOMAIN refs.br}
      bsel == Listed({MsgSend[b] : b \in brNames \cap DOMAIN MsgSend})
      copied == IF modern /\ compact
                THEN {t \in {f.t : f \in fx} : ~InImg(t) /\ read_cstr(t) # NoStr} ELSE {}
      blob == Listed({read_cstr(t) : t \in copied} \cup Range(bsel))
      syms == Listed(DOMAIN refs.auth)
      hosts == PoolHosts(sel \o bsel)
      found == {i \in DOMAIN hosts : HasSect(hosts[i])}
      needed == compact /\ (sel \o bsel \o syms \o blob) # <<>> /\ found # {}
      sect == IF needed THEN hosts[Least(found)] ELSE "none"
  IN  /\ pc = "pool"
      /\ pool' = [sel |-> sel, bsel |-> bsel, syms |-> syms, blob |-> blob,
                  strOf |-> [t \in copied |-> Index(blob, read_cstr(t)) - 1], sect |-> sect,
                  \* only the selector slots belong to __objc_selrefs
                  grow |-> IF sel \o bsel # <<>> THEN Len(sel) + Len(bsel)
                           ELSE Len(syms) + Len(blob)]
      /\ pc' = "layout"
      /\ UNCHANGED <<img, fx, refs, lay, code, methods, entries, imports, starts, exports, header>>

\* DyldExtractor's file: strings are themselves, every other word is known by
\* the address it had in the cache.
ExtractedFile ==
  [o \in UNION {s.fo .. s.fo + s.fs - 1 : s \in Range(img.segs)} |->
     LET s == CHOOSE s \in Range(img.segs) : s.fo <= o /\ o < s.fo + s.fs
         a == s.va + (o - s.fo)
     IN  IF a \in DOMAIN img.strs THEN [k |-> "str", s |-> img.strs[a]]
         ELSE [k |-> "raw", at |-> a]]

\* Room for the rebuilt branch islands: 4 words each and the alignment slack.
StubWords == 4
BranchSpace == LET n == Cardinality({refs.br[p] : p \in DOMAIN refs.br})
               IN  IF n = 0 THEN 0 ELSE n * StubWords + 1

Layout ==
  LET host == IF pool.sect = "none" THEN None
              ELSE Least(SegAt(img.segs, img.sects[pool.sect].addr))
      sect == IF pool.sect = "none" THEN Nil ELSE img.sects[pool.sect]
  IN  /\ pc = "layout"
      /\ IF img.mode = "pad" /\ PadFails(img.segs) THEN Fail /\ UNCHANGED lay
         ELSE /\ lay' = CASE compact -> RelayoutCompact(img.segs, ExtractedFile, host, sect,
                                           SlotWords + Len(pool.blob), BranchSpace)
                          [] img.mode = "pad" -> RelayoutPad(img.segs, ExtractedFile)
                          [] OTHER -> RelayoutPlain(img.segs, ExtractedFile)
              /\ pc' = "code"
      /\ UNCHANGED <<img, fx, refs, pool, code, methods, entries, imports, starts, exports, header>>

-----------------------------------------------------------------------------
\* The GOT pool sits behind all selector slots.
GotSlot ==
  IF compact /\ lay.pool # None
  THEN [s \in DOMAIN refs.auth |-> lay.pool + SelCount + Index(pool.syms, s) - 1] ELSE <<>>
BranchSelSlot(sel) == lay.pool + Len(pool.sel) + Index(pool.bsel, sel) - 1
StringBase == lay.pool + SlotWords

\* fix_auth_stubs: a stub whose slot is in the image keeps it; the others take
\* the free __auth_got slots in order, never one an in-image stub uses.
Claimed == {amap(img.stubs[i]) : i \in DOMAIN img.stubs} \ {None}

FixAuthStubs ==
  LET named == SelectSeq(img.stubs, LAMBDA t : a2s(t) # NoName)
      got == img.sects["__auth_got"]
      free == {amap(got.addr + j) : j \in 0 .. got.size - 1} \ Claimed
      nth(k) == CHOOSE a \in free : Cardinality({b \in free : b < a}) = k - 1
      rank(i) == Cardinality({j \in 1 .. i : amap(named[j]) = None})
      slot(i) == IF amap(named[i]) # None THEN amap(named[i])
                 ELSE IF rank(i) <= Cardinality(free) THEN nth(rank(i)) ELSE None
  IN  IF ~compact \/ ~HasSect("__auth_got") \/ ~HasSect("__auth_stubs") THEN <<>>
      ELSE [i \in {j \in DOMAIN named : slot(j) # None} |->
              [slot |-> slot(i), name |-> StripPtr(a2s(named[i])), of |-> named[i]]]

\* rebuild_external_branches: one island per symbol in the emptied
\* __auth_stubs section, and every call repointed to its island.
AlignStub(a) == ((a + 1) \div 2) * 2
IslandStart == AlignStub(amap(img.sects["__auth_stubs"].addr))
IslandNames == Listed({BranchName(refs.br[p]) : p \in DOMAIN refs.br})
IslandAt(n) == IslandStart + (Index(IslandNames, n) - 1) * StubWords
IslandsFail ==
  /\ DOMAIN refs.br # {}
  /\ \/ ~HasSect("__auth_stubs") \/ img.sects["__auth_stubs"].size # 0
     \/ IslandStart + Len(IslandNames) * StubWords > TextSeg(lay.segs).va + TextSeg(lay.segs).fs
     \/ img.liveAfter # None /\ amap(img.liveAfter) < IslandStart + Len(IslandNames) * StubWords
     \/ GotSlot = <<>>
     \/ \E p \in DOMAIN refs.br :
          LET d == IslandAt(BranchName(refs.br[p])) - amap(p)
          IN  d < -BranchReach \/ d >= BranchReach

\* Everything in __TEXT that named an address outside: ADRP references to
\* shared GOT slots, personalities, LSDA types, stubs and branch islands.
SlotOrNone(n) == IF n = NoName \/ GotSlot = <<>> THEN None ELSE GotSlot[n]
UnwindSlots == [i \in DOMAIN refs.pers |-> SlotOrNone(refs.pers[i])]
LsdaTarget(r) == IF refs.lsda[r] # NoName THEN SlotOrNone(refs.lsda[r]) ELSE amap(r.target)
RepointCode ==
  LET served == {t \in DOMAIN refs.got : GotSlot # <<>>}
  IN  /\ pc = "code"
      /\ IF \/ \E r \in DOMAIN refs.lsda : LsdaTarget(r) = None \/ amap(r.field) = None
            \/ IslandsFail
         THEN Fail /\ UNCHANGED code
         ELSE /\ code' = [got |-> [t \in served |-> GotSlot[refs.got[t]]],
                          pers |-> UnwindSlots,
                          lsda |-> [r \in DOMAIN refs.lsda |-> LsdaTarget(r)],
                          stubs |-> FixAuthStubs,
                          islands |-> [p \in DOMAIN refs.br |->
                                         LET n == BranchName(refs.br[p])
                                         IN  [at |-> IslandAt(n), slot |-> GotSlot[n]]]]
              /\ pc' = "methods"
      /\ UNCHANGED <<img, fx, refs, pool, lay, methods, entries, imports, starts, exports, header>>

\* The relative method lists: types and implementation follow their target,
\* the name goes to the selector's slot of the pool; the shared-cache marks of
\* __objc_imageinfo are cleared; then the string copies are written behind
\* the slots.
SelSlot(s) == lay.pool + Index(pool.sel, s) - 1
RepointMethods ==
  LET strOffs == IF compact /\ lay.pool # None
                 THEN {AddrToOff(lay.segs, StringBase) + i - 1 : i \in DOMAIN pool.blob} ELSE {}
  IN  /\ pc = "methods"
      /\ methods' = IF ~compact THEN <<>>
                    ELSE [m \in RelMethods |->
                            [imp |-> amap(m.imp),
                             name |-> IF lay.pool = None THEN None ELSE SelSlot(m.sel)]]
      /\ lay' = [lay EXCEPT !.file = [o \in DOMAIN lay.file |->
                   IF o \in strOffs
                   THEN [k |-> "str", s |-> pool.blob[o - AddrToOff(lay.segs, StringBase) + 1]]
                   ELSE lay.file[o]]]
      /\ pc' = "resolve"
      /\ UNCHANGED <<img, fx, refs, pool, code, entries, imports, starts, exports, header>>

-----------------------------------------------------------------------------
\* Pointers whose target a2s cannot name are strings the cache uniqued: they
\* go to a local literal with the same bytes, to the copy in the pool, or to
\* the string DyldExtractor already pointed the slot at.
BindTargets == {f.t : f \in {g \in fx : ~InImg(g.t)}}
Unnamed == {t \in BindTargets : a2s(t) = NoName \/ a2s(t).base = "?"}
Literals(v) == {amap(a) : a \in {x \in img.literals : img.strs[x] = v}} \ {None}
Extracted(t) == {a \in {amap(img.dex[f.addr]) : f \in {g \in fx : g.t = t}} \ {None} :
                   lay.file[AddrToOff(lay.segs, a)] = [k |-> "str", s |-> read_cstr(t)]}
Localize ==
  LET literal == {t \in Unnamed : read_cstr(t) # NoStr /\ Literals(read_cstr(t)) # {}}
      copied == IF lay.pool = None THEN {} ELSE DOMAIN pool.strOf
      extracted == {t \in Unnamed : read_cstr(t) # NoStr /\ Extracted(t) # {}}
  IN  [t \in literal \cup copied \cup extracted |->
         IF t \in literal THEN Least(Literals(read_cstr(t)))
         ELSE IF t \in copied THEN StringBase + pool.strOf[t]
         ELSE Least(Extracted(t))]

\* The classification of one fixup.  A slot that would bind to the Protocol
\* class is a protocol reference: DyldExtractor's value is the local protocol.
\* Mutant: a protocol reference is bound like any named pointer.
LocalProtocolNever(f) == None

LocalProtocol(f) ==
  IF CanonicalImportName(a2s(f.t)) = "class_Protocol" THEN amap(img.dex[f.addr]) ELSE None

Classify(f, local) ==
  LET reb(a) == [kind |-> "rebase", to |-> a - nbase, auth |-> f.auth, high8 |-> f.high8]
  IN  CASE InImg(f.t) -> reb(amap(f.t))
        [] ~InImg(f.t) /\ f.t \in DOMAIN local -> reb(local[f.t])
        [] ~InImg(f.t) /\ f.t \notin DOMAIN local /\ LocalProtocol(f) # None -> reb(LocalProtocol(f))
        [] OTHER -> [kind |-> "bind", to |-> CanonicalImportName(a2s(f.t)), auth |-> f.auth,
                     high8 |-> f.high8]

\* The signed call slots of stubs and of the GOT pool: key IA, address diversity.
CallAuth == "ia_address"
BindEntry(n, auth) == [kind |-> "bind", to |-> CanonicalImportName(n), auth |-> auth, high8 |-> 0]
RebaseEntry(a) == [kind |-> "rebase", to |-> a - nbase, auth |-> NoAuth, high8 |-> 0]

\* Every source of entries in the order in which main() writes them: a later
\* one overwrites, and __EXTRA_OBJC only fills slots nobody has.
EmitEntries ==
  LET local == Localize
      fromFx == [a \in {amap(f.addr) : f \in fx} |->
                   Classify(CHOOSE f \in fx : amap(f.addr) = a, local)]
      hasPool == compact /\ lay.pool # None
      selectors == IF ~hasPool THEN <<>>
                   ELSE [a \in {SelSlot(s) : s \in {x \in Range(pool.sel) : amap(x) # None}} |->
                           RebaseEntry(amap(pool.sel[a - lay.pool + 1]))]
      branchSels == IF ~hasPool THEN <<>>
                    ELSE [a \in {BranchSelSlot(s) : s \in Range(pool.bsel)} |->
                            RebaseEntry(StringBase + Index(pool.blob,
                              pool.bsel[a - lay.pool - Len(pool.sel) + 1]) - 1)]
      stubs == [a \in {code.stubs[i].slot : i \in DOMAIN code.stubs} |->
                  BindEntry(code.stubs[Greatest({i \in DOMAIN code.stubs :
                                                  code.stubs[i].slot = a})].name, CallAuth)]
      got == [a \in {GotSlot[n] : n \in DOMAIN GotSlot} |->
                LET n == CHOOSE m \in DOMAIN GotSlot : GotSlot[m] = a
                IN  BindEntry(n, IF refs.auth[n] THEN CallAuth ELSE NoAuth)]
      extra == [a \in {amap(x) : x \in {y \in DOMAIN img.extra : amap(img.extra[y]) # None}} |->
                  RebaseEntry(amap(img.extra[CHOOSE x \in DOMAIN img.extra : amap(x) = a]))]
      all == got @@ stubs @@ branchSels @@ selectors @@ fromFx
               @@ (IF compact THEN extra ELSE <<>>)
      names == Listed({all[a].to : a \in {b \in DOMAIN all : all[b].kind = "bind"}})
  IN  /\ pc = "resolve"
      /\ IF \E a \in DOMAIN fromFx : fromFx[a].kind = "bind" /\ fromFx[a].to = NoName.base
         THEN Fail /\ UNCHANGED <<entries, imports>>
         ELSE /\ imports' = names
              /\ entries' = [a \in DOMAIN all |->
                               [kind |-> all[a].kind, auth |-> all[a].auth, high8 |-> all[a].high8,
                                v |-> IF all[a].kind = "rebase" THEN all[a].to
                                      ELSE Index(names, all[a].to) - 1]]
              /\ pc' = "trie"
      /\ UNCHANGED <<img, fx, refs, pool, lay, code, methods, starts, exports, header>>

\* fix_export_trie: an offset is written back in as many 7-bit groups as it
\* had, whatever the new value needs; re-exports and absolutes stay.
UlebBase == 8

\* Mutant: the offset is moved like an address of the first segment.
NewExportFlat(x) == (amap(TextSeg(img.segs).va) + x.off - nbase) % (UlebBase ^ x.len)

NewExport(x) ==
  LET moved == amap(TextSeg(img.segs).va + x.off)
  IN  IF compact /\ x.kind = "regular" /\ moved # None
      THEN (moved - nbase) % (UlebBase ^ x.len) ELSE x.off

FixExportTrie ==
  /\ pc = "trie"
  /\ exports' = [n \in DOMAIN img.exports |-> NewExport(img.exports[n])]
  /\ pc' = "weave"
  /\ UNCHANGED <<img, fx, refs, pool, lay, code, methods, entries, imports, starts, header>>

WeaveChains ==
  /\ pc = "weave"
  /\ starts' = SegStarts(lay.segs, entries)
  /\ lay' = [lay EXCEPT !.file = Weave(lay.segs, entries, lay.file)]
  /\ pc' = "splice"
  /\ UNCHANGED <<img, fx, refs, pool, code, methods, entries, imports, exports, header>>

\* The blob goes to the end of the file, which must be __LINKEDIT's, and the
\* command to the header; then the file is written.
LastSegment == CHOOSE s \in Range(lay.segs) : \A t \in Range(lay.segs) : t.fo <= s.fo
SpliceAndWrite ==
  LET cmd == AppendFixupsCommand(img.header)
  IN  /\ pc = "splice"
      /\ IF LastSegment.name = "__LINKEDIT" /\ cmd.ok
         THEN header' = [words |-> cmd.words, inCache |-> FALSE] /\ pc' = "done"
         ELSE Fail /\ UNCHANGED header
      /\ UNCHANGED <<img, fx, refs, pool, lay, code, methods, entries, imports, starts, exports>>

UncacheStopped == pc \in {"done", "failed"} /\ UNCHANGED uncacheVars

UncacheNext ==
  \/ CollectFixups \/ CollectRefs \/ PlanPool \/ Layout \/ RepointCode \/ RepointMethods
  \/ EmitEntries \/ FixExportTrie \/ WeaveChains \/ SpliceAndWrite \/ UncacheStopped

UncacheSpec == UncacheInit /\ [][UncacheNext]_uncacheVars

-----------------------------------------------------------------------------
(* Properties.  They look at the written file through dyld's eyes.         *)

Done == pc = "done"
Stages == {"collect", "refs", "pool", "layout", "code", "methods", "resolve", "trie", "weave",
           "splice", "done", "failed"}

\* The stage and the tables have the shape main() gives them: fixups are slots
\* of the image, entries lie in the rebuilt segments, and every bind has its
\* import.
UncacheTypeOK ==
  /\ pc \in Stages
  /\ img.mode \in {"compact", "pad", "plain"}
  /\ fx \subseteq img.slides
  /\ \A a \in DOMAIN entries :
       /\ InSegs(lay.segs, a)
       /\ entries[a].kind = "bind" => entries[a].v \in 0 .. Len(imports) - 1

Loaded ==
  [a \in DyldVisits(lay.segs, lay.file, starts) |->
     DyldValue(lay.file[AddrToOff(lay.segs, a)], nbase, imports)]
BoundTo(mem, slot, t, auth) ==
  /\ slot \in DOMAIN mem
  /\ mem[slot].k = "sym" /\ mem[slot].to = SymbolAt[t] /\ mem[slot].auth = auth

\* When dyld has walked the chains, every pointer of the cached image holds
\* what it held in the cache: the moved address inside the image, with its
\* signature and its top byte, or outside it the symbol that lived there, a
\* string with the same bytes, or the image's own copy of a uniqued protocol;
\* and dyld has touched each fixup once and no other word.
ImageFaithful ==
  Done => LET mem == Loaded
              same(f) ==
                LET w == mem[amap(f.addr)]
                IN  /\ w.auth = f.auth
                    /\ IF InImg(f.t)
                       THEN w.k = "ptr" /\ w.to = amap(f.t) /\ (f.auth = NoAuth => w.high8 = f.high8)
                       ELSE \/ w.k = "sym" /\ w.to = SymbolAt[f.t]
                            \/ /\ w.k = "ptr"
                               /\ \/ /\ SymbolAt[f.t] = "string"
                                     /\ lay.file[AddrToOff(lay.segs, w.to)]
                                          = [k |-> "str", s |-> read_cstr(f.t)]
                                  \/ SymbolAt[f.t] = "protocol" /\ w.to = amap(img.dex[f.addr])
          IN  /\ DOMAIN mem = DOMAIN entries
              /\ \A i \in DOMAIN starts : \A p, q \in DOMAIN starts[i] : p # q =>
                   Visited(lay.segs, lay.file, starts, i, p)
                     \cap Visited(lay.segs, lay.file, starts, i, q) = {}
              /\ \A f \in fx : amap(f.addr) \in DOMAIN mem /\ same(f)

\* Code that used to reach outside the image through the shared GOT, a stub,
\* a branch island, an unwind personality or a catch type reads a slot that
\* dyld binds to that very symbol, signed where the code authenticates it.
CodeFaithful ==
  Done /\ compact =>
    LET mem == Loaded
    IN  /\ \A g \in Range(img.got) : ~InImg(g.target) =>
             /\ g.target \in DOMAIN code.got
             /\ BoundTo(mem, code.got[g.target], g.target, IF g.add THEN CallAuth ELSE NoAuth)
        /\ HasSect("__auth_got") => \A i \in DOMAIN img.stubs :
             \E j \in DOMAIN code.stubs :
               /\ code.stubs[j].of = img.stubs[i]
               /\ BoundTo(mem, code.stubs[j].slot, img.stubs[i], CallAuth)
        /\ \A i \in DOMAIN img.pers : BoundTo(mem, code.pers[i], img.pers[i], CallAuth)
        /\ \A r \in DOMAIN code.lsda :
             IF InImg(r.target) THEN code.lsda[r] = amap(r.target)
             ELSE BoundTo(mem, code.lsda[r], r.target, NoAuth)
        /\ \A p \in DOMAIN code.islands :
             BoundTo(mem, code.islands[p].slot, refs.br[p], CallAuth)

\* The rebuilt image means what it meant inside the cache, data and code.
UncachedFaithful == ImageFaithful /\ CodeFaithful

\* The runtime finds the selector of every relative method in a slot that lies
\* inside the grown __objc_selrefs section, the only slots it uniques, and its
\* implementation where the code went; a rebuilt msgSend island likewise.
SelectorsUniqued ==
  Done /\ compact /\ HasSect("__objc_selrefs") =>
    LET mem == Loaded
        sect == img.sects["__objc_selrefs"]
        inside(a) == amap(sect.addr) <= a /\ a < amap(sect.addr) + sect.size + pool.grow
        holds(a, str) == /\ a \in DOMAIN mem /\ inside(a) /\ mem[a].k = "ptr"
                         /\ lay.file[AddrToOff(lay.segs, mem[a].to)] = [k |-> "str", s |-> str]
        relative == {l \in UNION Range(img.lists) : l.relative /\ l.inImage}
    IN  /\ \A m \in UNION {l.methods : l \in relative} :
             /\ holds(methods[m].name, img.strs[m.sel])
             /\ methods[m].imp = amap(m.imp)
        /\ \A i \in DOMAIN pool.bsel : holds(BranchSelSlot(pool.bsel[i]), pool.bsel[i])

\* With the command that codesign will add, the header still ends before the
\* first section: no instruction is overwritten.
HeaderRoom ==
  Done => HeaderWords + header.words + (IF img.header.signed THEN 0 ELSE CommandWords)
            <= img.header.firstSection

\* The compact layout: segments on pages of their own, the file a mirror of
\* memory, the pool in nobody's way, and every word that no fixup replaces
\* found where the address map says.
Compacted ==
  compact /\ pc \in {"weave", "splice", "done"} =>
    LET segs == lay.segs
        old == UNION {s.va .. s.va + s.fs - 1 : s \in Range(img.segs)}
        poolWords == IF lay.pool = None THEN {}
                     ELSE lay.pool .. lay.pool + SlotWords + Len(pool.blob) - 1
    IN  /\ \A i, j \in DOMAIN segs : i < j => segs[i].va + segs[i].vs <= segs[j].va
        /\ \A i \in DOMAIN segs :
             /\ segs[i].va % PageWords = 0
             /\ segs[i].fo = segs[i].va - NewBase
        /\ \A a \in old : amap(a) \notin poolWords
        /\ \A a \in old : amap(a) \notin DOMAIN entries =>
             lay.file[AddrToOff(segs, amap(a))]
               = IF a \in DOMAIN img.strs THEN [k |-> "str", s |-> img.strs[a]]
                 ELSE [k |-> "raw", at |-> a]

\* The rebuilt file holds together: the compact layout, and the header with
\* the command that codesign will add.
LayoutSound == Compacted /\ HeaderRoom

\* Every exported symbol is where the rebuilt trie says, although the trie's
\* bytes could not grow.
ExportsFaithful ==
  Done /\ compact => \A n \in DOMAIN img.exports :
    img.exports[n].kind = "regular" =>
      nbase + exports[n] = amap(TextSeg(img.segs).va + img.exports[n].off)
=============================================================================
