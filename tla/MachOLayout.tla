---------------------------- MODULE MachOLayout ----------------------------
(***************************************************************************)
(* How uncache.py lays a Mach-O image out again once it has left the dyld  *)
(* shared cache.  Addresses and offsets count 8-byte words; a page is the  *)
(* 16 KB page of the loader, PageWords words.  An image is a sequence of   *)
(* segments in load-command order,                                         *)
(*   [name, va, vs, fo, fs]  (vmaddr, vmsize, fileoff, filesize),          *)
(* and a file is a function from offsets to words.                         *)
(***************************************************************************)
EXTENDS Integers, Sequences, FiniteSets

CONSTANTS PageWords,   \* words in a 16 KB page
          NewBase      \* the load address of a compacted image (0x100000000)

ASSUME LayoutAssumption ==
  /\ PageWords \in Nat \ {0, 1}
  /\ NewBase \in Nat
  /\ NewBase % PageWords = 0

None == -1
Zero == [k |-> "zero"]        \* a word the rebuilt file never wrote

RoundDown(n) == (n \div PageWords) * PageWords

RoundUpNot(n) == n      \* Mutant: segments are packed without regard to pages.

RoundUp(n) == ((n + PageWords - 1) \div PageWords) * PageWords

Larger(a, b) == IF a >= b THEN a ELSE b
Least(S) == CHOOSE x \in S : \A y \in S : x <= y
Greatest(S) == CHOOSE x \in S : \A y \in S : x >= y

SegAt(segs, a) == {i \in DOMAIN segs : a \in segs[i].va .. segs[i].va + segs[i].vs - 1}
InSegs(segs, a) == SegAt(segs, a) # {}

\* addr2off: the first segment that contains the address decides.
AddrToOff(segs, a) == LET s == segs[Least(SegAt(segs, a))] IN s.fo + (a - s.va)

\* make_amap: the first moved range [lo, hi) that contains the address.
Amap(deltas, a) ==
  LET hit == {r \in deltas : a \in r.lo .. r.hi - 1}
  IN  IF hit = {} THEN None ELSE a + (CHOOSE r \in hit : TRUE).d

-----------------------------------------------------------------------------
(* The three layouts of main(): compact, pad and the plain repacking.  Each *)
(* returns the new segments, the new file and the moved ranges.             *)

\* reorder_segments: the segment commands in ascending vmaddr order.
Reordered(segs) ==
  [i \in DOMAIN segs |-> CHOOSE s \in {segs[j] : j \in DOMAIN segs} :
     Cardinality({j \in DOMAIN segs : segs[j].va < s.va}) = i - 1]

\* The words a segment brings along, from its place in the old file.
Content(file, s, k) == file[s.fo + k]

\* relayout: only file offsets change, monotonic in vmaddr order.
RelayoutPlain(image, file) ==
  LET segs == Reordered(image)
      place[i \in DOMAIN segs] ==
        IF i = 1 THEN 0 ELSE RoundUp(place[i - 1] + segs[i - 1].fs)
      last == Len(segs)
      home == [o \in 0 .. place[last] + segs[last].fs - 1 |->
                 {i \in DOMAIN segs : place[i] <= o /\ o < place[i] + segs[i].fs}]
  IN  [segs   |-> [i \in DOMAIN segs |-> [segs[i] EXCEPT !.fo = place[i]]],
       file   |-> [o \in DOMAIN home |->
                     IF home[o] = {} THEN Zero
                     ELSE Content(file, segs[Least(home[o])], o - place[Least(home[o])])],
       deltas |-> {[lo |-> s.va, hi |-> s.va + s.vs, d |-> 0] : s \in {segs[j] : j \in DOMAIN segs}},
       pool   |-> None]

\* relayout_pad: the file mirrors memory; a segment that does not start on a
\* page is extended downwards to one.  A first segment off a page boundary
\* makes a negative file offset, which struct.pack_into refuses.
PadFails(image) == Least({image[i].va : i \in DOMAIN image}) % PageWords # 0
RelayoutPad(image, file) ==
  LET segs == Reordered(image)
      base == Least({segs[i].va : i \in DOMAIN segs})
      total == Greatest({segs[i].va + segs[i].fs : i \in DOMAIN segs}) - base
      owner == [o \in 0 .. total - 1 |->
                  {i \in DOMAIN segs : segs[i].va - base <= o /\ o < segs[i].va - base + segs[i].fs}]
      padOf(s) == s.va - RoundDown(s.va)
  IN  [segs   |-> [i \in DOMAIN segs |->
                     [segs[i] EXCEPT !.va = RoundDown(@),
                                     !.vs = @ + padOf(segs[i]),
                                     !.fo = RoundDown(segs[i].va) - base,
                                     !.fs = @ + padOf(segs[i])]],
       file   |-> [o \in DOMAIN owner |->
                     IF owner[o] = {} THEN Zero
                     ELSE LET s == segs[Greatest(owner[o])]
                          IN  Content(file, s, o - (s.va - base))],
       deltas |-> {[lo |-> s.va, hi |-> s.va + s.vs, d |-> 0] : s \in {segs[j] : j \in DOMAIN segs}},
       pool   |-> None]

\* relayout_compact: page-aligned slots one after the other from NewBase, with
\* a gap of `shift` words opened behind the pool section of segment `at` and
\* `tail` words reserved behind __TEXT.  The segment of the gap moves in two
\* ranges; the reserved text is in none.
Span(s) == Larger(s.vs, s.fs)
Placement(sizes) ==
  LET place[i \in DOMAIN sizes] ==
        IF i = 1 THEN NewBase ELSE place[i - 1] + RoundUp(sizes[i - 1])
  IN  place
MovedRanges(segs, place, at, split, shift) ==
  LET end(i) == segs[i].va + Span(segs[i])
      by(i) == place[i] - segs[i].va
  IN  {[lo |-> segs[i].va, hi |-> IF i = at THEN split ELSE end(i), d |-> by(i)] : i \in DOMAIN segs}
        \cup (IF at = None THEN {} ELSE {[lo |-> split, hi |-> end(at), d |-> by(at) + shift]})
CopiedFile(segs, file, moved, size) ==
  [o \in 0 .. size - 1 |->
     LET source == {w \in (DOMAIN segs) \X (0 .. size) :
                      w[2] < segs[w[1]].fs /\ Amap(moved, segs[w[1]].va + w[2]) = NewBase + o}
         w == CHOOSE v \in source : TRUE
     IN  IF source = {} THEN Zero ELSE Content(file, segs[w[1]], w[2])]
RelayoutCompact(segs, file, at, sect, need, tail) ==
  LET shift == IF at = None THEN 0 ELSE RoundUp(need)
      split == IF at = None THEN None ELSE sect.addr + sect.size
      more(i) == (IF i = at THEN shift ELSE 0) + (IF segs[i].name = "__TEXT" THEN tail ELSE 0)
      sizes == [i \in DOMAIN segs |-> Span(segs[i]) + more(i)]
      place == Placement(sizes)
      moved == MovedRanges(segs, place, at, split, shift)
      last == Len(segs)
  IN  [segs   |-> [i \in DOMAIN segs |->
                     [name |-> segs[i].name, va |-> place[i], fo |-> place[i] - NewBase,
                      vs |-> RoundUp(segs[i].vs + more(i)),
                      fs |-> IF segs[i].name = "__LINKEDIT" THEN segs[i].fs + more(i)
                             ELSE RoundUp(segs[i].fs + more(i))]],
       file   |-> CopiedFile(segs, file, moved, place[last] + RoundUp(sizes[last]) - NewBase),
       deltas |-> moved,
       pool   |-> IF at = None THEN None ELSE split + (place[at] - segs[at].va)]

-----------------------------------------------------------------------------
(* The load commands.  A header counts words: the fixed part, the commands *)
(* kept whatever happens, the two droppable ones (function starts and data *)
(* in code) and the signature command if the image has one.                *)
HeaderWords == 4
CommandWords == 2          \* LC_DYLD_CHAINED_FIXUPS, LC_CODE_SIGNATURE

\* append_fixups_command: the new command must leave room for the signature
\* command that codesign adds later; the droppable commands go first.
SigningRoom(h) == IF h.signed THEN 0 ELSE CommandWords

Fits(h, n) == HeaderWords + n + CommandWords + SigningRoom(h) <= h.firstSection
AppendFixupsCommand(h) ==
  LET all == h.kept + h.droppable
      keep == IF Fits(h, all) THEN all ELSE h.kept
  IN  IF Fits(h, keep) THEN [ok |-> TRUE, words |-> keep + CommandWords]
      ELSE [ok |-> FALSE, words |-> all]
=============================================================================
