--------------------------- MODULE ChainedFixups ---------------------------
(***************************************************************************)
(* The pointer chains of LC_DYLD_CHAINED_FIXUPS as uncache.py writes them  *)
(* and as dyld reads them.  A fixup entry is                               *)
(*   [kind, v, auth, high8]                                                *)
(* where kind is "rebase" (v an offset from the image's base) or "bind" (v *)
(* an index, from 0, into the imports), auth is NoAuth or the triple of    *)
(* key, diversity and address diversity as one value, and high8 is the top *)
(* byte of a plain pointer.                                                *)
(***************************************************************************)
EXTENDS MachOLayout

CONSTANTS NextLimit,      \* 2^11: the width of the next field, in words
          OrdinalLimit    \* 2^16: the width of the import ordinal

ASSUME ChainAssumption ==
  /\ NextLimit \in Nat \ {0}
  /\ OrdinalLimit \in Nat \ {0}
  /\ PageWords <= NextLimit

NoAuth == "plain"
StartNone == -1           \* DYLD_CHAINED_PTR_START_NONE

\* pack_rebase, pack_auth_rebase, pack_bind, pack_auth_bind: only a plain
\* rebase has room for the top byte, and every field is masked to its width.
PackEntry(e, nxt) ==
  IF e.kind = "rebase"
  THEN [k |-> "reb", v |-> e.v, auth |-> e.auth, next |-> nxt % NextLimit,
        high8 |-> IF e.auth = NoAuth THEN e.high8 ELSE 0]
  ELSE [k |-> "bind", v |-> e.v % OrdinalLimit, auth |-> e.auth,
        next |-> nxt % NextLimit, high8 |-> 0]

\* The entries of one segment (the first that contains the address) ...
SegEntries(segs, entries, i) ==
  {a \in DOMAIN entries : InSegs(segs, a) /\ Least(SegAt(segs, a)) = i}

\* ... and of one page of it, counted from the segment's own start.
ChainPage(segs, i, a) == (a - segs[i].va) \div PageWords
PageEntries(segs, entries, i, pg) ==
  {a \in SegEntries(segs, entries, i) : ChainPage(segs, i, a) = pg}

\* The distance to the next entry of the same page, 0 at the last one.
NextOf(segs, entries, i, a) ==
  LET later == {b \in PageEntries(segs, entries, i, ChainPage(segs, i, a)) : b > a}
  IN  IF later = {} THEN 0 ELSE Least(later) - a

PageCount(s) == (s.vs + PageWords - 1) \div PageWords

\* seg_starts: for every segment with a fixup, where the chain of each page
\* begins; a segment without any has no list.
SegStarts(segs, entries) ==
  [i \in {j \in DOMAIN segs : SegEntries(segs, entries, j) # {}} |->
     [pg \in 0 .. PageCount(segs[i]) - 1 |->
        LET on == PageEntries(segs, entries, i, pg)
        IN  IF on = {} THEN StartNone ELSE Least(on) - segs[i].va - pg * PageWords]]

\* The weaving loop: every entry becomes a packed word at its file offset.
Weave(segs, entries, file) ==
  [o \in DOMAIN file |->
     LET here == {a \in DOMAIN entries : InSegs(segs, a) /\ AddrToOff(segs, a) = o}
     IN  IF here = {} THEN file[o]
         ELSE LET a == CHOOSE x \in here : TRUE
              IN  PackEntry(entries[a], NextOf(segs, entries, Least(SegAt(segs, a)), a))]

-----------------------------------------------------------------------------
(* dyld, as the format defines it.                                         *)

IsPacked(w) == w.k \in {"reb", "bind"}

\* The addresses dyld visits from one page on: it begins where the page's
\* start says and follows the next field of every word until it is 0.
Visited(segs, file, starts, i, pg) ==
  LET lo == segs[i].va + pg * PageWords
      hi == segs[i].va + segs[i].vs - 1
      from[a \in segs[i].va .. hi] ==
        LET w == file[AddrToOff(segs, a)]
        IN  IF ~IsPacked(w) \/ w.next = 0 \/ a + w.next > hi
            THEN {a} ELSE {a} \cup from[a + w.next]
  IN  IF starts[i][pg] = StartNone THEN {} ELSE from[lo + starts[i][pg]]

DyldVisits(segs, file, starts) ==
  UNION {UNION {Visited(segs, file, starts, i, pg) : pg \in DOMAIN starts[i]} :
           i \in DOMAIN starts}

\* What a visited word is replaced with.
DyldValue(w, base, imports) ==
  IF w.k = "reb"
  THEN [k |-> "ptr", to |-> base + w.v, auth |-> w.auth, high8 |-> w.high8]
  ELSE [k |-> "sym", to |-> imports[w.v + 1], auth |-> w.auth, high8 |-> 0]
=============================================================================
