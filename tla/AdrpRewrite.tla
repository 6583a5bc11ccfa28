---------------------------- MODULE AdrpRewrite ----------------------------
(***************************************************************************)
(* rewrite_adrp of uncache.py: after the compact layout has moved the      *)
(* segments by different distances, an ADRP and the instruction that adds  *)
(* its low bits (the consumer) must be rewritten together, although they   *)
(* may be far apart and several ADRPs may feed one consumer.  The function *)
(* is a work-list data-flow analysis over the instructions of a section    *)
(* that patches the code while it runs.                                    *)
(*                                                                         *)
(* One action per turn of the work-list loop.  A program is a function     *)
(* from positions to instructions, with the positions of its function      *)
(* starts; the targets of an indirect branch (`cases`) are known to the    *)
(* processor but not to the script.                                        *)
(***************************************************************************)
EXTENDS Integers, Sequences, FiniteSets

CONSTANTS Programs,    \* sequence of sets of programs
          Regs, CallerSaved,
          Deltas,      \* the old segments, [lo, hi, d] each
          TextDelta, GotSlots, PageSize,
          AdrpSpan     \* pages an ADRP can name, 2^21 in the encoding

PageOf(a) == a - (a % PageSize)
Moved(a) == {s \in Deltas : s.lo <= a /\ a < s.hi}
seg_delta_old(a) == (CHOOSE s \in Moved(a) : TRUE).d

\* Where a target that an ADRP and its consumer name has gone: with its
\* segment, or to the slot that stands for a shared GOT entry.
Redirected(t) == IF Moved(t) # {} THEN seg_delta_old(t) # TextDelta ELSE t \in DOMAIN GotSlots
NewTarget(t) == IF Moved(t) # {} THEN t + seg_delta_old(t) ELSE GotSlots[t]

\* _set_adrp and _adrp_target: the page distance in AdrpSpan's worth of bits.
SetAdrp(at, target) == ((PageOf(target) - PageOf(at)) \div PageSize) % AdrpSpan
AdrpTarget(w, at) ==
  PageOf(at) + PageSize * (IF 2 * w >= AdrpSpan THEN w - AdrpSpan ELSE w)
InSpan(at, target) ==
  LET pages == (PageOf(target) - PageOf(at)) \div PageSize
  IN  -AdrpSpan <= 2 * pages /\ 2 * pages < AdrpSpan

\* The segments of an image do not overlap, the ones that keep their distance
\* to the code (the code's own) are whole pages, and the rebuilt image is
\* smaller than the reach of an ADRP.
Addresses == (UNION {s.lo .. s.hi - 1 : s \in Deltas}) \cup DOMAIN GotSlots
ASSUME AdrpAssumption ==
  /\ PageSize \in Nat \ {0} /\ AdrpSpan \in Nat \ {0}
  /\ TextDelta \in Int /\ TextDelta % PageSize = 0
  /\ IsFiniteSet(Regs) /\ CallerSaved \subseteq Regs
  /\ Deltas \subseteq [lo : Int, hi : Int, d : Int]
  /\ \A s, u \in Deltas : s # u => s.hi <= u.lo \/ u.hi <= s.lo
  /\ \A s \in Deltas : s.d = TextDelta => s.lo % PageSize = 0 /\ s.hi % PageSize = 0
  /\ DOMAIN GotSlots \subseteq Int /\ \A t \in DOMAIN GotSlots : GotSlots[t] \in Int
  /\ \A t, u \in Addresses : InSpan(NewTarget(t), NewTarget(u))

\* What the disassembler hands to rewrite_adrp: code of the text segment, in
\* which an ADRP names a page within its reach.
WellFormed(program) ==
  /\ program.base \in Int
  /\ DOMAIN program.ins \subseteq Nat /\ IsFiniteSet(DOMAIN program.ins)
  /\ program.starts \in Seq(DOMAIN program.ins)
  /\ \A p \in DOMAIN program.ins :
       LET i == program.ins[p]
           at == program.base + p
       IN  /\ Moved(at) # {} /\ seg_delta_old(at) = TextDelta
           /\ i.k = "adrp" => /\ i.rd \in Regs
                              /\ i.page \in Int /\ i.page % PageSize = 0 /\ InSpan(at, i.page)
           /\ i.k = "use" => i.rn \in Regs /\ i.disp \in Int
           /\ i.k \in {"use", "write"} => i.writes \subseteq Regs

ASSUME ProgramsAssumption ==
  \A n \in DOMAIN Programs : \A program \in Programs[n] : WellFormed(program)

VARIABLES prog, seen, incoming, work, pages, imm, disp, status

vars == <<prog, seen, incoming, work, pages, imm, disp, status>>

Pos == DOMAIN prog.ins

-----------------------------------------------------------------------------
\* A register's entry is the page it holds and the ADRPs that may have put it
\* there; no ADRP means the script knows nothing of the register.
NoDef == [page |-> 0, defs |-> {}]
NoPage == [known |-> FALSE, at |-> 0]
PageAt(a) == [known |-> TRUE, at |-> a]
Unknown == [r \in Regs |-> NoDef]

\* merge_state: registers that hold the same page on both ways stay.
Merge(old, new) ==
  [r \in Regs |->
     IF old[r].defs # {} /\ new[r].defs # {} /\ old[r].page = new[r].page
     THEN [page |-> old[r].page, defs |-> old[r].defs \cup new[r].defs]
     ELSE NoDef]

Joined(p, state) == IF p \in seen THEN Merge(incoming[p], state) ELSE state

\* Mutant: a position is queued again whether its state changed or not.
ChangedAlways(p, state) == TRUE

Changed(p, state) == p \notin seen \/ Joined(p, state) # incoming[p]

\* The state reaches the successors, two at most; the ones it changes are
\* queued, and the queue is a stack.
Pushed(queue, successors, i, state) ==
  IF i \in DOMAIN successors /\ successors[i] \in Pos /\ Changed(successors[i], state)
  THEN Append(queue, successors[i]) ELSE queue
Flow(successors, state) ==
  LET at == {successors[i] : i \in DOMAIN successors} \cap Pos
      rest == SubSeq(work, 1, Len(work) - 1)
  IN  /\ incoming' = [p \in Pos |-> IF p \in at THEN Joined(p, state) ELSE incoming[p]]
      /\ seen' = seen \cup at
      /\ work' = Pushed(Pushed(rest, successors, 1, state), successors, 2, state)

Init ==
  /\ \E i \in DOMAIN Programs : prog \in Programs[i]
  /\ seen = {prog.starts[i] : i \in DOMAIN prog.starts}
  /\ work = prog.starts
  /\ incoming = [p \in Pos |-> Unknown]
  /\ pages = [p \in Pos |-> NoPage]
  /\ imm = [p \in Pos |-> IF prog.ins[p].k = "adrp"
                          THEN SetAdrp(prog.base + p, prog.ins[p].page) ELSE 0]
  /\ disp = [p \in Pos |-> IF prog.ins[p].k = "use" THEN prog.ins[p].disp ELSE 0]
  /\ status = "run"

\* Case blocks of an indirect branch are reached from no function start: the
\* first ADRP that was not reached is a new root, and its whole component is
\* drained before the next.
Unreached == {p \in Pos : p \notin seen /\ prog.ins[p].k = "adrp"}

SeedAdrp ==
  /\ status = "run" /\ work = <<>>
  /\ \/ Unreached = {} /\ status' = "done" /\ UNCHANGED <<seen, incoming, work>>
     \/ \E p \in Unreached :
          /\ \A q \in Unreached : p <= q
          /\ seen' = seen \cup {p} /\ work' = <<p>>
          /\ incoming' = [incoming EXCEPT ![p] = Unknown]
          /\ UNCHANGED status
  /\ UNCHANGED <<prog, pages, imm, disp>>

-----------------------------------------------------------------------------
At == work[Len(work)]
Ins == prog.ins[At]
State == incoming[At]
Popped(kind) == status = "run" /\ work # <<>> /\ Ins.k \in kind
Forget(state, regs) == [r \in Regs |-> IF r \in regs THEN NoDef ELSE state[r]]

\* A page that moves as a whole is repaired at once: no consumer is needed.
Eager(page) ==
  /\ Moved(page) # {}
  /\ seg_delta_old(page) # TextDelta
  /\ seg_delta_old(page) % PageSize = 0

StepAdrp ==
  LET new == Ins.page + seg_delta_old(Ins.page)
  IN  /\ Popped({"adrp"})
      /\ IF Eager(Ins.page)
         THEN /\ pages' = [pages EXCEPT ![At] = PageAt(new)]
              /\ imm' = [imm EXCEPT ![At] = SetAdrp(prog.base + At + TextDelta, new)]
         ELSE UNCHANGED <<pages, imm>>
      /\ Flow(<<At + 1>>, [State EXCEPT ![Ins.rd] = [page |-> Ins.page, defs |-> {At}]])
      /\ UNCHANGED <<prog, disp, status>>

PageAligned(t) == Moved(t) # {} /\ seg_delta_old(t) % PageSize = 0
DesiredPage(page, t) == IF PageAligned(t) THEN page + seg_delta_old(t) ELSE PageOf(NewTarget(t))

\* set_consumer_disp: an ADD takes any low bits, a load only multiples of its
\* size, every other form none.
Encodable(i, d) == i.form = "add" \/ (i.form = "ldr" /\ d % i.scale = 0)

\* Mutant: the ADRP is rewritten for every consumer, whoever came first.
AnyDefAgrees(defs, page) == TRUE

DefsAgree(defs, page) == \A d \in defs : pages[d].known => pages[d].at = page

StepUse ==
  LET value == State[Ins.rn]
      old == value.page + Ins.disp
      page == DesiredPage(value.page, old)
      new == NewTarget(old) - page
      keep == PageAligned(old) /\ new = Ins.disp
  IN  /\ Popped({"use"})
      /\ IF value.defs # {} /\ Redirected(old)
         THEN IF DefsAgree(value.defs, page) /\ new \in 0 .. PageSize - 1
                   /\ (keep \/ Encodable(Ins, new))
              THEN /\ pages' = [p \in Pos |-> IF p \in value.defs THEN PageAt(page) ELSE pages[p]]
                   /\ imm' = [p \in Pos |-> IF p \in value.defs /\ ~pages[p].known
                                            THEN SetAdrp(prog.base + p + TextDelta, page)
                                            ELSE imm[p]]
                   /\ disp' = [disp EXCEPT ![At] = new]
                   /\ UNCHANGED status
              ELSE status' = "failed" /\ UNCHANGED <<pages, imm, disp>>
         ELSE UNCHANGED <<pages, imm, disp, status>>
      /\ Flow(<<At + 1>>, Forget(State, Ins.writes))
      /\ UNCHANGED prog

\* Mutant: the first immediate of a test-and-branch is taken for its target.
BranchTargetFirst(i) == IF i.k = "tb" THEN i.bit ELSE i.to

BranchTarget(i) == i.to

Successors(i, p) ==
  CASE i.k = "b" -> <<BranchTarget(i)>>
    [] i.k \in {"cb", "tb"} -> IF BranchTarget(i) = p + 1 THEN <<p + 1>>
                               ELSE <<p + 1, BranchTarget(i)>>
    [] i.k \in {"ret", "br"} -> <<>>
    [] OTHER -> <<p + 1>>
Clobbers(i) == IF i.k = "call" THEN CallerSaved ELSE IF i.k = "write" THEN i.writes ELSE {}

StepOther ==
  /\ Popped({"b", "cb", "tb", "ret", "br", "call", "write"})
  /\ Flow(Successors(Ins, At), Forget(State, Clobbers(Ins)))
  /\ UNCHANGED <<prog, pages, imm, disp, status>>

Stopped == status # "run" /\ UNCHANGED vars

Next == SeedAdrp \/ StepAdrp \/ StepUse \/ StepOther \/ Stopped

\* One thread runs the loop to its end.
Spec == Init /\ [][Next]_vars /\ WF_vars(SeedAdrp \/ StepAdrp \/ StepUse \/ StepOther)

-----------------------------------------------------------------------------
\* What the processor does: on each way through the code a register holds the
\* page of one ADRP, or something else.  <<p, r, v>> in RealDefs: at p, reached
\* from a function start, r may hold what the ADRP at v put there; Other is
\* something else, Lost a page that still waits for its consumer and that is
\* carried across an indirect branch, where the script cannot follow.  Way is
\* no register: it holds Other until an indirect branch is taken, Lost after.
Other == -1
Lost == -2
Way == "way"
ASSUME WayAssumption == Way \notin Regs

\* A page that was repaired at once and of which no part goes elsewhere.
Settled(page) ==
  /\ Eager(page)
  /\ \A a \in page .. page + PageSize - 1 :
       IF Moved(a) = {} THEN a \notin DOMAIN GotSlots ELSE seg_delta_old(a) = seg_delta_old(page)

RealSuccessors(i, p) ==
  CASE i.k = "br" -> i.cases
    [] i.k = "b" -> {i.to}
    [] i.k \in {"cb", "tb"} -> {p + 1, i.to}
    [] i.k = "ret" -> {}
    [] OTHER -> {p + 1}
RealAfter(i, p, r, v) ==
  CASE i.k = "adrp" /\ r = i.rd -> p
    [] i.k = "call" /\ r \in CallerSaved -> Other
    [] i.k \in {"use", "write"} /\ r \in i.writes -> Other
    [] i.k = "br" /\ (r = Way \/ (v >= 0 /\ ~Settled(prog.ins[v].page))) -> Lost
    [] OTHER -> v
RealStart == {<<prog.starts[i], r, Other>> : i \in DOMAIN prog.starts, r \in Regs \cup {Way}}
RealNext(p, r, v) == {<<q, r, RealAfter(prog.ins[p], p, r, v)>> :
                        q \in RealSuccessors(prog.ins[p], p) \cap Pos}
RealStep(S) == S \cup UNION {RealNext(d[1], d[2], d[3]) : d \in S}
RealWithin[n \in Nat] == IF n = 0 THEN RealStart ELSE RealStep(RealWithin[n - 1])
RealBound == Cardinality(Pos \X (Regs \cup {Way}) \X (Pos \cup {Other, Lost}))
RealDefs == RealWithin[CHOOSE n \in 0 .. RealBound : RealStep(RealWithin[n]) = RealWithin[n]]
Values(real, p, r) == {d[3] : d \in {e \in real : e[1] = p /\ e[2] = r}}

\* The code a compiler emits: no ADRP is dead; whatever way leads to a consumer,
\* its base holds one page, of which the consumer adds the low bits, or never
\* one; and no page that waits for its consumer is carried across an indirect
\* branch.
Compiled(real) ==
  \A p \in Pos :
    /\ prog.ins[p].k = "adrp" => Values(real, p, Way) # {}
    /\ prog.ins[p].k = "use" =>
         LET v == Values(real, p, prog.ins[p].rn)
         IN  \/ v \subseteq {Other}
             \/ /\ v \cap {Other, Lost} = {} /\ prog.ins[p].disp \in 0 .. PageSize - 1
                /\ \A d, e \in v : prog.ins[d].page = prog.ins[e].page

\* On every way to p, r holds one page, and that page waits for a consumer.
Waits(real, p, r) ==
  LET v == Values(real, p, r)
  IN  /\ v # {}
      /\ \A d \in v : d >= 0 /\ ~Settled(prog.ins[d].page)
      /\ \A d, e \in v : prog.ins[d].page = prog.ins[e].page

\* The blocks behind an indirect branch run upwards: an ADRP that only such a
\* branch leads to, and that is met while another's page waits, has one of the
\* ADRPs of that page below it, so that the script does not start from it.  A
\* tail below the block that branches to it is entered first, with nothing known,
\* and the merge then forgets the page the block brings (uncache.py:1033).
Upwards(real) ==
  \A p \in Pos : prog.ins[p].k = "adrp" /\ Other \notin Values(real, p, Way) =>
    \A r \in Regs : Waits(real, p, r) => \E d \in Values(real, p, r) : d < p

\* Where the rewritten pair points, and where it should: every consumer that the
\* processor can reach addresses, on every way, the new place of what it
\* addressed in the cache.
Reached(d, p) == AdrpTarget(imm[d], prog.base + d + TextDelta) + disp[p]
Faithful(real) ==
  \A p \in Pos : prog.ins[p].k = "use" =>
    \A d \in Values(real, p, prog.ins[p].rn) \ {Other} :
      LET t == prog.ins[d].page + prog.ins[p].disp
      IN  Moved(t) # {} \/ t \in DOMAIN GotSlots => Reached(d, p) = NewTarget(t)

\* When the script succeeds on code that a compiler emits and whose blocks run
\* upwards, the rewritten code addresses what the code addressed.
TargetsFaithful ==
  status = "done" => LET real == RealDefs
                     IN  Compiled(real) /\ Upwards(real) => Faithful(real)

\* An instruction once patched is never patched to something else: the script
\* patches while its knowledge of the code is still incomplete.
PatchedOnce ==
  [][\A p \in Pos :
       /\ pages[p].known => pages'[p] = pages[p] /\ imm'[p] = imm[p]
       /\ disp[p] # (IF prog.ins[p].k = "use" THEN prog.ins[p].disp ELSE 0) => disp'[p] = disp[p]]_vars

\* The analysis comes to an end, loops in the code included.
Terminates == <>(status # "run")

\* The tables have the shape rewrite_adrp gives them; what a state says of a
\* register names ADRPs that put that page there.
GoodState(state) ==
  /\ DOMAIN state = Regs
  /\ \A r \in Regs : \A d \in state[r].defs :
       /\ d \in Pos /\ prog.ins[d].k = "adrp"
       /\ prog.ins[d].page = state[r].page /\ prog.ins[d].rd = r

AdrpTypeOK ==
  /\ WellFormed(prog)
  /\ status \in {"run", "done", "failed"}
  /\ seen \subseteq Pos /\ work \in Seq(seen)
  /\ DOMAIN incoming = Pos /\ DOMAIN pages = Pos /\ DOMAIN imm = Pos /\ DOMAIN disp = Pos
  /\ \A p \in Pos : GoodState(incoming[p])
=============================================================================
