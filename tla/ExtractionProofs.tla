------------------------- MODULE ExtractionProofs --------------------------
(***************************************************************************)
(* Proofs about the two halves of uncache.py, for every image and every    *)
(* program.                                                                *)
(*                                                                         *)
(* rewrite_adrp (AdrpRewrite) patches code while its knowledge of the code *)
(* grows: its states stay well formed, an instruction once patched is      *)
(* never patched to something else, and when it is done every consumer     *)
(* addresses the new place of what it addressed.                           *)
(*                                                                         *)
(* The second holds because what the analysis says of a register at a      *)
(* position is only ever forgotten, never replaced, and because an ADRP    *)
(* that is repaired at once is known before any consumer can name it.      *)
(*                                                                         *)
(* The third compares two fixed points.  The processor's is RealDefs, a    *)
(* least one: what holds at the starts and goes on along every way holds   *)
(* on it (WaysInduct).  The analysis' is what the loop leaves behind a     *)
(* position that no longer waits in the work list (LoopInv).  RealInv      *)
(* relates the two: the analysis meets only what the processor meets,      *)
(* knows of no ADRP that the processor does not know, and has forgotten no *)
(* page that still waits for its consumer.                                 *)
(*                                                                         *)
(* main() (Uncache) lays the image out again: the last part proves that    *)
(* the layout is sound.  Its core is CompactIs, what relayout_compact does *)
(* to segments that are apart: slots that do not meet (PlacementIs), one   *)
(* moved range for an address (AmapIs), and so one source for a word of    *)
(* the new file (CopiedIs).  LayoutInv carries that over the later stages, *)
(* of which two write to the file.                                         *)
(***************************************************************************)
EXTENDS AdrpRewrite, Uncache, TLAPS, FiniteSetTheorems, WellFoundedInduction

\* The patched words are those of the page that was decided.
PageShape ==
  \A p \in Pos : pages[p].known =>
    /\ pages[p] = PageAt(pages[p].at)
    /\ imm[p] = SetAdrp(prog.base + p + TextDelta, pages[p].at)

\* An ADRP of a page that moves as a whole is decided when it is met.
EagerKnown ==
  \A p \in Pos : \A r \in Regs : \A d \in incoming[p][r].defs :
    Eager(prog.ins[d].page) => pages[d].known

EagerPage ==
  \A p \in Pos : prog.ins[p].k = "adrp" /\ Eager(prog.ins[p].page) /\ pages[p].known =>
    pages[p].at = prog.ins[p].page + seg_delta_old(prog.ins[p].page)

\* What a consumer's displacement becomes when its register holds the page.
NewDisp(i, page) == NewTarget(page + i.disp) - DesiredPage(page, page + i.disp)

\* A consumer that was patched was patched for the page its register still has,
\* unless the register has been forgotten since.
UseDisp ==
  \A p \in Pos :
    IF prog.ins[p].k = "use"
    THEN \/ disp[p] = prog.ins[p].disp
         \/ /\ p \in seen
            /\ \/ incoming[p][prog.ins[p].rn].defs = {}
               \/ disp[p] = NewDisp(prog.ins[p], incoming[p][prog.ins[p].rn].page)
    ELSE disp[p] = 0

AdrpInv == AdrpTypeOK /\ PageShape /\ EagerKnown /\ EagerPage /\ UseDisp

-----------------------------------------------------------------------------
LEMMA UnknownGood == GoodState(Unknown)
  BY DEF GoodState, Unknown, NoDef

LEMMA ForgetGood ==
  ASSUME NEW state, NEW regs, GoodState(state)
  PROVE  GoodState(Forget(state, regs))
  BY DEF GoodState, Forget, NoDef

LEMMA MergeGood ==
  ASSUME NEW a, NEW b, GoodState(a), GoodState(b)
  PROVE  GoodState(Merge(a, b))
  BY DEF GoodState, Merge, NoDef

LEMMA PageAtIs ==
  ASSUME NEW a
  PROVE  PageAt(a).known /\ PageAt(a).at = a
  BY DEF PageAt

LEMMA InitInv == Init => AdrpInv
<1> SUFFICES ASSUME Init PROVE AdrpInv
  OBVIOUS
<1>1. WellFormed(prog)
  BY ProgramsAssumption DEF Init
<1>2. seen \subseteq Pos /\ work \in Seq(seen)
  <2>1. work \in Seq(Pos) /\ seen = {work[i] : i \in DOMAIN work}
    BY <1>1 DEF Init, WellFormed, Pos
  <2>2. \A i \in 1 .. Len(work) : work[i] \in Pos /\ work[i] \in seen
    BY <2>1
  <2>3. work \in Seq(seen)
    BY <2>1, <2>2, SMT
  <2> QED BY <2>1, <2>3, SMT
<1>3. \A p \in Pos : GoodState(incoming[p])
  BY UnknownGood DEF Init
<1>4. AdrpTypeOK
  BY <1>1, <1>2, <1>3 DEF Init, AdrpTypeOK
<1>5. PageShape /\ EagerKnown /\ EagerPage
  BY DEF Init, PageShape, EagerKnown, EagerPage, NoPage, Unknown, NoDef
<1>6. UseDisp
  BY DEF Init, UseDisp
<1> QED BY <1>4, <1>5, <1>6 DEF AdrpInv

\* The position that is taken from the work list has been reached.
LEMMA AtSeen ==
  ASSUME AdrpTypeOK, work # <<>>
  PROVE  At \in seen /\ At \in Pos /\ GoodState(State)
<1>1. Len(work) \in DOMAIN work
  BY DEF AdrpTypeOK
<1> QED BY <1>1 DEF AdrpTypeOK, At, State

\* What Flow does to the tables: a state that was there is merged, one that was
\* not is the state that arrives.
LEMMA FlowType ==
  ASSUME AdrpTypeOK, work # <<>>, NEW successors, NEW state, GoodState(state),
         Flow(successors, state), UNCHANGED prog
  PROVE  /\ seen \subseteq seen' /\ seen' \subseteq Pos /\ work' \in Seq(seen')
         /\ DOMAIN incoming' = Pos
         /\ \A p \in Pos : GoodState(incoming'[p])
         /\ \A p \in Pos : \/ incoming'[p] = incoming[p]
                           \/ p \notin seen /\ p \in seen' /\ incoming'[p] = state
                           \/ p \in seen /\ incoming'[p] = Merge(incoming[p], state)
<1> DEFINE at == {successors[i] : i \in DOMAIN successors} \cap Pos
           rest == SubSeq(work, 1, Len(work) - 1)
           one == Pushed(rest, successors, 1, state)
<1>1. seen' = seen \cup at /\ seen \subseteq seen' /\ seen' \subseteq Pos
  BY DEF Flow, AdrpTypeOK
<1>2. rest \in Seq(seen')
  <2>1. work \in Seq(seen')
    BY <1>1 DEF AdrpTypeOK
  <2> QED BY <2>1
<1>3. ASSUME NEW queue \in Seq(seen'), NEW i
      PROVE  Pushed(queue, successors, i, state) \in Seq(seen')
  <2>1. i \in DOMAIN successors /\ successors[i] \in Pos => successors[i] \in seen'
    BY <1>1
  <2> QED BY <2>1 DEF Pushed
<1>4. work' \in Seq(seen')
  <2>1. work' = Pushed(one, successors, 2, state)
    BY DEF Flow
  <2>2. one \in Seq(seen')
    BY <1>2, <1>3
  <2> QED BY <2>1, <2>2, <1>3
<1>5. incoming' = [p \in Pos |-> IF p \in at THEN Joined(p, state) ELSE incoming[p]]
  BY DEF Flow
<1>6. \A p \in Pos : \/ incoming'[p] = incoming[p]
                     \/ p \notin seen /\ p \in seen' /\ incoming'[p] = state
                     \/ p \in seen /\ incoming'[p] = Merge(incoming[p], state)
  BY <1>1, <1>5 DEF Joined
<1>7. \A p \in Pos : GoodState(incoming'[p])
  BY <1>6, MergeGood DEF AdrpTypeOK
<1> QED BY <1>1, <1>4, <1>5, <1>6, <1>7

\* After a merge a register has the page it had, or none.
LEMMA MergeForgets ==
  ASSUME NEW a, NEW b, NEW r \in Regs, Merge(a, b)[r].defs # {}
  PROVE  /\ a[r].defs # {} /\ b[r].defs # {}
         /\ Merge(a, b)[r].page = a[r].page
         /\ Merge(a, b)[r].defs = a[r].defs \cup b[r].defs
  BY DEF Merge, NoDef

\* Patches never reach a position that was not met, and a step that patches no
\* displacement keeps UseDisp.
LEMMA FlowUseDisp ==
  ASSUME AdrpInv, work # <<>>, NEW successors, NEW state, GoodState(state),
         Flow(successors, state), UNCHANGED prog, NEW q \in Pos, disp'[q] = disp[q]
  PROVE  IF prog.ins[q].k = "use"
         THEN \/ disp'[q] = prog.ins[q].disp
              \/ /\ q \in seen'
                 /\ \/ incoming'[q][prog.ins[q].rn].defs = {}
                    \/ disp'[q] = NewDisp(prog.ins[q], incoming'[q][prog.ins[q].rn].page)
         ELSE disp'[q] = 0
<1>1. CASE prog.ins[q].k # "use"
  BY <1>1 DEF AdrpInv, UseDisp
<1>2. CASE prog.ins[q].k = "use" /\ disp[q] # prog.ins[q].disp
  <2> DEFINE r == prog.ins[q].rn
  <2>1. r \in Regs
    BY <1>2 DEF AdrpInv, AdrpTypeOK, WellFormed, Pos
  <2>2. q \in seen /\ (incoming[q][r].defs = {} \/ disp[q] = NewDisp(prog.ins[q], incoming[q][r].page))
    BY <1>2 DEF AdrpInv, UseDisp
  <2>3. q \in seen'
    BY <2>2, FlowType DEF AdrpInv
  <2>4. \/ incoming'[q] = incoming[q]
        \/ incoming'[q] = Merge(incoming[q], state)
    BY <2>2, FlowType DEF AdrpInv
  <2>5. incoming'[q][r].defs = {} \/ disp[q] = NewDisp(prog.ins[q], incoming'[q][r].page)
    <3>1. CASE incoming'[q] = incoming[q]
      BY <3>1, <2>2
    <3>2. CASE incoming'[q] = Merge(incoming[q], state)
      <4>1. SUFFICES ASSUME Merge(incoming[q], state)[r].defs # {}
                     PROVE  disp[q] = NewDisp(prog.ins[q], Merge(incoming[q], state)[r].page)
        BY <3>2
      <4>2. incoming[q][r].defs # {} /\ Merge(incoming[q], state)[r].page = incoming[q][r].page
        BY <2>1, <4>1, MergeForgets
      <4> QED BY <4>2, <2>2
    <3> QED BY <3>1, <3>2, <2>4
  <2> QED BY <1>2, <2>3, <2>5
<1>3. CASE prog.ins[q].k = "use" /\ disp[q] = prog.ins[q].disp
  BY <1>3
<1> QED BY <1>1, <1>2, <1>3

\* What a state that flows on may name, for EagerKnown.
LEMMA FlowEager ==
  ASSUME AdrpInv, work # <<>>, NEW successors, NEW state, GoodState(state),
         Flow(successors, state), UNCHANGED prog,
         \A d \in Pos : pages[d].known => pages'[d].known,
         \A r \in Regs : \A d \in state[r].defs : Eager(prog.ins[d].page) => pages'[d].known
  PROVE  EagerKnown'
<1> SUFFICES ASSUME NEW p \in Pos, NEW r \in Regs, NEW d \in incoming'[p][r].defs,
                    Eager(prog.ins[d].page)
             PROVE  pages'[d].known
  BY DEF EagerKnown, Pos, Eager
<1>1. \A e \in incoming[p][r].defs : e \in Pos /\ (Eager(prog.ins[e].page) => pages[e].known)
  BY DEF AdrpInv, AdrpTypeOK, GoodState, EagerKnown
<1>2. d \in incoming[p][r].defs \/ d \in state[r].defs
  <2>1. CASE incoming'[p] = Merge(incoming[p], state)
    BY <2>1, MergeForgets
  <2> QED BY <2>1, FlowType DEF AdrpInv
<1> QED BY <1>1, <1>2

-----------------------------------------------------------------------------
\* What a step may do to a position: nothing patched is patched differently.
Kept(p) ==
  /\ pages[p].known => pages'[p] = pages[p] /\ imm'[p] = imm[p]
  /\ disp[p] # (IF prog.ins[p].k = "use" THEN prog.ins[p].disp ELSE 0) => disp'[p] = disp[p]

\* Steps that patch nothing.
LEMMA QuietStep ==
  ASSUME AdrpInv, work # <<>>, NEW successors, NEW regs,
         Flow(successors, Forget(State, regs)), UNCHANGED <<prog, pages, imm, disp>>,
         status' \in {"run", "done", "failed"}
  PROVE  AdrpInv' /\ \A p \in Pos : Kept(p)
<1> DEFINE state == Forget(State, regs)
<1>1. At \in Pos /\ GoodState(State) /\ GoodState(state)
  BY AtSeen, ForgetGood DEF AdrpInv
<1>2. AdrpTypeOK'
  BY <1>1, FlowType DEF AdrpInv, AdrpTypeOK, Pos, GoodState
<1>3. EagerKnown'
  <2>1. \A r \in Regs : \A d \in state[r].defs : Eager(prog.ins[d].page) => pages'[d].known
    <3>1. \A r \in Regs : state[r].defs \subseteq State[r].defs
      BY DEF Forget, NoDef
    <3> QED BY <3>1, <1>1 DEF AdrpInv, EagerKnown, State
  <2> QED BY <1>1, <2>1, FlowEager
<1>4. PageShape' /\ EagerPage'
  BY DEF AdrpInv, PageShape, EagerPage, Pos, Eager
<1>5. UseDisp'
  BY <1>1, FlowUseDisp DEF UseDisp, Pos
<1> QED BY <1>2, <1>3, <1>4, <1>5 DEF AdrpInv, Kept

LEMMA StepOtherInv ==
  ASSUME AdrpInv, StepOther
  PROVE  AdrpInv' /\ \A p \in Pos : Kept(p)
  BY QuietStep DEF StepOther, Popped, AdrpInv, AdrpTypeOK

LEMMA SeedAdrpInv ==
  ASSUME AdrpInv, SeedAdrp
  PROVE  AdrpInv' /\ \A p \in Pos : Kept(p)
<1>0. Pos' = Pos /\ UNCHANGED <<prog, pages, imm, disp>>
  BY DEF SeedAdrp, Pos
<1>1. CASE status' = "done" /\ UNCHANGED <<seen, incoming, work>>
  <2>1. AdrpTypeOK'
    BY <1>0, <1>1 DEF AdrpInv, AdrpTypeOK, GoodState
  <2>2. PageShape' /\ EagerKnown' /\ EagerPage'
    BY <1>0, <1>1 DEF AdrpInv, PageShape, EagerKnown, EagerPage, Eager
  <2>3. UseDisp'
    BY <1>0, <1>1 DEF AdrpInv, UseDisp
  <2> QED BY <1>0, <2>1, <2>2, <2>3 DEF AdrpInv, Kept
<1>2. ASSUME NEW p \in Unreached, seen' = seen \cup {p}, work' = <<p>>,
             incoming' = [incoming EXCEPT ![p] = Unknown], UNCHANGED status
      PROVE  AdrpInv' /\ \A q \in Pos : Kept(q)
  <2>1. p \in Pos /\ p \notin seen
    BY DEF Unreached
  <2>2. \A q \in Pos : incoming'[q] = IF q = p THEN Unknown ELSE incoming[q]
    BY <1>2 DEF AdrpInv, AdrpTypeOK
  <2>3. AdrpTypeOK'
    <3>1. \A q \in Pos : GoodState(incoming'[q])
      BY <2>2, UnknownGood DEF AdrpInv, AdrpTypeOK
    <3>2. seen' \subseteq Pos /\ work' \in Seq(seen')
      BY <1>2, <2>1 DEF AdrpInv, AdrpTypeOK
    <3>3. DOMAIN incoming' = Pos
      BY <1>2 DEF AdrpInv, AdrpTypeOK
    <3> QED BY <1>0, <1>2, <3>1, <3>2, <3>3 DEF AdrpInv, AdrpTypeOK, GoodState
  <2>4. PageShape' /\ EagerPage'
    BY <1>0 DEF AdrpInv, PageShape, EagerPage, Eager
  <2>5. EagerKnown'
    <3> SUFFICES ASSUME NEW q \in Pos, NEW r \in Regs, NEW d \in incoming'[q][r].defs,
                        Eager(prog.ins[d].page)
                 PROVE  pages[d].known
      BY <1>0 DEF EagerKnown, Eager
    <3>1. q # p /\ d \in incoming[q][r].defs
      BY <2>2 DEF Unknown, NoDef
    <3> QED BY <3>1 DEF AdrpInv, EagerKnown
  <2>6. UseDisp'
    BY <1>0, <1>2, <2>1, <2>2 DEF AdrpInv, UseDisp
  <2> QED BY <1>0, <2>3, <2>4, <2>5, <2>6 DEF AdrpInv, Kept
<1> QED BY <1>1, <1>2 DEF SeedAdrp

LEMMA StepAdrpInv ==
  ASSUME AdrpInv, StepAdrp
  PROVE  AdrpInv' /\ \A p \in Pos : Kept(p)
<1> DEFINE new == Ins.page + seg_delta_old(Ins.page)
           state == [State EXCEPT ![Ins.rd] = [page |-> Ins.page, defs |-> {At}]]
<1>0. /\ Pos' = Pos /\ UNCHANGED <<prog, disp, status>> /\ work # <<>>
      /\ Flow(<<At + 1>>, state)
      /\ Ins = prog.ins[At] /\ Ins.k = "adrp"
  BY DEF StepAdrp, Popped, Pos, Ins
<1>1. At \in seen /\ At \in Pos /\ GoodState(State)
  BY <1>0, AtSeen DEF AdrpInv
<1>2. Ins.rd \in Regs
  BY <1>0, <1>1 DEF AdrpInv, AdrpTypeOK, WellFormed, Pos
<1>3. GoodState(state)
  BY <1>0, <1>1, <1>2 DEF GoodState
<1>4. \A p \in Pos : p # At => pages'[p] = pages[p] /\ imm'[p] = imm[p]
  BY <1>0 DEF StepAdrp, AdrpInv, AdrpTypeOK
<1>5. Eager(Ins.page) => /\ pages'[At] = PageAt(new)
                         /\ imm'[At] = SetAdrp(prog.base + At + TextDelta, new)
  BY <1>0, <1>1 DEF StepAdrp, AdrpInv, AdrpTypeOK
<1>6. ~Eager(Ins.page) => UNCHANGED <<pages, imm>>
  BY DEF StepAdrp
<1>7. DOMAIN pages' = Pos /\ DOMAIN imm' = Pos
  BY DEF StepAdrp, AdrpInv, AdrpTypeOK
<1>8. AdrpTypeOK'
  <2>1. /\ seen' \subseteq Pos /\ work' \in Seq(seen') /\ DOMAIN incoming' = Pos
        /\ \A p \in Pos : GoodState(incoming'[p])
    BY <1>0, <1>3, FlowType DEF AdrpInv
  <2> QED BY <1>0, <1>7, <2>1 DEF AdrpInv, AdrpTypeOK, GoodState
\* An ADRP met again is given the page it has.
<1>9. Eager(Ins.page) /\ pages[At].known => pages'[At] = pages[At] /\ imm'[At] = imm[At]
  BY <1>0, <1>1, <1>5 DEF AdrpInv, EagerPage, PageShape
<1>10. \A p \in Pos : Kept(p)
  BY <1>0, <1>4, <1>6, <1>9 DEF Kept
<1>11. PageShape'
  <2>1. Eager(Ins.page) => pages'[At] = PageAt(pages'[At].at) /\ pages'[At].at = new
    BY <1>5, PageAtIs
  <2> QED BY <1>0, <1>4, <1>5, <1>6, <2>1 DEF AdrpInv, PageShape
<1>12. EagerPage'
  BY <1>0, <1>4, <1>5, <1>6 DEF AdrpInv, EagerPage, Eager, PageAt
<1>13. EagerKnown'
  <2>1. \A d \in Pos : pages[d].known => pages'[d].known
    BY <1>10 DEF Kept
  <2>2. \A r \in Regs : \A d \in state[r].defs : Eager(prog.ins[d].page) => pages'[d].known
    <3>1. \A r \in Regs : \A d \in State[r].defs : Eager(prog.ins[d].page) => pages'[d].known
      BY <1>1, <2>1 DEF AdrpInv, EagerKnown, State, GoodState
    <3>2. Eager(prog.ins[At].page) => pages'[At].known
      BY <1>0, <1>5 DEF PageAt
    <3>3. \A r \in Regs : \A d \in state[r].defs : d = At \/ d \in State[r].defs
      BY <1>1, <1>2 DEF GoodState
    <3> QED BY <3>1, <3>2, <3>3
  <2> QED BY <1>0, <1>3, <2>1, <2>2, FlowEager
<1>14. UseDisp'
  BY <1>0, <1>3, FlowUseDisp DEF UseDisp
<1> QED BY <1>8, <1>10, <1>11, <1>12, <1>13, <1>14 DEF AdrpInv

LEMMA StepUseInv ==
  ASSUME AdrpInv, StepUse
  PROVE  AdrpInv' /\ \A p \in Pos : Kept(p)
<1> DEFINE value == State[Ins.rn]
           target == value.page + Ins.disp
           page == DesiredPage(value.page, target)
           new == NewTarget(target) - page
           state == Forget(State, Ins.writes)
<1>0. /\ Pos' = Pos /\ UNCHANGED prog /\ work # <<>> /\ status = "run"
      /\ Flow(<<At + 1>>, state)
      /\ Ins = prog.ins[At] /\ Ins.k = "use"
  BY DEF StepUse, Popped, Pos, Ins
<1>1. CASE UNCHANGED <<pages, imm, disp>>
  <2>1. status' \in {"run", "done", "failed"}
    BY <1>0 DEF StepUse
  <2> QED BY <1>0, <1>1, <2>1, QuietStep
<1>2. CASE /\ value.defs # {} /\ DefsAgree(value.defs, page)
           /\ pages' = [p \in Pos |-> IF p \in value.defs THEN PageAt(page) ELSE pages[p]]
           /\ imm' = [p \in Pos |-> IF p \in value.defs /\ ~pages[p].known
                                    THEN SetAdrp(prog.base + p + TextDelta, page)
                                    ELSE imm[p]]
           /\ disp' = [disp EXCEPT ![At] = new]
           /\ UNCHANGED status
  <2>1. At \in seen /\ At \in Pos /\ GoodState(State) /\ GoodState(state)
    BY <1>0, AtSeen, ForgetGood DEF AdrpInv
  <2>2. Ins.rn \in Regs
    BY <1>0, <2>1 DEF AdrpInv, AdrpTypeOK, WellFormed, Pos
  <2>3. State = incoming[At] /\ value = incoming[At][prog.ins[At].rn]
    BY <1>0 DEF State
  \* The definitions that have a page have this one.
  <2>4. \A d \in value.defs : pages[d].known => pages[d] = PageAt(page) /\ pages[d].at = page
    <3>1. \A d \in value.defs : d \in Pos
      BY <2>1, <2>2 DEF GoodState
    <3>2. \A d \in value.defs : pages[d].known => pages[d].at = page
      BY <1>2 DEF DefsAgree
    <3> QED BY <3>1, <3>2 DEF AdrpInv, PageShape
  <2>5. \A p \in Pos : p # At => disp'[p] = disp[p]
    BY <1>2 DEF AdrpInv, AdrpTypeOK
  <2>6. disp'[At] = new
    BY <1>2, <2>1 DEF AdrpInv, AdrpTypeOK
  <2>7. new = NewDisp(prog.ins[At], incoming[At][prog.ins[At].rn].page)
    BY <1>0, <2>3 DEF NewDisp
  \* A consumer that was patched is given what it has.
  <2>8. disp[At] # prog.ins[At].disp => disp'[At] = disp[At]
    BY <1>0, <1>2, <2>1, <2>3, <2>6, <2>7 DEF AdrpInv, UseDisp
  <2>9. \A p \in Pos : Kept(p)
    <3>1. \A p \in Pos : pages[p].known => pages'[p] = pages[p] /\ imm'[p] = imm[p]
      BY <1>2, <2>4
    <3>2. \A p \in Pos : disp[p] # (IF prog.ins[p].k = "use" THEN prog.ins[p].disp ELSE 0)
                           => disp'[p] = disp[p]
      BY <1>0, <2>5, <2>8
    <3> QED BY <3>1, <3>2 DEF Kept
  <2>10. AdrpTypeOK'
    <3>1. /\ seen' \subseteq Pos /\ work' \in Seq(seen') /\ DOMAIN incoming' = Pos
          /\ \A p \in Pos : GoodState(incoming'[p])
      BY <1>0, <2>1, FlowType DEF AdrpInv
    <3>2. DOMAIN pages' = Pos /\ DOMAIN imm' = Pos /\ DOMAIN disp' = Pos
      BY <1>2 DEF AdrpInv, AdrpTypeOK
    <3>3. status' \in {"run", "done", "failed"}
      BY <1>0, <1>2
    <3> QED BY <1>0, <3>1, <3>2, <3>3 DEF AdrpInv, AdrpTypeOK, GoodState
  <2>11. PageShape'
    <3> SUFFICES ASSUME NEW p \in Pos, pages'[p].known
                 PROVE  /\ pages'[p] = PageAt(pages'[p].at)
                        /\ imm'[p] = SetAdrp(prog.base + p + TextDelta, pages'[p].at)
      BY <1>0 DEF PageShape
    <3>1. CASE p \in value.defs
      <4>1. pages'[p] = PageAt(page) /\ pages'[p].at = page
        BY <1>2, <3>1, PageAtIs
      <4>2. CASE pages[p].known
        BY <1>2, <2>4, <3>1, <4>1, <4>2 DEF AdrpInv, PageShape
      <4>3. CASE ~pages[p].known
        BY <1>2, <3>1, <4>1, <4>3
      <4> QED BY <4>2, <4>3
    <3>2. CASE p \notin value.defs
      BY <1>2, <3>2 DEF AdrpInv, PageShape
    <3> QED BY <3>1, <3>2
  \* Every eager definition had its page already.
  <2>12. EagerPage'
    <3> SUFFICES ASSUME NEW p \in Pos, prog.ins[p].k = "adrp", Eager(prog.ins[p].page),
                        pages'[p].known
                 PROVE  pages'[p].at = prog.ins[p].page + seg_delta_old(prog.ins[p].page)
      BY <1>0 DEF EagerPage, Eager
    <3>1. pages[p].known
      <4>1. p \in value.defs => pages[p].known
        BY <2>1, <2>2, <2>3, <1>0 DEF AdrpInv, EagerKnown
      <4>2. p \notin value.defs => pages'[p] = pages[p]
        BY <1>2
      <4> QED BY <4>1, <4>2
    <3>2. pages'[p] = pages[p]
      BY <3>1, <2>9 DEF Kept
    <3> QED BY <3>1, <3>2 DEF AdrpInv, EagerPage
  <2>13. EagerKnown'
    <3>1. \A d \in Pos : pages[d].known => pages'[d].known
      BY <2>9 DEF Kept
    <3>2. \A r \in Regs : \A d \in state[r].defs : d \in Pos /\ d \in State[r].defs
      BY <2>1 DEF Forget, NoDef, GoodState
    <3>3. \A r \in Regs : \A d \in state[r].defs : Eager(prog.ins[d].page) => pages'[d].known
      BY <2>1, <2>3, <3>1, <3>2 DEF AdrpInv, EagerKnown
    <3> QED BY <1>0, <2>1, <3>1, <3>3, FlowEager
  <2>14. UseDisp'
    <3> SUFFICES ASSUME NEW q \in Pos
                 PROVE  IF prog.ins[q].k = "use"
                        THEN \/ disp'[q] = prog.ins[q].disp
                             \/ /\ q \in seen'
                                /\ \/ incoming'[q][prog.ins[q].rn].defs = {}
                                   \/ disp'[q] = NewDisp(prog.ins[q], incoming'[q][prog.ins[q].rn].page)
                        ELSE disp'[q] = 0
      BY <1>0 DEF UseDisp
    <3>1. CASE q # At
      <4>1. disp'[q] = disp[q]
        BY <2>5, <3>1
      <4> QED BY <4>1, <1>0, <2>1, FlowUseDisp
    <3>2. CASE q = At
      <4>1. q \in seen'
        BY <1>0, <2>1, <3>2, FlowType DEF AdrpInv
      <4>2. \/ incoming'[q] = incoming[q]
            \/ incoming'[q] = Merge(incoming[q], state)
        BY <1>0, <2>1, <3>2, FlowType DEF AdrpInv
      <4>3. incoming'[q][prog.ins[q].rn].defs = {}
              \/ incoming'[q][prog.ins[q].rn].page = incoming[q][prog.ins[q].rn].page
        BY <1>0, <2>2, <3>2, <4>2, MergeForgets
      <4> QED BY <1>0, <2>6, <2>7, <3>2, <4>1, <4>3
    <3> QED BY <3>1, <3>2
  <2> QED BY <2>9, <2>10, <2>11, <2>12, <2>13, <2>14 DEF AdrpInv
<1> QED BY <1>1, <1>2 DEF StepUse

-----------------------------------------------------------------------------
LEMMA NextInv ==
  ASSUME AdrpInv, [Next]_vars
  PROVE  AdrpInv' /\ (UNCHANGED vars \/ \A p \in Pos : Kept(p))
<1>1. CASE SeedAdrp
  BY <1>1, SeedAdrpInv
<1>2. CASE StepAdrp
  BY <1>2, StepAdrpInv
<1>3. CASE StepUse
  BY <1>3, StepUseInv
<1>4. CASE StepOther
  BY <1>4, StepOtherInv
<1>5. CASE UNCHANGED vars
  <2>1. AdrpTypeOK'
    BY <1>5 DEF vars, AdrpInv, AdrpTypeOK, Pos, GoodState
  <2>2. PageShape' /\ EagerKnown' /\ EagerPage' /\ UseDisp'
    BY <1>5 DEF vars, AdrpInv, PageShape, EagerKnown, EagerPage, UseDisp, Pos, Eager
  <2> QED BY <1>5, <2>1, <2>2 DEF AdrpInv
<1> QED BY <1>1, <1>2, <1>3, <1>4, <1>5 DEF Next, Stopped

\* The states of rewrite_adrp stay well formed: what the work list holds has been
\* reached, and what a state says of a register names ADRPs that put that page
\* there.
THEOREM AdrpTypeSafe == Spec => []AdrpTypeOK
<1>1. AdrpInv /\ [Next]_vars => AdrpInv'
  BY NextInv
<1>2. AdrpInv => AdrpTypeOK
  BY DEF AdrpInv
<1> QED BY InitInv, <1>1, <1>2, PTL DEF Spec

\* Whatever the order of the work list, an ADRP or a consumer that rewrite_adrp
\* has patched is never patched to something else.
THEOREM PatchedOnceSafe == Spec => PatchedOnce
<1>1. AdrpInv /\ [Next]_vars => AdrpInv'
  BY NextInv
<1>2. AdrpInv /\ [Next]_vars =>
        [\A p \in Pos :
           /\ pages[p].known => pages'[p] = pages[p] /\ imm'[p] = imm[p]
           /\ disp[p] # (IF prog.ins[p].k = "use" THEN prog.ins[p].disp ELSE 0)
                => disp'[p] = disp[p]]_vars
  BY NextInv DEF Kept
<1> QED BY InitInv, <1>1, <1>2, PTL DEF Spec, PatchedOnce

-----------------------------------------------------------------------------
\* Induction over the naturals, by the least counterexample.
\* A set of numbers that is not empty has a first: induction by the least
\* counterexample rests on it.
LEMMA NatFirst ==
  ASSUME NEW S \in SUBSET Nat, S # {}
  PROVE  \E i \in S : \A j \in S : i <= j
<1>1. PICK i \in S : \A j \in S : <<j, i>> \notin OpToRel(<, Nat)
  BY NatLessThanWellFounded, WFMin
<1>2. \A j \in S : ~(j < i)
  BY <1>1 DEF OpToRel
<1> QED BY <1>2

\* A function can be defined by what it is at 0 and how it goes on.
LEMMA Recursion ==
  ASSUME NEW T, NEW a \in T, NEW h \in [T -> T]
  PROVE  \E f \in [Nat -> T] : f[0] = a /\ \A n \in Nat : f[n + 1] = h[f[n]]
<1> DEFINE upTo(n) == {g \in [0 .. n -> T] : g[0] = a /\ \A i \in 0 .. n - 1 : g[i + 1] = h[g[i]]}
<1>1. \A n \in Nat : upTo(n) # {}
  <2> DEFINE none == {n \in Nat : upTo(n) = {}}
  <2>1. ASSUME none # {} PROVE FALSE
    <3>1. PICK n \in none : \A m \in none : n <= m
      BY <2>1, NatFirst
    <3>2. n # 0
      <4>1. [i \in 0 .. 0 |-> a] \in upTo(0)
        OBVIOUS
      <4> QED BY <4>1
    <3>3. n - 1 \in Nat /\ n - 1 \notin none
      BY <3>1, <3>2
    <3>4. PICK g \in [0 .. n - 1 -> T] : g[0] = a /\ \A i \in 0 .. n - 2 : g[i + 1] = h[g[i]]
      BY <3>3
    <3> DEFINE k == [i \in 0 .. n |-> IF i = n THEN h[g[n - 1]] ELSE g[i]]
    <3>5. k \in [0 .. n -> T]
      BY <3>3, <3>4
    <3>6. k[0] = a
      BY <3>2, <3>3, <3>4
    <3>7. \A i \in 0 .. n - 1 : k[i + 1] = h[k[i]]
      BY <3>3, <3>4
    <3>8. k \in upTo(n)
      BY <3>5, <3>6, <3>7
    <3> QED BY <3>1, <3>8
  <2> QED BY <2>1
<1>2. \A m, n \in Nat : \A g \in upTo(m), k \in upTo(n) : \A i \in Nat : i <= m /\ i <= n => g[i] = k[i]
  <2> TAKE m, n \in Nat
  <2> TAKE g \in upTo(m), k \in upTo(n)
  <2> DEFINE off == {i \in Nat : i <= m /\ i <= n /\ g[i] # k[i]}
  <2>1. ASSUME off # {} PROVE FALSE
    <3>1. PICK i \in off : \A j \in off : i <= j
      BY <2>1, NatFirst
    <3>2. i # 0
      OBVIOUS
    <3>3. i - 1 \in Nat /\ i - 1 \notin off
      BY <3>1, <3>2
    <3>4. g[i - 1] = k[i - 1] /\ i - 1 \in 0 .. m - 1 /\ i - 1 \in 0 .. n - 1 /\ (i - 1) + 1 = i
      BY <3>3
    <3>5. g[i] = h[g[i - 1]] /\ k[i] = h[k[i - 1]]
      BY <3>4
    <3> QED BY <3>4, <3>5
  <2> QED BY <2>1
<1> DEFINE pick(n) == CHOOSE g \in upTo(n) : TRUE
           f == [n \in Nat |-> pick(n)[n]]
<1>3. \A n \in Nat : pick(n) \in upTo(n)
  BY <1>1
<1> HIDE DEF pick
<1>4. f \in [Nat -> T]
  BY <1>3
<1>5. f[0] = a
  BY <1>3
<1>6. \A n \in Nat : f[n + 1] = h[f[n]]
  <2> TAKE n \in Nat
  <2>1. pick(n + 1) \in upTo(n + 1) /\ pick(n) \in upTo(n)
    BY <1>3
  <2>2. pick(n + 1)[n] = pick(n)[n]
    <3> HIDE DEF upTo
    <3> QED BY <2>1, <1>2
  <2>3. pick(n + 1)[n + 1] = h[pick(n + 1)[n]]
    BY <2>1
  <2> QED BY <2>2, <2>3
<1> QED BY <1>4, <1>5, <1>6

-----------------------------------------------------------------------------
\* RealDefs is the least fixed point that its name says.
\* What RealDefs ranges over.
Ways == Pos \X (Regs \cup {Way}) \X (Pos \cup {Other, Lost})

LEMMA WaysFinite ==
  ASSUME WellFormed(prog)
  PROVE  IsFiniteSet(Ways) /\ Cardinality(Ways) \in Nat
<1> DEFINE R == Regs \cup {Way}
           V == Pos \cup {Other, Lost}
           S == (Pos \X R) \X V
           f == [x \in S |-> <<x[1][1], x[1][2], x[2]>>]
<1>1. IsFiniteSet(Pos)
  BY DEF WellFormed, Pos
<1>2. IsFiniteSet(R)
  BY AdrpAssumption, FS_AddElement
<1>3. IsFiniteSet(V)
  <2>1. V = (Pos \cup {Other}) \cup {Lost}
    OBVIOUS
  <2> QED BY <1>1, <2>1, FS_AddElement
<1>4. IsFiniteSet(S)
  <2> HIDE DEF R, V
  <2>1. IsFiniteSet(Pos \X R)
    BY <1>1, <1>2, FS_Product
  <2> QED BY <1>3, <2>1, FS_Product
<1>5. f \in Surjection(S, Ways)
  <2> HIDE DEF R, V
  <2>1. f \in [S -> Ways]
    BY DEF Ways, R, V
  <2>2. \A w \in Ways : \E x \in S : f[x] = w
    <3> TAKE w \in Ways
    <3>1. w = <<w[1], w[2], w[3]>> /\ w[1] \in Pos /\ w[2] \in R /\ w[3] \in V
      BY DEF Ways, R, V
    <3>2. <<<<w[1], w[2]>>, w[3]>> \in S
      BY <3>1
    <3> QED BY <3>1, <3>2
  <2> QED BY <2>1, <2>2 DEF Surjection
<1>6. IsFiniteSet(Ways)
  <2> HIDE DEF f, S
  <2> QED BY <1>4, <1>5, FS_Surjection
<1> QED BY <1>6, FS_CardinalityType

LEMMA NextInWays ==
  ASSUME WellFormed(prog), NEW p \in Pos, NEW r \in Regs \cup {Way}, NEW v \in Pos \cup {Other, Lost}
  PROVE  RealNext(p, r, v) \subseteq Ways
<1>1. RealAfter(prog.ins[p], p, r, v) \in Pos \cup {Other, Lost}
  BY DEF RealAfter
<1> QED BY <1>1 DEF RealNext, Ways

LEMMA StepInWays ==
  ASSUME WellFormed(prog), NEW S \in SUBSET Ways
  PROVE  RealStep(S) \in SUBSET Ways /\ S \subseteq RealStep(S)
<1>1. \A d \in S : /\ d[1] \in Pos /\ d[2] \in Regs \cup {Way} /\ d[3] \in Pos \cup {Other, Lost}
  BY DEF Ways
<1>2. \A d \in S : RealNext(d[1], d[2], d[3]) \subseteq Ways
  BY <1>1, NextInWays
<1> QED BY <1>2 DEF RealStep

LEMMA StartInWays ==
  ASSUME WellFormed(prog)
  PROVE  RealStart \in SUBSET Ways
  BY DEF RealStart, Ways, WellFormed, Pos

\* RealWithin is what its definition says.
LEMMA WithinIs ==
  ASSUME WellFormed(prog)
  PROVE  /\ RealWithin[0] = RealStart
         /\ \A n \in Nat : RealWithin[n + 1] = RealStep(RealWithin[n])
         /\ \A n \in Nat : RealWithin[n] \in SUBSET Ways
<1> DEFINE h == [S \in SUBSET Ways |-> RealStep(S)]
           Is(g) == g = [n \in Nat |-> IF n = 0 THEN RealStart ELSE RealStep(g[n - 1])]
<1>1. h \in [SUBSET Ways -> SUBSET Ways]
  BY StepInWays
<1>2. PICK f \in [Nat -> SUBSET Ways] : f[0] = RealStart /\ \A n \in Nat : f[n + 1] = h[f[n]]
  <2> DEFINE T == SUBSET Ways
             a == RealStart
  <2>1. a \in T /\ h \in [T -> T]
    BY <1>1, StartInWays
  <2> HIDE DEF h, T, a
  <2>2. \E f \in [Nat -> T] : f[0] = a /\ \A n \in Nat : f[n + 1] = h[f[n]]
    BY <2>1, Recursion
  <2> QED BY <2>2 DEF T, a
<1>3. \A n \in Nat : n # 0 => f[n] = RealStep(f[n - 1])
  <2> SUFFICES ASSUME NEW n \in Nat, n # 0 PROVE f[n] = RealStep(f[n - 1])
    OBVIOUS
  <2>1. n - 1 \in Nat /\ (n - 1) + 1 = n
    OBVIOUS
  <2>2. f[n] = h[f[n - 1]]
    BY <1>2, <2>1
  <2> QED BY <1>2, <2>1, <2>2
<1>4. Is(f)
  BY <1>2, <1>3
<1>5. Is(RealWithin)
  <2>1. RealWithin = CHOOSE g : Is(g)
    BY DEF RealWithin
  <2> HIDE DEF Is
  <2> QED BY <1>4, <2>1
<1>6. RealWithin[0] = RealStart
  BY <1>5
<1>7. \A n \in Nat : RealWithin[n + 1] = RealStep(RealWithin[n])
  BY <1>5
<1>8. \A n \in Nat : RealWithin[n] \in SUBSET Ways
  <2> DEFINE off == {n \in Nat : RealWithin[n] \notin SUBSET Ways}
  <2>1. ASSUME off # {} PROVE FALSE
    <3>1. PICK n \in off : \A m \in off : n <= m
      BY <2>1, NatFirst
    <3>2. n # 0
      BY <1>6, StartInWays
    <3>3. n - 1 \in Nat /\ n - 1 \notin off /\ (n - 1) + 1 = n
      BY <3>1, <3>2
    <3>4. RealWithin[n] = RealStep(RealWithin[n - 1])
      BY <1>7, <3>3
    <3> QED BY <3>3, <3>4, StepInWays
  <2> QED BY <2>1
<1> QED BY <1>6, <1>7, <1>8

\* Within the bound the ways are all found.
LEMMA WaysClose ==
  ASSUME WellFormed(prog)
  PROVE  \E n \in 0 .. RealBound : RealStep(RealWithin[n]) = RealWithin[n]
<1> DEFINE W(n) == RealWithin[n]
           B == RealBound
<1>0. B = Cardinality(Ways) /\ B \in Nat /\ IsFiniteSet(Ways)
  BY WaysFinite DEF RealBound, Ways
<1>1. \A n \in Nat : IsFiniteSet(W(n)) /\ Cardinality(W(n)) \in Nat /\ Cardinality(W(n)) <= B
  <2> TAKE n \in Nat
  <2>1. W(n) \in SUBSET Ways
    BY WithinIs
  <2> QED BY <1>0, <2>1, FS_Subset, FS_CardinalityType
<1>2. SUFFICES ASSUME \A n \in 0 .. B : RealStep(RealWithin[n]) # RealWithin[n] PROVE FALSE
  OBVIOUS
<1>3. \A n \in 0 .. B : Cardinality(W(n)) < Cardinality(W(n + 1))
  <2> TAKE n \in 0 .. B
  <2>1. n \in Nat /\ n + 1 \in Nat
    BY <1>0
  <2>2. W(n + 1) = RealStep(W(n)) /\ W(n) \in SUBSET Ways
    BY <2>1, WithinIs
  <2>3. W(n) \in SUBSET W(n + 1) /\ W(n) # W(n + 1)
    BY <2>2, <1>2, StepInWays
  <2>4. Cardinality(W(n)) <= Cardinality(W(n + 1)) /\ Cardinality(W(n)) # Cardinality(W(n + 1))
    BY <1>1, <2>1, <2>3, FS_Subset
  <2> QED BY <1>1, <2>1, <2>4
<1>4. \A n \in 0 .. B + 1 : n <= Cardinality(W(n))
  <2> DEFINE off == {n \in 0 .. B + 1 : ~(n <= Cardinality(W(n)))}
  <2>1. ASSUME off # {} PROVE FALSE
    <3>0. off \in SUBSET Nat
      BY <1>0
    <3>1. PICK n \in off : \A m \in off : n <= m
      BY <2>1, <3>0, NatFirst
    <3> HIDE DEF W
    <3>2. n # 0
      BY <1>1, <3>0
    <3>3. n - 1 \in 0 .. B /\ n - 1 \notin off /\ (n - 1) + 1 = n
      BY <1>0, <3>1, <3>2
    <3>4. n - 1 <= Cardinality(W(n - 1)) /\ Cardinality(W(n - 1)) < Cardinality(W(n))
      BY <1>0, <1>3, <3>3
    <3>5. Cardinality(W(n - 1)) \in Nat /\ Cardinality(W(n)) \in Nat
      BY <1>0, <1>1, <3>0, <3>3
    <3> QED BY <1>0, <3>0, <3>4, <3>5
  <2> QED BY <2>1
<1>5. B + 1 <= Cardinality(W(B + 1)) /\ Cardinality(W(B + 1)) <= B /\ Cardinality(W(B + 1)) \in Nat
  <2> HIDE DEF W
  <2>1. B + 1 \in Nat /\ B + 1 \in 0 .. B + 1
    BY <1>0
  <2> QED BY <1>1, <1>4, <2>1
<1> QED BY <1>0, <1>5

\* RealDefs holds the starts, is closed, and is the least such set: what holds of
\* the starts and goes on from one to the next holds of all of it.
LEMMA RealIs ==
  ASSUME WellFormed(prog)
  PROVE  /\ RealDefs \in SUBSET Ways
         /\ RealStart \subseteq RealDefs
         /\ \A d \in RealDefs : RealNext(d[1], d[2], d[3]) \subseteq RealDefs
         /\ \A Q : RealStart \subseteq Q
                   /\ (\A d \in RealDefs \cap Q : RealNext(d[1], d[2], d[3]) \subseteq Q)
                     => RealDefs \subseteq Q
<1> DEFINE W(n) == RealWithin[n]
           N == CHOOSE n \in 0 .. RealBound : RealStep(RealWithin[n]) = RealWithin[n]
<1>1. N \in 0 .. RealBound /\ RealStep(W(N)) = W(N) /\ RealDefs = W(N)
  BY WaysClose DEF RealDefs
<1>2. N \in Nat
  BY <1>1, WaysFinite DEF RealBound, Ways
<1> HIDE DEF N
<1>3. RealDefs \in SUBSET Ways
  BY <1>1, <1>2, WithinIs
<1>4. \A d \in RealDefs : RealNext(d[1], d[2], d[3]) \subseteq RealDefs
  BY <1>1 DEF RealStep
<1>5. \A n \in Nat : n <= N => W(n) \subseteq RealDefs
  <2> DEFINE off == {n \in Nat : n <= N /\ ~(W(N - n) \subseteq RealDefs)}
  <2>1. ASSUME off # {} PROVE FALSE
    <3>1. PICK n \in off : \A m \in off : n <= m
      BY <2>1, NatFirst
    <3>2. n # 0
      BY <1>1, <1>2
    <3>3. n - 1 \in Nat /\ n - 1 \notin off /\ N - n \in Nat /\ N - (n - 1) = (N - n) + 1
      BY <1>2, <3>1, <3>2
    <3>4. W(N - (n - 1)) \subseteq RealDefs
      BY <1>2, <3>3
    <3>5. W((N - n) + 1) = RealStep(W(N - n)) /\ W(N - n) \in SUBSET Ways
      BY <3>3, WithinIs
    <3>6. W(N - n) \subseteq W((N - n) + 1)
      BY <3>5, StepInWays
    <3> HIDE DEF W
    <3> QED BY <3>3, <3>4, <3>6
  <2> HIDE DEF W
  <2>2. SUFFICES ASSUME NEW n \in Nat, n <= N PROVE W(n) \subseteq RealDefs
    OBVIOUS
  <2>3. N - n \in Nat /\ N - n <= N /\ N - (N - n) = n
    BY <1>2, <2>2
  <2>4. N - n \notin off
    BY <2>1
  <2> QED BY <2>3, <2>4
<1>6. RealStart \subseteq RealDefs
  <2>1. W(0) = RealStart
    BY WithinIs
  <2> HIDE DEF W
  <2> QED BY <1>2, <1>5, <2>1
<1>7. ASSUME NEW Q, RealStart \subseteq Q,
             \A d \in RealDefs \cap Q : RealNext(d[1], d[2], d[3]) \subseteq Q
      PROVE  RealDefs \subseteq Q
  <2> DEFINE off == {n \in Nat : n <= N /\ ~(W(n) \subseteq Q)}
  <2>1. ASSUME off # {} PROVE FALSE
    <3>1. PICK n \in off : \A m \in off : n <= m
      BY <2>1, NatFirst
    <3>2. n # 0
      BY <1>7, WithinIs
    <3>3. n - 1 \in Nat /\ n - 1 \notin off /\ n - 1 <= N /\ (n - 1) + 1 = n
      BY <1>2, <3>1, <3>2
    <3>4. W(n) = RealStep(W(n - 1))
      BY <3>3, WithinIs
    <3>5. W(n - 1) \subseteq Q /\ W(n - 1) \subseteq RealDefs
      BY <1>5, <3>3
    <3> HIDE DEF W
    <3>6. RealStep(W(n - 1)) \subseteq Q
      BY <1>7, <3>5 DEF RealStep
    <3> QED BY <3>4, <3>6
  <2>2. W(N) \subseteq Q
    BY <1>2, <2>1
  <2> QED BY <1>1, <2>2
<1> QED BY <1>3, <1>4, <1>6, <1>7

-----------------------------------------------------------------------------
(* The rewritten code addresses what the code addressed.  What the loop    *)
(* keeps true of a position that it has met and is done with:              *)

InWork(p) == \E i \in DOMAIN work : work[i] = p
Drained(p) == p \in seen /\ ~InWork(p)

\* What the analysis knows behind the instruction at p.
Transfer(p) ==
  LET i == prog.ins[p]
  IN  IF i.k = "adrp" THEN [incoming[p] EXCEPT ![i.rd] = [page |-> i.page, defs |-> {p}]]
      ELSE Forget(incoming[p], IF i.k = "use" THEN i.writes ELSE Clobbers(i))
FlowsTo(p) == {Successors(prog.ins[p], p)[i] : i \in DOMAIN Successors(prog.ins[p], p)} \cap Pos

\* a knows no more than b, and every way b knows of.
Below(a, b) ==
  \A r \in Regs : \/ a[r].defs = {}
                  \/ b[r].defs # {} /\ a[r].page = b[r].page /\ b[r].defs \subseteq a[r].defs

\* What it knows has reached the successors,
FlowsOn ==
  \A p \in Pos : Drained(p) => \A q \in FlowsTo(p) : q \in seen /\ Below(incoming[q], Transfer(p))

\* a consumer is patched, with all the ADRPs it knows of,
ServedAt(p) ==
  LET i == prog.ins[p]
      value == incoming[p][i.rn]
      old == value.page + i.disp
  IN  value.defs # {} /\ Redirected(old) =>
        /\ NewDisp(i, value.page) \in 0 .. PageSize - 1
        /\ disp[p] = NewDisp(i, value.page)
        /\ \A d \in value.defs : pages[d].known /\ pages[d].at = DesiredPage(value.page, old)

Served ==
  status # "failed" => \A p \in Pos : Drained(p) /\ prog.ins[p].k = "use" => ServedAt(p)

\* and an ADRP of a page that moves as a whole is repaired.
Repaired ==
  \A p \in Pos : Drained(p) /\ prog.ins[p].k = "adrp" /\ Eager(prog.ins[p].page) => pages[p].known

\* Function starts are met first, and at the end nothing waits.
RootsSeen == \A i \in DOMAIN prog.starts : prog.starts[i] \in seen
AllDrained == status = "done" => work = <<>> /\ Unreached = {}

\* An ADRP that is not decided is as it was.
Unpatched ==
  \A p \in Pos : prog.ins[p].k = "adrp" /\ ~pages[p].known =>
    imm[p] = SetAdrp(prog.base + p, prog.ins[p].page)

LoopInv == AdrpInv /\ FlowsOn /\ Served /\ Repaired /\ RootsSeen /\ AllDrained /\ Unpatched

\* What the analysis has to do with the processor: it meets only what the
\* processor meets, knows of no ADRP that the processor does not, and knows the
\* page wherever one waits for its consumer.
Met(real) == \A p \in seen : \A r \in Regs : Values(real, p, r) # {}
Known(real) ==
  \A p \in Pos : \A r \in Regs : incoming[p][r].defs \subseteq Values(real, p, r)
Remembered(real) ==
  \A p \in seen : \A r \in Regs : Waits(real, p, r) => incoming[p][r].defs # {}

\* A page is decided for a target in it that moves, and a consumer is patched
\* for a page that it meets.
Caused ==
  \A p \in Pos : pages[p].known /\ ~Eager(prog.ins[p].page) =>
    \E t \in Int : Redirected(t) /\ PageOf(t) = prog.ins[p].page
Meant(real) ==
  \A p \in Pos : prog.ins[p].k = "use" /\ disp[p] # prog.ins[p].disp =>
    \E d \in Values(real, p, prog.ins[p].rn) : d >= 0 /\ disp[p] = NewDisp(prog.ins[p], prog.ins[d].page)

RealInv ==
  Compiled(RealDefs) /\ Upwards(RealDefs) =>
    Met(RealDefs) /\ Known(RealDefs) /\ Remembered(RealDefs) /\ Caused /\ Meant(RealDefs)

LEMMA BelowTrans ==
  ASSUME NEW a, NEW b, NEW c, Below(a, b), Below(b, c)
  PROVE  Below(a, c)
  BY DEF Below

LEMMA BelowSelf ==
  ASSUME NEW a
  PROVE  Below(a, a)
  BY DEF Below

LEMMA MergeBelow ==
  ASSUME NEW a, NEW b
  PROVE  Below(Merge(a, b), a) /\ Below(Merge(a, b), b)
<1> SUFFICES ASSUME NEW r \in Regs, Merge(a, b)[r].defs # {}
             PROVE  /\ a[r].defs # {} /\ Merge(a, b)[r].page = a[r].page
                    /\ a[r].defs \subseteq Merge(a, b)[r].defs
                    /\ b[r].defs # {} /\ Merge(a, b)[r].page = b[r].page
                    /\ b[r].defs \subseteq Merge(a, b)[r].defs
  BY DEF Below
<1> QED BY DEF Merge, NoDef

\* What Flow does to the work list: what is not in it any more was taken from it
\* or was not there, and has the state it had.
LEMMA FlowWork ==
  ASSUME AdrpTypeOK, work # <<>>, NEW successors, NEW state,
         \A i \in DOMAIN successors : i \in {1, 2}, Flow(successors, state), UNCHANGED prog
  PROVE  LET at == {successors[i] : i \in DOMAIN successors} \cap Pos
         IN  /\ seen' = seen \cup at
             /\ \A p \in Pos : incoming'[p] = IF p \in at THEN Joined(p, state) ELSE incoming[p]
             /\ \A p \in Pos : Drained(p)' =>
                  p \in seen /\ incoming'[p] = incoming[p] /\ (p = At \/ Drained(p))
<1> DEFINE at == {successors[i] : i \in DOMAIN successors} \cap Pos
           rest == SubSeq(work, 1, Len(work) - 1)
           one == Pushed(rest, successors, 1, state)
<1>1. /\ seen' = seen \cup at /\ work' = Pushed(one, successors, 2, state)
      /\ incoming' = [p \in Pos |-> IF p \in at THEN Joined(p, state) ELSE incoming[p]]
  BY DEF Flow
<1>2. work \in Seq(Pos) /\ Len(work) \in Nat /\ Len(work) # 0
  BY DEF AdrpTypeOK
<1>3. /\ rest \in Seq(Pos) /\ Len(rest) = Len(work) - 1
      /\ \A i \in 1 .. Len(work) - 1 : rest[i] = work[i]
  <2> DEFINE n == Len(work) - 1
  <2>1. n \in Nat /\ n <= Len(work)
    BY <1>2
  <2>2. \A i \in 1 .. n : work[i] \in Pos
    BY <1>2
  <2>3. rest = [i \in 1 .. n |-> work[i]]
    BY <1>2, <2>1
  <2> HIDE DEF n, rest
  <2> QED BY <2>1, <2>2, <2>3 DEF n
<1>4. ASSUME NEW queue \in Seq(Pos), NEW i \in {1, 2}
      PROVE  LET long == Pushed(queue, successors, i, state)
             IN  /\ long \in Seq(Pos) /\ Len(long) >= Len(queue)
                 /\ \A j \in DOMAIN queue : j \in DOMAIN long /\ long[j] = queue[j]
                 /\ i \in DOMAIN successors /\ successors[i] \in Pos /\ Changed(successors[i], state)
                      => \E j \in DOMAIN long : long[j] = successors[i]
  <2> DEFINE q == successors[i]
             long == Append(queue, q)
  <2>1. CASE q \in Pos
    <3>1. /\ long \in Seq(Pos) /\ Len(long) = Len(queue) + 1 /\ Len(queue) \in Nat
          /\ long[Len(queue) + 1] = q
          /\ \A j \in 1 .. Len(queue) : long[j] = queue[j]
      BY <2>1
    <3>2. /\ DOMAIN queue = 1 .. Len(queue) /\ DOMAIN long = 1 .. Len(queue) + 1
          /\ Len(queue) + 1 \in DOMAIN long
      BY <3>1
    <3> HIDE DEF long, q
    <3> QED BY <3>1, <3>2 DEF Pushed, long, q
  <2>2. CASE q \notin Pos
    BY <2>2 DEF Pushed
  <2> QED BY <2>1, <2>2
<1>5. /\ one \in Seq(Pos)
      /\ \A j \in DOMAIN rest : j \in DOMAIN one /\ one[j] = rest[j]
      /\ 1 \in DOMAIN successors /\ successors[1] \in Pos /\ Changed(successors[1], state)
           => \E j \in DOMAIN one : one[j] = successors[1]
  BY <1>3, <1>4
<1> HIDE DEF one
<1>6. /\ \A j \in DOMAIN one : j \in DOMAIN work' /\ work'[j] = one[j]
      /\ 2 \in DOMAIN successors /\ successors[2] \in Pos /\ Changed(successors[2], state)
           => \E j \in DOMAIN work' : work'[j] = successors[2]
  BY <1>1, <1>4, <1>5
<1>7. \A p \in Pos : p \in at /\ Changed(p, state) => InWork(p)'
  BY <1>5, <1>6 DEF InWork
<1>8. \A p \in Pos : InWork(p) /\ p # At => InWork(p)'
  <2> SUFFICES ASSUME NEW i \in DOMAIN work, work[i] # At
               PROVE  \E j \in DOMAIN work' : work'[j] = work[i]
    BY DEF InWork
  <2>1. i \in 1 .. Len(work) - 1
    BY <1>2 DEF At
  <2>2. i \in DOMAIN rest /\ rest[i] = work[i]
    BY <1>3, <2>1
  <2> HIDE DEF rest
  <2> QED BY <1>5, <1>6, <2>2
<1>9. \A p \in Pos : incoming'[p] = IF p \in at THEN Joined(p, state) ELSE incoming[p]
  BY <1>1
<1>10. ASSUME NEW p \in Pos, Drained(p)'
       PROVE  p \in seen /\ incoming'[p] = incoming[p] /\ (p = At \/ Drained(p))
  <2>1. p \in seen' /\ ~InWork(p)'
    BY <1>10 DEF Drained
  <2>2. p \in at => ~Changed(p, state)
    BY <2>1, <1>7
  <2>3. p \in seen
    BY <1>1, <2>1, <2>2 DEF Changed
  <2>4. incoming'[p] = incoming[p]
    BY <1>9, <2>2 DEF Changed
  <2> QED BY <1>8, <2>1, <2>3, <2>4 DEF Drained
<1> QED BY <1>1, <1>9, <1>10

LEMMA TwoSuccessors ==
  ASSUME NEW i, NEW p
  PROVE  \A j \in DOMAIN Successors(i, p) : j \in {1, 2}
  BY DEF Successors

\* The transfer of a step is what it hands to Flow, to the positions it flows to.
LEMMA FlowKeepsOn ==
  ASSUME AdrpTypeOK, FlowsOn, work # <<>>, NEW successors, NEW state,
         successors = Successors(Ins, At), state = Transfer(At),
         Flow(successors, state), UNCHANGED prog
  PROVE  /\ FlowsOn'
         /\ \A p \in Pos : Drained(p)' =>
              p \in seen /\ incoming'[p] = incoming[p] /\ (p = At \/ Drained(p))
         /\ seen' = seen \cup FlowsTo(At)
         /\ \A p \in Pos : incoming'[p] = IF p \in FlowsTo(At) THEN Joined(p, state) ELSE incoming[p]
<1>1. FlowsTo(At) = {successors[i] : i \in DOMAIN successors} \cap Pos
  BY DEF FlowsTo, Ins
<1>2. /\ seen' = seen \cup FlowsTo(At)
      /\ \A p \in Pos : incoming'[p] = IF p \in FlowsTo(At) THEN Joined(p, state) ELSE incoming[p]
      /\ \A p \in Pos : Drained(p)' =>
           p \in seen /\ incoming'[p] = incoming[p] /\ (p = At \/ Drained(p))
  BY <1>1, TwoSuccessors, FlowWork
<1>3. \A p \in Pos : p \in seen => Below(incoming'[p], incoming[p])
  BY <1>2, MergeBelow, BelowSelf DEF Joined
<1>4. \A p \in Pos : p \in FlowsTo(At) => Below(incoming'[p], state)
  BY <1>2, MergeBelow, BelowSelf DEF Joined
<1>5. ASSUME NEW p \in Pos, Drained(p)', NEW q \in FlowsTo(p)
      PROVE  q \in seen' /\ Below(incoming'[q], Transfer(p))
  <2>1. q \in Pos
    BY DEF FlowsTo
  <2>2. CASE p = At
    BY <1>2, <1>4, <2>1, <2>2, <1>5
  <2>3. CASE Drained(p)
    <3>1. q \in seen /\ Below(incoming[q], Transfer(p))
      BY <1>5, <2>3 DEF FlowsOn
    <3> QED BY <1>2, <1>3, <2>1, <3>1, BelowTrans
  <2> QED BY <1>2, <1>5, <2>2, <2>3
<1>6. FlowsOn'
  <2> SUFFICES ASSUME NEW p \in Pos, Drained(p)', NEW q \in FlowsTo(p)
               PROVE  q \in seen' /\ Below(incoming'[q], Transfer(p)')
    BY DEF FlowsOn, Pos, FlowsTo
  <2>1. Transfer(p)' = Transfer(p)
    BY <1>2 DEF Transfer
  <2> QED BY <1>5, <2>1
<1> QED BY <1>2, <1>6

LEMMA ServedIs ==
  Served <=> (status # "failed" => \A p \in Pos : Drained(p) /\ prog.ins[p].k = "use" => ServedAt(p))
  BY DEF Served

LEMMA ServedKept ==
  ASSUME NEW p \in Pos, ServedAt(p), UNCHANGED prog, incoming'[p] = incoming[p], disp'[p] = disp[p],
         \A d \in incoming[p][prog.ins[p].rn].defs : pages[d].known => pages'[d] = pages[d]
  PROVE  ServedAt(p)'
<1> DEFINE i == prog.ins[p]
           value == incoming[p][i.rn]
           old == value.page + i.disp
<1> SUFFICES ASSUME value.defs # {}, Redirected(old)
             PROVE  /\ NewDisp(i, value.page) \in 0 .. PageSize - 1
                    /\ disp'[p] = NewDisp(i, value.page)
                    /\ \A d \in value.defs : /\ pages'[d].known
                                            /\ pages'[d].at = DesiredPage(value.page, old)
  BY DEF ServedAt
<1> QED BY DEF ServedAt

\* A turn of the loop, whatever the instruction.
LEMMA TurnInv ==
  ASSUME LoopInv, work # <<>>, status = "run", status' \in {"run", "failed"}, UNCHANGED prog,
         Flow(Successors(Ins, At), Transfer(At)),
         AdrpInv', \A p \in Pos : Kept(p),
         \A p \in Pos : p # At => disp'[p] = disp[p],
         \A p \in Pos : ~pages'[p].known => imm'[p] = imm[p],
         Ins.k = "adrp" /\ Eager(Ins.page) => pages'[At].known,
         \A p \in Pos : /\ status' = "run" /\ p = At /\ prog.ins[p].k = "use"
                        /\ incoming'[p] = incoming[p]
                        => ServedAt(p)'
  PROVE  LoopInv'
<1>0. Pos' = Pos /\ AdrpTypeOK /\ At \in Pos /\ At \in seen /\ Ins = prog.ins[At]
  BY AtSeen DEF LoopInv, AdrpInv, Pos, Ins
<1>1. /\ FlowsOn' /\ seen' = seen \cup FlowsTo(At)
      /\ \A p \in Pos : Drained(p)' =>
           p \in seen /\ incoming'[p] = incoming[p] /\ (p = At \/ Drained(p))
  BY <1>0, FlowKeepsOn DEF LoopInv
<1>2. Served'
  <2> SUFFICES ASSUME status' # "failed", NEW p \in Pos, Drained(p)', prog.ins[p].k = "use"
               PROVE  ServedAt(p)'
    BY <1>0 DEF Served, ServedAt
  <2>0. incoming'[p] = incoming[p]
    BY <1>1
  <2>1. CASE p = At
    BY <1>0, <2>0, <2>1
  <2>2. CASE p # At /\ Drained(p)
    <3>1. ServedAt(p)
      BY <2>2 DEF LoopInv, Served, ServedAt
    <3>2. disp'[p] = disp[p]
      BY <2>2
    <3>3. \A d \in incoming[p][prog.ins[p].rn].defs : pages[d].known => pages'[d] = pages[d]
      <4>1. prog.ins[p].rn \in Regs
        BY <1>0 DEF AdrpTypeOK, WellFormed, Pos
      <4>2. \A d \in incoming[p][prog.ins[p].rn].defs : d \in Pos
        BY <1>0, <4>1 DEF AdrpTypeOK, GoodState
      <4> QED BY <4>2 DEF Kept
    <3> QED BY <2>0, <3>1, <3>2, <3>3, ServedKept
  <2> QED BY <1>1, <2>1, <2>2
<1>3. Repaired'
  <2> SUFFICES ASSUME NEW p \in Pos, Drained(p)', prog.ins[p].k = "adrp", Eager(prog.ins[p].page)
               PROVE  pages'[p].known
    BY <1>0 DEF Repaired
  <2>1. CASE p = At
    BY <1>0, <2>1
  <2>2. CASE Drained(p)
    <3>1. pages[p].known
      BY <2>2 DEF LoopInv, Repaired
    <3> QED BY <3>1 DEF Kept
  <2> QED BY <1>1, <2>1, <2>2
<1>4. RootsSeen'
  BY <1>1 DEF LoopInv, RootsSeen
<1>5. AllDrained'
  BY DEF AllDrained
<1>6. Unpatched'
  <2> SUFFICES ASSUME NEW p \in Pos, prog.ins[p].k = "adrp", ~pages'[p].known
               PROVE  imm'[p] = SetAdrp(prog.base + p, prog.ins[p].page)
    BY <1>0 DEF Unpatched
  <2>1. ~pages[p].known
    BY DEF Kept
  <2> QED BY <2>1 DEF LoopInv, Unpatched
<1> QED BY <1>1, <1>2, <1>3, <1>4, <1>5, <1>6 DEF LoopInv

LEMMA TurnAdrp ==
  ASSUME LoopInv, StepAdrp
  PROVE  LoopInv'
<1>0. /\ AdrpInv /\ AdrpTypeOK /\ work # <<>> /\ status = "run" /\ status' = status
      /\ UNCHANGED <<prog, disp>> /\ Ins.k = "adrp" /\ Ins = prog.ins[At] /\ At \in Pos
  BY AtSeen DEF LoopInv, AdrpInv, StepAdrp, Popped, Ins
<1>1. Successors(Ins, At) = <<At + 1>>
  BY <1>0 DEF Successors
<1>2. Transfer(At) = [State EXCEPT ![Ins.rd] = [page |-> Ins.page, defs |-> {At}]]
  BY <1>0 DEF Transfer, State
<1>3. Flow(Successors(Ins, At), Transfer(At))
  BY <1>1, <1>2 DEF StepAdrp
<1>4. AdrpInv' /\ \A p \in Pos : Kept(p)
  BY <1>0, StepAdrpInv
<1>5. Eager(Ins.page) => pages'[At].known
  BY <1>0, PageAtIs DEF StepAdrp, AdrpTypeOK
<1>6. \A p \in Pos : ~pages'[p].known => imm'[p] = imm[p]
  <2>1. CASE Eager(Ins.page)
    <3>1. \A p \in Pos : p # At => imm'[p] = imm[p]
      BY <1>0, <2>1 DEF StepAdrp, AdrpTypeOK
    <3> QED BY <1>5, <2>1, <3>1
  <2>2. CASE ~Eager(Ins.page)
    BY <2>2 DEF StepAdrp
  <2> QED BY <2>1, <2>2
<1> QED BY <1>0, <1>3, <1>4, <1>5, <1>6, TurnInv

LEMMA TurnOther ==
  ASSUME LoopInv, StepOther
  PROVE  LoopInv'
<1>0. /\ AdrpInv /\ work # <<>> /\ status = "run" /\ UNCHANGED <<prog, pages, imm, disp, status>>
      /\ Ins.k \notin {"adrp", "use"} /\ Ins = prog.ins[At]
  BY DEF LoopInv, StepOther, Popped, Ins
<1>1. Transfer(At) = Forget(State, Clobbers(Ins))
  BY <1>0 DEF Transfer, State
<1>2. Flow(Successors(Ins, At), Transfer(At))
  BY <1>1 DEF StepOther
<1>3. AdrpInv' /\ \A p \in Pos : Kept(p)
  BY <1>0, StepOtherInv
<1> QED BY <1>0, <1>2, <1>3, TurnInv

LEMMA TurnUse ==
  ASSUME LoopInv, StepUse
  PROVE  LoopInv'
<1> DEFINE value == State[Ins.rn]
           old == value.page + Ins.disp
           page == DesiredPage(value.page, old)
           new == NewTarget(old) - page
<1>0. /\ AdrpInv /\ AdrpTypeOK /\ work # <<>> /\ status = "run" /\ UNCHANGED prog
      /\ Ins.k = "use" /\ Ins = prog.ins[At] /\ At \in Pos /\ At \in seen /\ State = incoming[At]
      /\ status' \in {"run", "failed"} /\ GoodState(State) /\ Ins.rn \in Regs
  <2>1. At \in Pos /\ At \in seen /\ GoodState(State)
    BY AtSeen DEF LoopInv, AdrpInv, StepUse, Popped
  <2> QED BY <2>1 DEF LoopInv, AdrpInv, StepUse, Popped, Ins, State, AdrpTypeOK, WellFormed, Pos
<1>1. Successors(Ins, At) = <<At + 1>>
  BY <1>0 DEF Successors
<1>2. Transfer(At) = Forget(State, Ins.writes)
  BY <1>0 DEF Transfer, State
<1>3. Flow(Successors(Ins, At), Transfer(At))
  BY <1>1, <1>2 DEF StepUse
<1>4. AdrpInv' /\ \A p \in Pos : Kept(p)
  BY <1>0, StepUseInv
<1>5. \A p \in Pos : p # At => disp'[p] = disp[p]
  BY <1>0 DEF StepUse, AdrpTypeOK
<1>6. \A p \in Pos : ~pages'[p].known => imm'[p] = imm[p]
  <2>1. CASE UNCHANGED imm
    BY <2>1
  <2>2. CASE /\ pages' = [p \in Pos |-> IF p \in value.defs THEN PageAt(page) ELSE pages[p]]
             /\ imm' = [p \in Pos |-> IF p \in value.defs /\ ~pages[p].known
                                      THEN SetAdrp(prog.base + p + TextDelta, page)
                                      ELSE imm[p]]
    BY <2>2, PageAtIs
  <2> QED BY <2>1, <2>2 DEF StepUse
<1>7. ASSUME status' = "run", NEW p \in Pos, p = At, incoming'[p] = incoming[p]
      PROVE  ServedAt(p)'
  <2> SUFFICES ASSUME value.defs # {}, Redirected(old)
               PROVE  /\ NewDisp(Ins, value.page) \in 0 .. PageSize - 1
                      /\ disp'[At] = NewDisp(Ins, value.page)
                      /\ \A d \in value.defs : pages'[d].known /\ pages'[d].at = page
    BY <1>0, <1>7 DEF ServedAt
  <2>1. /\ new \in 0 .. PageSize - 1
        /\ pages' = [q \in Pos |-> IF q \in value.defs THEN PageAt(page) ELSE pages[q]]
        /\ disp' = [disp EXCEPT ![At] = new]
    BY <1>0, <1>7 DEF StepUse
  <2>2. new = NewDisp(Ins, value.page)
    BY DEF NewDisp
  <2>3. disp'[At] = new
    BY <1>0, <2>1 DEF AdrpTypeOK
  <2>4. \A d \in value.defs : d \in Pos
    BY <1>0 DEF GoodState
  <2>5. \A d \in value.defs : pages'[d] = PageAt(page)
    BY <2>1, <2>4
  <2> HIDE DEF page, new
  <2> QED BY <2>1, <2>2, <2>3, <2>5, PageAtIs
<1> QED BY <1>0, <1>3, <1>4, <1>5, <1>6, <1>7, TurnInv

LEMMA TurnSeed ==
  ASSUME LoopInv, SeedAdrp
  PROVE  LoopInv'
<1>0. /\ Pos' = Pos /\ UNCHANGED <<prog, pages, imm, disp>> /\ AdrpInv /\ AdrpTypeOK
      /\ status = "run" /\ work = <<>> /\ AdrpInv'
  BY SeedAdrpInv DEF SeedAdrp, Pos, LoopInv, AdrpInv
<1>1. \A p : ~InWork(p)
  BY <1>0 DEF InWork
<1>2. RootsSeen' /\ Unpatched'
  BY <1>0 DEF SeedAdrp, LoopInv, RootsSeen, Unpatched
<1>3. CASE Unreached = {} /\ status' = "done" /\ UNCHANGED <<seen, incoming, work>>
  <2>1. \A p \in Pos : Drained(p)' <=> Drained(p)
    BY <1>3 DEF Drained, InWork
  <2>2. FlowsOn'
    BY <1>0, <1>3, <2>1 DEF LoopInv, FlowsOn, FlowsTo, Transfer
  <2>3. Served'
    BY <1>0, <1>3, <2>1 DEF LoopInv, Served, ServedAt
  <2>4. Repaired'
    BY <1>0, <2>1 DEF LoopInv, Repaired
  <2>5. AllDrained'
    BY <1>0, <1>3 DEF AllDrained, Unreached
  <2> QED BY <1>0, <1>2, <2>2, <2>3, <2>4, <2>5 DEF LoopInv
<1>4. ASSUME NEW s \in Unreached, seen' = seen \cup {s}, work' = <<s>>,
             incoming' = [incoming EXCEPT ![s] = Unknown], UNCHANGED status
      PROVE  LoopInv'
  <2>0. s \in Pos /\ s \notin seen
    BY DEF Unreached
  <2>1. InWork(s)'
    BY <1>4 DEF InWork
  <2>2. \A p \in Pos : Drained(p)' => p # s /\ Drained(p) /\ incoming'[p] = incoming[p]
    BY <1>0, <1>1, <1>4, <2>1 DEF Drained, AdrpTypeOK
  <2>3. FlowsOn'
    <3> SUFFICES ASSUME NEW p \in Pos, Drained(p)', NEW q \in FlowsTo(p)
                 PROVE  q \in seen' /\ Below(incoming'[q], Transfer(p)')
      BY <1>0 DEF FlowsOn, FlowsTo
    <3>1. Transfer(p)' = Transfer(p)
      BY <1>0, <2>2 DEF Transfer
    <3>2. q \in seen /\ Below(incoming[q], Transfer(p)) /\ q \in Pos
      BY <2>2 DEF LoopInv, FlowsOn, FlowsTo
    <3>3. incoming'[q] = incoming[q]
      BY <1>0, <1>4, <2>0, <3>2 DEF AdrpTypeOK
    <3> QED BY <1>4, <3>1, <3>2, <3>3
  <2>4. Served'
    <3> SUFFICES ASSUME NEW p \in Pos, Drained(p)', prog.ins[p].k = "use", status' # "failed"
                 PROVE  ServedAt(p)'
      BY <1>0 DEF Served, ServedAt
    <3>1. ServedAt(p) /\ incoming'[p] = incoming[p]
      BY <1>0, <2>2 DEF LoopInv, Served, ServedAt
    <3> QED BY <1>0, <3>1, ServedKept
  <2>5. Repaired'
    BY <1>0, <2>2 DEF LoopInv, Repaired
  <2>6. AllDrained'
    BY <1>0, <1>4 DEF AllDrained
  <2> QED BY <1>0, <1>2, <2>3, <2>4, <2>5, <2>6 DEF LoopInv
<1> QED BY <1>3, <1>4 DEF SeedAdrp

LEMMA LoopInit ==
  ASSUME Init
  PROVE  LoopInv
<1>1. AdrpInv
  BY InitInv
<1>2. \A p \in seen : InWork(p)
  BY DEF Init, InWork
<1>3. \A p \in Pos : ~Drained(p)
  BY <1>2 DEF Drained
<1>4. FlowsOn /\ Served /\ Repaired
  BY <1>3 DEF FlowsOn, Served, Repaired
<1>5. RootsSeen /\ AllDrained /\ Unpatched
  BY DEF Init, RootsSeen, AllDrained, Unpatched
<1> QED BY <1>1, <1>4, <1>5 DEF LoopInv

LEMMA LoopNext ==
  ASSUME LoopInv, [Next]_vars
  PROVE  LoopInv'
<1>1. CASE UNCHANGED vars
  <2>1. AdrpInv'
    BY NextInv DEF LoopInv
  <2>2. FlowsOn'
    BY <1>1 DEF vars, LoopInv, FlowsOn, FlowsTo, Transfer, Drained, InWork, Pos
  <2>3. Served' /\ Repaired'
    BY <1>1 DEF vars, LoopInv, Served, ServedAt, Repaired, Drained, InWork, Pos
  <2>4. RootsSeen' /\ AllDrained' /\ Unpatched'
    BY <1>1 DEF vars, LoopInv, RootsSeen, AllDrained, Unpatched, Unreached, Pos
  <2> QED BY <2>1, <2>2, <2>3, <2>4 DEF LoopInv
<1> QED BY <1>1, TurnSeed, TurnAdrp, TurnUse, TurnOther DEF Next, Stopped

-----------------------------------------------------------------------------
\* What the processor holds, by induction over its ways.
LEMMA RealSame ==
  ASSUME UNCHANGED prog
  PROVE  RealDefs' = RealDefs
<1>1. RealWithin' = RealWithin
  BY DEF RealWithin, RealStart, RealStep, RealNext, RealAfter, Pos, RealSuccessors, Settled, Eager
<1> QED BY <1>1 DEF RealDefs, RealBound, RealStep, RealNext, RealAfter, Pos, RealSuccessors

LEMMA ValueIs ==
  ASSUME WellFormed(prog), NEW p, NEW r, NEW v
  PROVE  v \in Values(RealDefs, p, r) <=> <<p, r, v>> \in RealDefs
<1>1. \A d \in RealDefs : d = <<d[1], d[2], d[3]>>
  BY RealIs DEF Ways
<1> QED BY <1>1 DEF Values

\* What a register holds flows on.
LEMMA ValueFlows ==
  ASSUME WellFormed(prog), NEW p \in Pos, NEW r, NEW v \in Values(RealDefs, p, r),
         NEW q \in RealSuccessors(prog.ins[p], p) \cap Pos
  PROVE  RealAfter(prog.ins[p], p, r, v) \in Values(RealDefs, q, r)
<1>1. <<p, r, v>> \in RealDefs
  BY ValueIs
<1>2. RealNext(p, r, v) \subseteq RealDefs
  BY <1>1, RealIs
<1>3. <<q, r, RealAfter(prog.ins[p], p, r, v)>> \in RealNext(p, r, v)
  BY DEF RealNext
<1> QED BY <1>2, <1>3, ValueIs

\* Induction over the ways: what holds at the starts and goes on from a position
\* to its successors holds wherever the processor comes.
LEMMA WaysInduct ==
  ASSUME WellFormed(prog), NEW Q \in SUBSET Ways,
         \A i \in DOMAIN prog.starts : \A r \in Regs \cup {Way} : <<prog.starts[i], r, Other>> \in Q,
         \A p \in Pos : \A r \in Regs \cup {Way} : \A v \in Pos \cup {Other, Lost} :
           <<p, r, v>> \in Q /\ <<p, r, v>> \in RealDefs =>
             \A q \in RealSuccessors(prog.ins[p], p) \cap Pos :
               <<q, r, RealAfter(prog.ins[p], p, r, v)>> \in Q
  PROVE  \A p \in Pos : \A r \in Regs \cup {Way} : \A v \in Values(RealDefs, p, r) : <<p, r, v>> \in Q
<1>1. RealStart \subseteq Q
  BY DEF RealStart
<1>2. ASSUME NEW d \in RealDefs \cap Q
      PROVE  RealNext(d[1], d[2], d[3]) \subseteq Q
  <2>1. /\ d = <<d[1], d[2], d[3]>> /\ d[1] \in Pos /\ d[2] \in Regs \cup {Way}
        /\ d[3] \in Pos \cup {Other, Lost}
    BY DEF Ways
  <2> QED BY <2>1 DEF RealNext
<1>3. RealDefs \subseteq Q
  BY <1>1, <1>2, RealIs
<1> QED BY <1>3, ValueIs

\* A value that is a position is an ADRP of that register.
LEMMA ValueKind ==
  ASSUME WellFormed(prog), NEW p \in Pos, NEW r \in Regs, NEW v \in Values(RealDefs, p, r)
  PROVE  \/ v \in {Other, Lost}
         \/ v >= 0 /\ v \in Pos /\ prog.ins[v].k = "adrp" /\ prog.ins[v].rd = r
<1> DEFINE Good(w, x) == x \in {Other, Lost} \/ (prog.ins[x].k = "adrp" /\ prog.ins[x].rd = w)
           Q == {d \in Ways : Good(d[2], d[3])}
<1>1. \A i \in DOMAIN prog.starts : \A w \in Regs \cup {Way} : <<prog.starts[i], w, Other>> \in Q
  BY DEF Ways, WellFormed, Pos
<1>2. ASSUME NEW q \in Pos, NEW w \in Regs \cup {Way}, NEW x \in Pos \cup {Other, Lost},
             <<q, w, x>> \in Q, NEW s \in RealSuccessors(prog.ins[q], q) \cap Pos
      PROVE  <<s, w, RealAfter(prog.ins[q], q, w, x)>> \in Q
  <2>1. Good(w, x)
    BY <1>2
  <2>2. RealAfter(prog.ins[q], q, w, x) \in Pos \cup {Other, Lost}
    BY DEF RealAfter
  <2>3. Good(w, RealAfter(prog.ins[q], q, w, x))
    BY <2>1 DEF RealAfter
  <2> QED BY <2>2, <2>3 DEF Ways
<1>3. <<p, r, v>> \in Q
  <2> HIDE DEF Q
  <2>1. Q \in SUBSET Ways
    BY DEF Q
  <2> QED BY <1>1, <1>2, <2>1, WaysInduct
<1>4. v \in Pos \cup {Other, Lost} /\ Good(r, v)
  BY <1>3 DEF Ways
<1> QED BY <1>4 DEF WellFormed, Pos

\* Where the processor comes, every register holds something.
LEMMA AllHeld ==
  ASSUME WellFormed(prog), NEW p \in Pos, Values(RealDefs, p, Way) # {}, NEW r \in Regs
  PROVE  Values(RealDefs, p, r) # {}
<1> DEFINE Q == {d \in Ways : \A w \in Regs \cup {Way} : Values(RealDefs, d[1], w) # {}}
<1>1. \A i \in DOMAIN prog.starts : \A w \in Regs \cup {Way} : <<prog.starts[i], w, Other>> \in Q
  <2> TAKE i \in DOMAIN prog.starts
  <2>1. prog.starts[i] \in Pos
    BY DEF WellFormed, Pos
  <2>2. \A w \in Regs \cup {Way} : <<prog.starts[i], w, Other>> \in RealDefs
    BY RealIs DEF RealStart
  <2>3. \A w \in Regs \cup {Way} : Values(RealDefs, prog.starts[i], w) # {}
    BY <2>2, ValueIs
  <2> QED BY <2>1, <2>3 DEF Ways
<1>2. ASSUME NEW q \in Pos, NEW w \in Regs \cup {Way}, NEW x \in Pos \cup {Other, Lost},
             <<q, w, x>> \in Q, NEW s \in RealSuccessors(prog.ins[q], q) \cap Pos
      PROVE  <<s, w, RealAfter(prog.ins[q], q, w, x)>> \in Q
  <2>1. \A z \in Regs \cup {Way} : Values(RealDefs, q, z) # {}
    BY <1>2
  <2>2. \A z \in Regs \cup {Way} : Values(RealDefs, s, z) # {}
    BY <2>1, ValueFlows
  <2>3. RealAfter(prog.ins[q], q, w, x) \in Pos \cup {Other, Lost}
    BY DEF RealAfter
  <2> QED BY <2>2, <2>3 DEF Ways
<1>3. PICK v \in Values(RealDefs, p, Way) : TRUE
  OBVIOUS
<1>4. <<p, Way, v>> \in Q
  <2> HIDE DEF Q
  <2>1. Q \in SUBSET Ways
    BY DEF Q
  <2> QED BY <1>1, <1>2, <1>3, <2>1, WaysInduct
<1> QED BY <1>4

LEMMA FlowsReal ==
  ASSUME NEW p \in Pos
  PROVE  /\ FlowsTo(p) \subseteq RealSuccessors(prog.ins[p], p) \cap Pos
         /\ prog.ins[p].k # "br" => FlowsTo(p) = RealSuccessors(prog.ins[p], p) \cap Pos
         /\ prog.ins[p].k = "br" => FlowsTo(p) = {}
<1> DEFINE i == prog.ins[p]
           s == Successors(i, p)
<1>1. CASE i.k \in {"ret", "br"}
  <2>1. s = <<>>
    BY <1>1 DEF Successors
  <2> QED BY <1>1, <2>1 DEF FlowsTo, RealSuccessors
<1>2. CASE i.k = "b"
  <2>1. s = <<i.to>>
    BY <1>2 DEF Successors, BranchTarget
  <2>2. {s[j] : j \in DOMAIN s} = {i.to}
    BY <2>1
  <2> QED BY <1>2, <2>2 DEF FlowsTo, RealSuccessors
<1>3. CASE i.k \in {"cb", "tb"}
  <2>1. (s = <<p + 1>> /\ i.to = p + 1) \/ s = <<p + 1, i.to>>
    BY <1>3 DEF Successors, BranchTarget
  <2>2. {s[j] : j \in DOMAIN s} = {p + 1, i.to}
    BY <2>1
  <2> QED BY <1>3, <2>2 DEF FlowsTo, RealSuccessors
<1>4. CASE i.k \notin {"ret", "br", "b", "cb", "tb"}
  <2>1. s = <<p + 1>>
    BY <1>4 DEF Successors
  <2>2. {s[j] : j \in DOMAIN s} = {p + 1}
    BY <2>1
  <2> QED BY <1>4, <2>2 DEF FlowsTo, RealSuccessors
<1> QED BY <1>1, <1>2, <1>3, <1>4

\* When the work list is empty, the analysis has been wherever the processor
\* comes from a function start without an indirect branch,
LEMMA DirectSeen ==
  ASSUME LoopInv, work = <<>>, NEW p \in Pos, Other \in Values(RealDefs, p, Way)
  PROVE  p \in seen
<1> DEFINE Q == {d \in Ways : d[2] = Way /\ d[3] = Other => d[1] \in seen}
<1>0. WellFormed(prog) /\ \A q \in seen : Drained(q)
  BY DEF LoopInv, AdrpInv, AdrpTypeOK, Drained, InWork
<1>1. \A i \in DOMAIN prog.starts : \A w \in Regs \cup {Way} : <<prog.starts[i], w, Other>> \in Q
  BY <1>0 DEF Ways, WellFormed, Pos, LoopInv, RootsSeen
<1>2. ASSUME NEW q \in Pos, NEW w \in Regs \cup {Way}, NEW x \in Pos \cup {Other, Lost},
             <<q, w, x>> \in Q, NEW s \in RealSuccessors(prog.ins[q], q) \cap Pos
      PROVE  <<s, w, RealAfter(prog.ins[q], q, w, x)>> \in Q
  <2>1. RealAfter(prog.ins[q], q, w, x) \in Pos \cup {Other, Lost}
    BY DEF RealAfter
  <2>2. SUFFICES ASSUME w = Way, RealAfter(prog.ins[q], q, w, x) = Other
                 PROVE  s \in seen
    BY <2>1 DEF Ways
  <2>3. Other \notin Pos /\ Other # Lost
    BY <1>0 DEF WellFormed, Pos, Other, Lost
  <2>4. prog.ins[q].k # "br"
    BY <2>2, <2>3 DEF RealAfter
  <2>5. x = Other
    BY <1>0, <2>2, <2>3, <2>4, WayAssumption, AdrpAssumption DEF RealAfter, WellFormed, Pos
  <2>6. q \in seen
    BY <1>2, <2>2, <2>5
  <2>7. s \in FlowsTo(q)
    BY <2>4, FlowsReal
  <2> QED BY <1>0, <2>6, <2>7 DEF LoopInv, FlowsOn
<1>3. <<p, Way, Other>> \in Q
  <2> HIDE DEF Q
  <2>1. Q \in SUBSET Ways
    BY DEF Q
  <2> QED BY <1>0, <1>1, <1>2, <2>1, WaysInduct
<1> QED BY <1>3

\* and wherever a page that waits can be carried from an ADRP it has met; and if
\* it knows anything of the register there, it knows of that ADRP.
LEMMA CarriedSeen ==
  ASSUME LoopInv, work = <<>>, NEW p \in Pos, NEW r \in Regs, NEW v \in Values(RealDefs, p, r),
         v >= 0, v \in seen, ~Settled(prog.ins[v].page)
  PROVE  p \in seen /\ (incoming[p][r].defs = {} \/ v \in incoming[p][r].defs)
<1> DEFINE Has(q, w, x) == q \in seen /\ (incoming[q][w].defs = {} \/ x \in incoming[q][w].defs)
           Q == {d \in Ways : d[2] \in Regs /\ d[3] \in seen /\ ~Settled(prog.ins[d[3]].page)
                                => Has(d[1], d[2], d[3])}
<1>0. WellFormed(prog) /\ (\A q \in seen : Drained(q)) /\ seen \subseteq Pos
  BY DEF LoopInv, AdrpInv, AdrpTypeOK, Drained, InWork
<1>01. Other \notin seen /\ Lost \notin seen /\ \A q \in seen : q >= 0
  BY <1>0 DEF WellFormed, Pos, Other, Lost
<1>1. \A i \in DOMAIN prog.starts : \A w \in Regs \cup {Way} : <<prog.starts[i], w, Other>> \in Q
  BY <1>0, <1>01 DEF Ways, WellFormed, Pos
<1>2. ASSUME NEW q \in Pos, NEW w \in Regs \cup {Way}, NEW x \in Pos \cup {Other, Lost},
             <<q, w, x>> \in Q, NEW s \in RealSuccessors(prog.ins[q], q) \cap Pos
      PROVE  <<s, w, RealAfter(prog.ins[q], q, w, x)>> \in Q
  <2> DEFINE y == RealAfter(prog.ins[q], q, w, x)
  <2>1. y \in Pos \cup {Other, Lost}
    BY DEF RealAfter
  <2>2. SUFFICES ASSUME w \in Regs, y \in seen, ~Settled(prog.ins[y].page)
                 PROVE  Has(s, w, y)
    BY <2>1 DEF Ways
  <2>3. CASE prog.ins[q].k = "adrp" /\ w = prog.ins[q].rd
    <3>1. y = q /\ q \in seen
      BY <2>2, <2>3 DEF RealAfter
    <3>2. s \in FlowsTo(q)
      BY <2>3, FlowsReal
    <3>3. s \in seen /\ Below(incoming[s], Transfer(q))
      BY <1>0, <3>1, <3>2 DEF LoopInv, FlowsOn
    <3>4. Transfer(q)[w].defs = {q}
      <4>1. GoodState(incoming[q])
        BY DEF LoopInv, AdrpInv, AdrpTypeOK
      <4> QED BY <2>2, <2>3, <4>1 DEF Transfer, GoodState
    <3> QED BY <2>2, <3>1, <3>3, <3>4 DEF Below
  <2>4. CASE ~(prog.ins[q].k = "adrp" /\ w = prog.ins[q].rd)
    <3>1. y # Other /\ y # Lost
      BY <1>01, <2>2
    <3>2. y = x
      BY <2>4, <3>1 DEF RealAfter
    <3>3. prog.ins[q].k # "br"
      BY <1>01, <2>2, <3>1, <3>2 DEF RealAfter
    <3>4. Has(q, w, x)
      BY <1>2, <2>2, <3>2
    <3>5. s \in FlowsTo(q)
      BY <3>3, FlowsReal
    <3>6. s \in seen /\ Below(incoming[s], Transfer(q))
      BY <1>0, <3>4, <3>5 DEF LoopInv, FlowsOn
    <3>7. Transfer(q)[w] = incoming[q][w] \/ Transfer(q)[w].defs = {}
      <4>1. GoodState(incoming[q])
        BY DEF LoopInv, AdrpInv, AdrpTypeOK
      <4> QED BY <2>2, <2>4, <4>1 DEF Transfer, Forget, GoodState, NoDef
    <3>8. incoming[s][w].defs = {} \/ x \in incoming[s][w].defs
      BY <2>2, <3>4, <3>6, <3>7 DEF Below
    <3> QED BY <3>2, <3>6, <3>8
  <2> QED BY <2>3, <2>4
<1>3. <<p, r, v>> \in Q
  <2> HIDE DEF Q
  <2>1. Q \in SUBSET Ways
    BY DEF Q
  <2> QED BY <1>0, <1>1, <1>2, <2>1, WaysInduct
<1> QED BY <1>3

\* What the analysis knows behind an instruction, and what the processor holds.
LEMMA TransferReal ==
  ASSUME AdrpTypeOK, NEW p \in seen, NEW q \in FlowsTo(p), NEW r \in Regs,
         Values(RealDefs, p, r) # {}, incoming[p][r].defs \subseteq Values(RealDefs, p, r),
         Waits(RealDefs, p, r) => incoming[p][r].defs # {}
  PROVE  /\ Values(RealDefs, q, r) # {}
         /\ Transfer(p)[r].defs \subseteq Values(RealDefs, q, r)
         /\ Waits(RealDefs, q, r) => Transfer(p)[r].defs # {}
<1> DEFINE i == prog.ins[p]
           held == Values(RealDefs, p, r)
           next == Values(RealDefs, q, r)
<1>0. WellFormed(prog) /\ p \in Pos /\ q \in Pos /\ GoodState(incoming[p])
  BY DEF AdrpTypeOK, FlowsTo
<1>1. q \in RealSuccessors(i, p) \cap Pos /\ i.k # "br"
  BY <1>0, FlowsReal
<1>2. \A v \in held : RealAfter(i, p, r, v) \in next
  BY <1>0, <1>1, ValueFlows
<1>3. PICK v \in held : TRUE
  OBVIOUS
<1>4. CASE i.k = "adrp" /\ r = i.rd
  <2>1. p \in next
    BY <1>2, <1>3, <1>4 DEF RealAfter
  <2>2. Transfer(p)[r].defs = {p}
    BY <1>0, <1>4 DEF Transfer, GoodState
  <2> QED BY <2>1, <2>2
<1>5. CASE \/ i.k = "call" /\ r \in CallerSaved
           \/ i.k \in {"use", "write"} /\ r \in i.writes
  <2>1. Other \in next
    BY <1>2, <1>3, <1>5 DEF RealAfter
  <2>2. Transfer(p)[r].defs = {}
    BY <1>0, <1>5 DEF Transfer, Forget, Clobbers, NoDef
  <2>3. ~Waits(RealDefs, q, r)
    BY <2>1 DEF Waits, Other
  <2> QED BY <2>1, <2>2, <2>3
<1>6. CASE /\ ~(i.k = "adrp" /\ r = i.rd) /\ ~(i.k = "call" /\ r \in CallerSaved)
           /\ ~(i.k \in {"use", "write"} /\ r \in i.writes)
  <2>1. held \subseteq next
    BY <1>1, <1>2, <1>6 DEF RealAfter
  <2>2. Transfer(p)[r] = incoming[p][r]
    BY <1>0, <1>6 DEF Transfer, Forget, Clobbers, GoodState
  <2>3. Waits(RealDefs, q, r) => Waits(RealDefs, p, r)
    BY <1>3, <2>1 DEF Waits
  <2> QED BY <1>3, <2>1, <2>2, <2>3
<1> QED BY <1>4, <1>5, <1>6

LEMMA TransferGood ==
  ASSUME AdrpTypeOK, NEW p \in Pos
  PROVE  GoodState(Transfer(p))
<1>1. GoodState(incoming[p]) /\ (prog.ins[p].k = "adrp" => prog.ins[p].rd \in Regs)
  BY DEF AdrpTypeOK, WellFormed, Pos
<1>2. CASE prog.ins[p].k = "adrp"
  BY <1>1, <1>2 DEF Transfer, GoodState
<1>3. CASE prog.ins[p].k # "adrp"
  BY <1>1, <1>3, ForgetGood DEF Transfer
<1> QED BY <1>2, <1>3

-----------------------------------------------------------------------------
\* A turn of the loop keeps the analysis in step with the processor.
LEMMA FlowMatch ==
  ASSUME LoopInv, work # <<>>, Flow(Successors(Ins, At), Transfer(At)), UNCHANGED prog,
         Met(RealDefs), Known(RealDefs), Remembered(RealDefs), NEW r \in Regs
  PROVE  /\ \A p \in seen' : Values(RealDefs, p, r) # {}
         /\ \A p \in Pos : incoming'[p][r].defs \subseteq Values(RealDefs, p, r)
         /\ \A p \in seen' : Waits(RealDefs, p, r) => incoming'[p][r].defs # {}
<1> DEFINE state == Transfer(At)
           next(p) == Values(RealDefs, p, r)
<1>0. AdrpTypeOK /\ FlowsOn /\ At \in seen /\ At \in Pos /\ seen \subseteq Pos
  BY AtSeen DEF LoopInv, AdrpInv, AdrpTypeOK
<1>1. /\ seen' = seen \cup FlowsTo(At)
      /\ \A p \in Pos : incoming'[p] = IF p \in FlowsTo(At) THEN Joined(p, state) ELSE incoming[p]
  BY <1>0, FlowKeepsOn
<1>2. \A q \in FlowsTo(At) : /\ next(q) # {} /\ state[r].defs \subseteq next(q)
                             /\ Waits(RealDefs, q, r) => state[r].defs # {}
  BY <1>0, TransferReal DEF Met, Known, Remembered
<1>3. GoodState(state) /\ \A p \in Pos : GoodState(incoming[p])
  BY <1>0, TransferGood DEF AdrpTypeOK
<1>4. \A p \in Pos : incoming[p][r].defs \subseteq next(p)
  BY DEF Known
<1>5. \A p \in seen : next(p) # {} /\ (Waits(RealDefs, p, r) => incoming[p][r].defs # {})
  BY DEF Met, Remembered
<1> HIDE DEF state, next
<1>6. ASSUME NEW q \in Pos, q \in FlowsTo(At)
      PROVE  /\ Joined(q, state)[r].defs \subseteq next(q)
             /\ Waits(RealDefs, q, r) => Joined(q, state)[r].defs # {}
  <2>1. CASE q \notin seen
    BY <1>2, <1>6, <2>1 DEF Joined
  <2>2. CASE q \in seen
    <3>1. Joined(q, state) = Merge(incoming[q], state)
      BY <2>2 DEF Joined
    <3>2. Merge(incoming[q], state)[r].defs \subseteq next(q)
      BY <1>2, <1>4, <1>6 DEF Merge, NoDef
    <3>3. ASSUME Waits(RealDefs, q, r)
          PROVE  Merge(incoming[q], state)[r].defs # {}
      <4>1. PICK d \in incoming[q][r].defs : TRUE
        BY <1>5, <2>2, <3>3
      <4>2. PICK e \in state[r].defs : TRUE
        BY <1>2, <1>6, <3>3
      <4>3. d \in next(q) /\ e \in next(q)
        BY <1>2, <1>4, <1>6
      <4>4. prog.ins[d].page = prog.ins[e].page
        BY <3>3, <4>3 DEF Waits, next
      <4>5. incoming[q][r].page = prog.ins[d].page /\ state[r].page = prog.ins[e].page
        BY <1>3 DEF GoodState
      <4> QED BY <4>1, <4>2, <4>4, <4>5 DEF Merge
    <3> QED BY <3>1, <3>2, <3>3
  <2> QED BY <2>1, <2>2
<1>7. FlowsTo(At) \subseteq Pos
  BY DEF FlowsTo
<1>8. \A p \in Pos : incoming'[p][r].defs \subseteq next(p)
  BY <1>1, <1>4, <1>6
<1>9. \A p \in seen' : /\ next(p) # {}
                       /\ Waits(RealDefs, p, r) => incoming'[p][r].defs # {}
  BY <1>0, <1>1, <1>2, <1>5, <1>6, <1>7
<1> QED BY <1>8, <1>9 DEF next

\* A seed is met by the processor, which holds no page there that waits.
LEMMA SeedMatch ==
  ASSUME LoopInv, work = <<>>, Compiled(RealDefs), Upwards(RealDefs), NEW s \in Unreached,
         \A q \in Unreached : s <= q, NEW r \in Regs
  PROVE  Values(RealDefs, s, r) # {} /\ ~Waits(RealDefs, s, r)
<1>0. WellFormed(prog) /\ s \in Pos /\ s \notin seen /\ prog.ins[s].k = "adrp"
  BY DEF LoopInv, AdrpInv, AdrpTypeOK, Unreached
<1>1. Values(RealDefs, s, r) # {}
  BY <1>0, AllHeld DEF Compiled
<1>2. ASSUME Waits(RealDefs, s, r) PROVE FALSE
  <2>1. Other \notin Values(RealDefs, s, Way)
    BY <1>0, DirectSeen
  <2>2. PICK d \in Values(RealDefs, s, r) : d < s
    BY <1>0, <1>2, <2>1 DEF Upwards
  <2>3. d >= 0 /\ ~Settled(prog.ins[d].page)
    BY <1>2 DEF Waits
  <2>4. d \in Pos /\ prog.ins[d].k = "adrp"
    BY <1>0, <2>3, ValueKind DEF Other, Lost
  <2>5. d \in seen
    <3>1. d \in Nat /\ s \in Nat
      BY <1>0, <2>4 DEF WellFormed, Pos
    <3> QED BY <2>2, <2>4, <3>1 DEF Unreached
  <2>6. s \in seen
    BY <1>0, <2>3, <2>5, CarriedSeen
  <2> QED BY <1>0, <2>6
<1> QED BY <1>1, <1>2

\* A quotient and a remainder are found again.
LEMMA DivMod ==
  ASSUME NEW S \in Nat \ {0}, NEW k \in Int, NEW n \in 0 .. S - 1
  PROVE  (S * k + n) % S = n /\ (S * k + n) \div S = k
<1> DEFINE a == S * k + n
           x == a \div S
           y == a % S
<1>1. a \in Int
  OBVIOUS
<1>2. a = S * x + y /\ x \in Int /\ y \in 0 .. S - 1
  BY <1>1
<1> HIDE DEF x, y
<1>3. S * (k - x) = y - n
  BY <1>2
<1>4. k - x = 0
  <2>1. CASE k - x >= 1
    <3>1. S * (k - x) >= S
      BY <1>2, <2>1
    <3> QED BY <1>2, <1>3, <3>1
  <2>2. CASE k - x <= -1
    <3>1. S * (k - x) <= -S
      BY <1>2, <2>2
    <3> QED BY <1>2, <1>3, <3>1
  <2> QED BY <1>2, <2>1, <2>2
<1>5. y = n /\ x = k
  BY <1>2, <1>3, <1>4
<1> QED BY <1>5 DEF x, y

\* The page and the low bits of an address.
LEMMA PageFacts ==
  /\ \A a \in Int : PageOf(a) \in Int /\ PageOf(a) <= a /\ a < PageOf(a) + PageSize
                    /\ PageOf(a) % PageSize = 0 /\ a - PageOf(a) \in 0 .. PageSize - 1
  /\ \A a \in Int : \A n \in 0 .. PageSize - 1 : a % PageSize = 0 => PageOf(a + n) = a
  /\ \A a, b \in Int : a % PageSize = 0 /\ b % PageSize = 0 => (a + b) % PageSize = 0
  /\ \A a, b \in Int : b % PageSize = 0 => PageOf(a + b) = PageOf(a) + b
  /\ \A a \in Int : a % PageSize = 0 => PageOf(a) = a
<1> DEFINE S == PageSize
<1>1. S \in Nat \ {0}
  BY AdrpAssumption
<1> HIDE DEF S
<1>2. \A a \in Int : a = S * (a \div S) + (a % S) /\ a \div S \in Int /\ a % S \in 0 .. S - 1
  BY <1>1
<1>3. \A k \in Int : \A n \in 0 .. S - 1 : (S * k + n) % S = n
  BY <1>1, DivMod
<1>4. ASSUME NEW a \in Int, a % S = 0 PROVE \E k \in Int : a = S * k
  <2> DEFINE x == a \div S
  <2>1. a = S * x + 0 /\ x \in Int
    BY <1>2, <1>4
  <2> HIDE DEF x
  <2>2. a = S * x
    BY <1>1, <2>1
  <2> QED BY <2>1, <2>2
<1>5. \A a \in Int : \A n \in 0 .. S - 1 : a % S = 0 => (a + n) % S = n
  BY <1>3, <1>4
<1>6. ASSUME NEW a \in Int, NEW b \in Int, b % S = 0 PROVE (a + b) % S = a % S
  <2>1. PICK k \in Int : b = S * k
    BY <1>4, <1>6
  <2> DEFINE x == a \div S
             y == a % S
  <2>2. a = S * x + y /\ x \in Int /\ y \in 0 .. S - 1
    BY <1>2
  <2> HIDE DEF x, y
  <2>3. a + b = S * (x + k) + y /\ x + k \in Int
    BY <1>1, <2>1, <2>2
  <2>4. (a + b) % S = y
    BY <1>3, <2>2, <2>3
  <2> QED BY <2>4 DEF y
<1>7. \A a \in Int : PageOf(a) = a - (a % S)
  BY DEF PageOf, S
<1>8. \A a \in Int : (a - (a % S)) % S = 0
  <2> TAKE a \in Int
  <2> DEFINE x == a \div S
             y == a % S
  <2>1. a = S * x + y /\ x \in Int /\ y \in 0 .. S - 1
    BY <1>2
  <2> HIDE DEF x, y
  <2>2. a - y = S * x + 0 /\ 0 \in 0 .. S - 1
    BY <1>1, <2>1
  <2>3. (a - y) % S = 0
    BY <1>3, <2>1, <2>2
  <2> QED BY <2>3 DEF y
<1>9. \A a \in Int : PageOf(a) \in Int /\ PageOf(a) <= a /\ a < PageOf(a) + S
                     /\ PageOf(a) % S = 0 /\ a - PageOf(a) \in 0 .. S - 1
  <2> TAKE a \in Int
  <2> DEFINE y == a % S
  <2>1. y \in 0 .. S - 1 /\ PageOf(a) = a - y /\ (a - y) % S = 0
    BY <1>2, <1>7, <1>8
  <2> HIDE DEF y
  <2> QED BY <1>1, <2>1
<1>10. \A a \in Int : \A n \in 0 .. S - 1 : a % S = 0 => PageOf(a + n) = a
  <2> TAKE a \in Int
  <2> TAKE n \in 0 .. S - 1
  <2> HAVE a % S = 0
  <2>1. n \in Int /\ a + n \in Int /\ (a + n) - n = a
    BY <1>1
  <2>2. PageOf(a + n) = (a + n) - n
    BY <1>5, <1>7, <2>1
  <2> QED BY <2>1, <2>2
<1>11. \A a, b \in Int : b % S = 0 => PageOf(a + b) = PageOf(a) + b
  <2> TAKE a, b \in Int
  <2> HAVE b % S = 0
  <2>1. PageOf(a + b) = (a + b) - ((a + b) % S) /\ PageOf(a) = a - (a % S) /\ a % S \in Int
    BY <1>2, <1>7
  <2> QED BY <1>6, <2>1
<1>12. \A a \in Int : a % S = 0 => PageOf(a) = a
  BY <1>7
<1> QED BY <1>6, <1>9, <1>10, <1>11, <1>12 DEF S

LEMMA WholePages ==
  ASSUME NEW a \in Int, a % PageSize = 0
  PROVE  \E k \in Int : a = PageSize * k
<1> DEFINE S == PageSize
           x == a \div S
<1>1. S \in Nat \ {0}
  BY AdrpAssumption
<1> HIDE DEF S
<1>2. a = S * x + (a % S) /\ x \in Int
  BY <1>1
<1>3. a = S * x + 0
  BY <1>2 DEF S
<1> HIDE DEF x
<1>4. a = S * x
  BY <1>1, <1>2, <1>3
<1> QED BY <1>2, <1>4 DEF S

LEMMA LowBits ==
  ASSUME NEW a \in Int, a % PageSize = 0, NEW n \in 0 .. PageSize - 1
  PROVE  a + n \in Int /\ PageOf(a + n) = a
<1>1. PageSize \in Nat
  BY AdrpAssumption
<1>2. PageOf(a + n) = a
  BY PageFacts
<1> QED BY <1>1, <1>2

\* The processor's ways are those of the code, which stays.
LEMMA SameCode ==
  ASSUME UNCHANGED prog
  PROVE  /\ Pos' = Pos /\ RealDefs' = RealDefs
         /\ Compiled(RealDefs)' <=> Compiled(RealDefs)
         /\ Upwards(RealDefs)' <=> Upwards(RealDefs)
         /\ \A p, r : Waits(RealDefs, p, r)' <=> Waits(RealDefs, p, r)
<1>1. Pos' = Pos /\ RealDefs' = RealDefs
  BY RealSame DEF Pos
<1>2. \A p, r : Values(RealDefs, p, r)' = Values(RealDefs, p, r)
  BY <1>1 DEF Values
<1>3. \A p, r : Waits(RealDefs, p, r)' <=> Waits(RealDefs, p, r)
  BY <1>2 DEF Waits, Settled, Eager
<1>4. Compiled(RealDefs)' <=> Compiled(RealDefs)
  BY <1>1, <1>2 DEF Compiled
<1>5. Upwards(RealDefs)' <=> Upwards(RealDefs)
  BY <1>1, <1>2, <1>3 DEF Upwards
<1> QED BY <1>1, <1>3, <1>4, <1>5

LEMMA RealInit ==
  ASSUME Init
  PROVE  RealInv
<1>1. WellFormed(prog)
  BY LoopInit DEF LoopInv, AdrpInv, AdrpTypeOK
<1>2. \A p \in seen : \A r \in Regs : Other \in Values(RealDefs, p, r)
  <2> SUFFICES ASSUME NEW i \in DOMAIN prog.starts, NEW r \in Regs
               PROVE  Other \in Values(RealDefs, prog.starts[i], r)
    BY DEF Init
  <2>1. <<prog.starts[i], r, Other>> \in RealStart
    BY DEF RealStart
  <2>2. <<prog.starts[i], r, Other>> \in RealDefs
    BY <1>1, <2>1, RealIs
  <2> QED BY <1>1, <2>2, ValueIs
<1>3. Met(RealDefs)
  BY <1>2 DEF Met
<1>4. Remembered(RealDefs)
  BY <1>2 DEF Remembered, Waits, Other
<1>5. Known(RealDefs)
  BY DEF Known, Init, Unknown, NoDef
<1>6. Caused
  BY DEF Caused, Init, NoPage
<1>7. Meant(RealDefs)
  BY DEF Meant, Init
<1> QED BY <1>3, <1>4, <1>5, <1>6, <1>7 DEF RealInv

\* A turn of the loop, whatever it patches.
LEMMA RealTurn ==
  ASSUME LoopInv, work # <<>>, Flow(Successors(Ins, At), Transfer(At)), UNCHANGED prog, RealInv,
         Compiled(RealDefs) /\ Upwards(RealDefs) => Caused' /\ Meant(RealDefs)'
  PROVE  RealInv'
<1> SUFFICES ASSUME Compiled(RealDefs)', Upwards(RealDefs)'
             PROVE  Met(RealDefs)' /\ Known(RealDefs)' /\ Remembered(RealDefs)'
                    /\ Caused' /\ Meant(RealDefs)'
  BY DEF RealInv
<1>1. Compiled(RealDefs) /\ Upwards(RealDefs)
  BY SameCode
<1>2. Met(RealDefs) /\ Known(RealDefs) /\ Remembered(RealDefs)
  BY <1>1 DEF RealInv
<1>3. \A r \in Regs :
        /\ \A p \in seen' : Values(RealDefs, p, r) # {}
        /\ \A p \in Pos : incoming'[p][r].defs \subseteq Values(RealDefs, p, r)
        /\ \A p \in seen' : Waits(RealDefs, p, r) => incoming'[p][r].defs # {}
  BY <1>2, FlowMatch
<1>4. /\ Pos' = Pos /\ \A p, r : Values(RealDefs, p, r)' = Values(RealDefs, p, r)
      /\ \A p, r : Waits(RealDefs, p, r)' <=> Waits(RealDefs, p, r)
  BY SameCode DEF Values
<1>5. Met(RealDefs)'
  BY <1>3, <1>4 DEF Met
<1>6. Known(RealDefs)'
  BY <1>3, <1>4 DEF Known
<1>7. Remembered(RealDefs)'
  BY <1>3, <1>4 DEF Remembered
<1> QED BY <1>1, <1>5, <1>6, <1>7

\* What was meant and caused stays so while nothing else is patched.
LEMMA MeantKept ==
  ASSUME UNCHANGED <<prog, disp>>, Meant(RealDefs)
  PROVE  Meant(RealDefs)'
<1>1. Pos' = Pos /\ \A p, r : Values(RealDefs, p, r)' = Values(RealDefs, p, r)
  BY SameCode DEF Values
<1> QED BY <1>1 DEF Meant

LEMMA CausedKept ==
  ASSUME UNCHANGED prog, Caused,
         \A p \in Pos : pages'[p].known /\ ~Eager(prog.ins[p].page) => pages[p].known
  PROVE  Caused'
  BY DEF Caused, Pos, Eager

LEMMA RealOther ==
  ASSUME LoopInv, RealInv, StepOther
  PROVE  RealInv'
<1>0. /\ work # <<>> /\ UNCHANGED <<prog, pages, imm, disp, status>>
      /\ Ins.k \notin {"adrp", "use"} /\ Ins = prog.ins[At]
  BY DEF StepOther, Popped, Ins
<1>1. Transfer(At) = Forget(State, Clobbers(Ins))
  BY <1>0 DEF Transfer, State
<1>2. Flow(Successors(Ins, At), Transfer(At))
  BY <1>1 DEF StepOther
<1>3. Compiled(RealDefs) /\ Upwards(RealDefs) => Caused' /\ Meant(RealDefs)'
  BY <1>0, MeantKept, CausedKept DEF RealInv
<1> QED BY <1>0, <1>2, <1>3, RealTurn

LEMMA RealAdrp ==
  ASSUME LoopInv, RealInv, StepAdrp
  PROVE  RealInv'
<1>0. /\ work # <<>> /\ UNCHANGED <<prog, disp>> /\ Ins.k = "adrp" /\ Ins = prog.ins[At] /\ At \in Pos
      /\ DOMAIN pages = Pos
  BY AtSeen DEF LoopInv, AdrpInv, AdrpTypeOK, StepAdrp, Popped, Ins
<1>1. Successors(Ins, At) = <<At + 1>>
  BY <1>0 DEF Successors
<1>2. Transfer(At) = [State EXCEPT ![Ins.rd] = [page |-> Ins.page, defs |-> {At}]]
  BY <1>0 DEF Transfer, State
<1>3. Flow(Successors(Ins, At), Transfer(At))
  BY <1>1, <1>2 DEF StepAdrp
<1>4. \A p \in Pos : pages'[p].known /\ ~Eager(prog.ins[p].page) => pages[p].known
  BY <1>0 DEF StepAdrp
<1>5. Compiled(RealDefs) /\ Upwards(RealDefs) => Caused' /\ Meant(RealDefs)'
  BY <1>0, <1>4, MeantKept, CausedKept DEF RealInv
<1> QED BY <1>0, <1>3, <1>5, RealTurn

LEMMA RealUse ==
  ASSUME LoopInv, RealInv, StepUse
  PROVE  RealInv'
<1> DEFINE value == State[Ins.rn]
           old == value.page + Ins.disp
           page == DesiredPage(value.page, old)
           new == NewTarget(old) - page
<1>0. /\ AdrpTypeOK /\ work # <<>> /\ UNCHANGED prog /\ WellFormed(prog)
      /\ Ins.k = "use" /\ Ins = prog.ins[At] /\ At \in Pos /\ State = incoming[At]
      /\ GoodState(State) /\ Ins.rn \in Regs /\ Ins.disp \in Int /\ DOMAIN disp = Pos
  <2>1. At \in Pos /\ At \in seen /\ GoodState(State)
    BY AtSeen DEF LoopInv, AdrpInv, StepUse, Popped
  <2> QED BY <2>1 DEF LoopInv, AdrpInv, StepUse, Popped, Ins, State, AdrpTypeOK, WellFormed, Pos
<1>1. Successors(Ins, At) = <<At + 1>>
  BY <1>0 DEF Successors
<1>2. Transfer(At) = Forget(State, Ins.writes)
  BY <1>0 DEF Transfer, State
<1>3. Flow(Successors(Ins, At), Transfer(At))
  BY <1>1, <1>2 DEF StepUse
<1>4. ASSUME Compiled(RealDefs), Upwards(RealDefs)
      PROVE  Caused' /\ Meant(RealDefs)'
  <2>0. Caused /\ Meant(RealDefs) /\ Known(RealDefs)
    BY <1>4 DEF RealInv
  <2>1. CASE UNCHANGED <<pages, disp>>
    BY <1>0, <2>0, <2>1, MeantKept, CausedKept
  <2>2. CASE /\ value.defs # {} /\ Redirected(old)
             /\ pages' = [p \in Pos |-> IF p \in value.defs THEN PageAt(page) ELSE pages[p]]
             /\ disp' = [disp EXCEPT ![At] = new]
    <3>1. \A d \in value.defs : /\ d \in Pos /\ prog.ins[d].k = "adrp"
                                /\ prog.ins[d].page = value.page
                                /\ d \in Values(RealDefs, At, Ins.rn)
      BY <1>0, <2>0 DEF GoodState, Known
    <3>2. \A d \in Pos : d >= 0 /\ d # Other
      BY <1>0 DEF WellFormed, Pos, Other
    <3>3. PICK e \in value.defs : TRUE
      BY <2>2
    <3>4. value.page \in Int /\ value.page % PageSize = 0
      BY <1>0, <3>1, <3>3 DEF WellFormed, Pos
    <3>5. Ins.disp \in 0 .. PageSize - 1
      BY <1>0, <1>4, <3>1, <3>2, <3>3 DEF Compiled
    <3>6. old \in Int /\ PageOf(old) = value.page
      BY <3>4, <3>5, LowBits
    <3>7. Caused'
      <4> SUFFICES ASSUME NEW p \in Pos, pages'[p].known, ~Eager(prog.ins[p].page)
                   PROVE  \E t \in Int : Redirected(t) /\ PageOf(t) = prog.ins[p].page
        BY <1>0 DEF Caused, Pos, Eager
      <4>1. CASE p \in value.defs
        BY <2>2, <3>1, <3>6, <4>1
      <4>2. CASE p \notin value.defs
        BY <2>0, <2>2, <4>2 DEF Caused
      <4> QED BY <4>1, <4>2
    <3>8. ASSUME NEW p \in Pos, prog.ins[p].k = "use", disp'[p] # prog.ins[p].disp
          PROVE  \E d \in Values(RealDefs, p, prog.ins[p].rn) :
                   d >= 0 /\ disp'[p] = NewDisp(prog.ins[p], prog.ins[d].page)
      <4>1. CASE p = At
        <5>1. disp'[p] = NewDisp(Ins, value.page)
          BY <1>0, <2>2, <4>1 DEF NewDisp
        <5> QED BY <1>0, <3>1, <3>2, <3>3, <4>1, <5>1
      <4>2. CASE p # At
        BY <1>0, <2>0, <2>2, <3>8, <4>2 DEF Meant
      <4> QED BY <4>1, <4>2
    <3>9. Meant(RealDefs)'
      <4>1. Pos' = Pos /\ \A p, r : Values(RealDefs, p, r)' = Values(RealDefs, p, r)
        BY <1>0, SameCode DEF Values
      <4> QED BY <1>0, <3>8, <4>1 DEF Meant
    <3> QED BY <3>7, <3>9
  <2> QED BY <2>1, <2>2 DEF StepUse
<1> QED BY <1>0, <1>3, <1>4, RealTurn

LEMMA RealSeed ==
  ASSUME LoopInv, RealInv, SeedAdrp
  PROVE  RealInv'
<1>0. UNCHANGED <<prog, pages, disp>> /\ work = <<>> /\ seen \subseteq Pos /\ DOMAIN incoming = Pos
  BY DEF SeedAdrp, LoopInv, AdrpInv, AdrpTypeOK
<1> SUFFICES ASSUME Compiled(RealDefs)', Upwards(RealDefs)'
             PROVE  Met(RealDefs)' /\ Known(RealDefs)' /\ Remembered(RealDefs)'
                    /\ Caused' /\ Meant(RealDefs)'
  BY DEF RealInv
<1>1. Compiled(RealDefs) /\ Upwards(RealDefs)
  BY <1>0, SameCode
<1>2. Met(RealDefs) /\ Known(RealDefs) /\ Remembered(RealDefs) /\ Caused /\ Meant(RealDefs)
  BY <1>1 DEF RealInv
<1>3. Caused' /\ Meant(RealDefs)'
  BY <1>0, <1>2, MeantKept, CausedKept
<1>4. /\ Pos' = Pos /\ \A p, r : Values(RealDefs, p, r)' = Values(RealDefs, p, r)
      /\ \A p, r : Waits(RealDefs, p, r)' <=> Waits(RealDefs, p, r)
  BY <1>0, SameCode DEF Values
<1>5. CASE UNCHANGED <<seen, incoming>>
  BY <1>2, <1>3, <1>4, <1>5 DEF Met, Known, Remembered
<1>6. ASSUME NEW s \in Unreached, \A q \in Unreached : s <= q, seen' = seen \cup {s},
             incoming' = [incoming EXCEPT ![s] = Unknown]
      PROVE  Met(RealDefs)' /\ Known(RealDefs)' /\ Remembered(RealDefs)'
  <2>1. \A r \in Regs : Values(RealDefs, s, r) # {} /\ ~Waits(RealDefs, s, r)
    BY <1>0, <1>1, <1>6, SeedMatch
  <2>2. s \in Pos /\ s \notin seen
    BY DEF Unreached
  <2>3. Met(RealDefs)'
    BY <1>2, <1>4, <1>6, <2>1 DEF Met
  <2>4. \A r \in Regs : incoming'[s][r].defs = {}
    BY <1>0, <1>6, <2>2 DEF Unknown, NoDef
  <2>5. \A p \in Pos : p # s => incoming'[p] = incoming[p]
    BY <1>0, <1>6
  <2>6. Known(RealDefs)'
    <3> SUFFICES ASSUME NEW p \in Pos, NEW r \in Regs
                 PROVE  incoming'[p][r].defs \subseteq Values(RealDefs, p, r)
      BY <1>4 DEF Known
    <3> QED BY <1>2, <2>4, <2>5 DEF Known
  <2>7. Remembered(RealDefs)'
    <3> SUFFICES ASSUME NEW p \in seen', NEW r \in Regs, Waits(RealDefs, p, r)
                 PROVE  incoming'[p][r].defs # {}
      BY <1>4 DEF Remembered
    <3> QED BY <1>0, <1>2, <1>6, <2>1, <2>2, <2>5 DEF Remembered
  <2> QED BY <2>3, <2>6, <2>7
<1> QED BY <1>3, <1>5, <1>6 DEF SeedAdrp

LEMMA RealNextInv ==
  ASSUME LoopInv, RealInv, [Next]_vars
  PROVE  RealInv'
<1>1. CASE UNCHANGED vars
  <2>0. UNCHANGED <<prog, seen, incoming, pages, disp>>
    BY <1>1 DEF vars
  <2>1. /\ Pos' = Pos /\ \A p, r : Values(RealDefs, p, r)' = Values(RealDefs, p, r)
        /\ \A p, r : Waits(RealDefs, p, r)' <=> Waits(RealDefs, p, r)
        /\ Compiled(RealDefs)' <=> Compiled(RealDefs)
        /\ Upwards(RealDefs)' <=> Upwards(RealDefs)
    BY <2>0, SameCode DEF Values
  <2>2. Met(RealDefs) => Met(RealDefs)'
    BY <2>0, <2>1 DEF Met
  <2>3. Known(RealDefs) => Known(RealDefs)'
    BY <2>0, <2>1 DEF Known
  <2>4. Remembered(RealDefs) => Remembered(RealDefs)'
    BY <2>0, <2>1 DEF Remembered
  <2>5. (Caused => Caused') /\ (Meant(RealDefs) => Meant(RealDefs)')
    BY <2>0, MeantKept, CausedKept
  <2> QED BY <2>1, <2>2, <2>3, <2>4, <2>5 DEF RealInv
<1> QED BY <1>1, RealSeed, RealAdrp, RealUse, RealOther DEF Next, Stopped

LEMMA PagesAdd ==
  ASSUME NEW a \in Int, NEW b \in Int, a % PageSize = 0, b % PageSize = 0
  PROVE  a + b \in Int /\ (a + b) % PageSize = 0
<1>1. (a + b) % PageSize = 0
  BY PageFacts
<1> QED BY <1>1

\* An ADRP that was set to a page within its reach names that page.
LEMMA AdrpReaches ==
  ASSUME NEW at \in Int, NEW page \in Int, page % PageSize = 0, NEW n \in 0 .. PageSize - 1,
         InSpan(at, page + n)
  PROVE  AdrpTarget(SetAdrp(at, page), at) = page
<1> DEFINE A == AdrpSpan
           S == PageSize
           from == PageOf(at)
<1>1. S \in Nat \ {0} /\ A \in Nat \ {0}
  BY AdrpAssumption
<1>2. PageOf(page + n) = page /\ PageOf(page) = page
  BY LowBits, PageFacts
<1>3. from \in Int /\ from % S = 0
  BY PageFacts
<1>4. PICK k \in Int : page - from = S * k
  <2>1. PICK x \in Int : page = S * x
    BY <1>1, WholePages
  <2>2. PICK y \in Int : from = S * y
    BY <1>1, <1>3, WholePages
  <2>3. page - from = S * (x - y) /\ x - y \in Int
    BY <1>1, <2>1, <2>2
  <2> QED BY <2>3
<1>5. (page - from) \div S = k
  <2>1. 0 \in 0 .. S - 1 /\ S * k + 0 = page - from
    BY <1>1, <1>4
  <2> QED BY <1>1, <2>1, DivMod
<1>6. -A <= 2 * k /\ 2 * k < A
  BY <1>2, <1>5 DEF InSpan
<1>7. SetAdrp(at, page) = k % A
  BY <1>2, <1>5 DEF SetAdrp
<1> HIDE DEF A, S, from
<1>8. CASE k >= 0
  <2>1. k \in 0 .. A - 1 /\ k = A * 0 + k
    BY <1>1, <1>6, <1>8
  <2>2. k % A = k
    BY <1>1, <2>1, DivMod
  <2>3. AdrpTarget(k, at) = from + S * k
    BY <1>1, <1>6 DEF AdrpTarget, A, S, from
  <2> QED BY <1>1, <1>3, <1>4, <1>7, <2>2, <2>3
<1>9. CASE k < 0
  <2>1. k + A \in 0 .. A - 1 /\ A * (-1) + (k + A) = k /\ -1 \in Int
    BY <1>1, <1>6, <1>9
  <2>2. k % A = k + A
    <3> DEFINE m == k + A
               o == -1
    <3>1. m \in 0 .. A - 1 /\ o \in Int /\ A * o + m = k
      BY <2>1
    <3> HIDE DEF m, o
    <3>2. (A * o + m) % A = m
      BY <1>1, <3>1, DivMod
    <3> QED BY <3>1, <3>2 DEF m
  <2>3. 2 * (k + A) >= A /\ (k + A) - A = k
    BY <1>1, <1>6
  <2>4. AdrpTarget(k + A, at) = from + S * k
    BY <2>3 DEF AdrpTarget, A, S, from
  <2> QED BY <1>1, <1>3, <1>4, <1>7, <2>2, <2>4
<1> QED BY <1>8, <1>9

\* Code and page moved by the same whole pages: the immediate stays.
LEMMA AdrpShifts ==
  ASSUME NEW at \in Int, NEW page \in Int
  PROVE  SetAdrp(at + TextDelta, page + TextDelta) = SetAdrp(at, page)
<1>1. TextDelta \in Int /\ TextDelta % PageSize = 0
  BY AdrpAssumption
<1>2. /\ PageOf(at + TextDelta) = PageOf(at) + TextDelta
      /\ PageOf(page + TextDelta) = PageOf(page) + TextDelta
  BY <1>1, PageFacts
<1>3. PageOf(at) \in Int /\ PageOf(page) \in Int
  BY PageFacts
<1>4. PageOf(page + TextDelta) - PageOf(at + TextDelta) = PageOf(page) - PageOf(at)
  BY <1>1, <1>2, <1>3
<1> QED BY <1>4 DEF SetAdrp

LEMMA MovedIs ==
  ASSUME NEW a \in Int, Moved(a) # {}
  PROVE  /\ \E s \in Deltas : /\ s.lo <= a /\ a < s.hi /\ seg_delta_old(a) = s.d
                              /\ s.lo \in Int /\ s.hi \in Int /\ s.d \in Int
         /\ seg_delta_old(a) \in Int /\ a \in Addresses
         /\ NewTarget(a) = a + seg_delta_old(a)
<1> DEFINE s == CHOOSE u \in Moved(a) : TRUE
<1>1. s \in Moved(a) /\ seg_delta_old(a) = s.d
  BY DEF seg_delta_old
<1> HIDE DEF s
<1>2. /\ s \in Deltas /\ s.lo <= a /\ a < s.hi
      /\ s.lo \in Int /\ s.hi \in Int /\ s.d \in Int
  BY <1>1, AdrpAssumption DEF Moved
<1>3. a \in s.lo .. s.hi - 1
  BY <1>2
<1>4. a \in Addresses
  BY <1>2, <1>3 DEF Addresses
<1> QED BY <1>1, <1>2, <1>4 DEF NewTarget

\* A target that keeps its distance to the code is on a page that does so whole.
LEMMA TextPage ==
  ASSUME NEW t \in Int, Moved(t) # {}, seg_delta_old(t) = TextDelta,
         NEW a \in Int, PageOf(a) = PageOf(t)
  PROVE  Moved(a) # {} /\ seg_delta_old(a) = TextDelta
<1>1. PICK s \in Deltas : /\ s.lo <= t /\ t < s.hi /\ s.d = TextDelta
                          /\ s.lo \in Int /\ s.hi \in Int
  BY MovedIs
<1> DEFINE S == PageSize
           P == PageOf(t)
           lo == s.lo
           hi == s.hi
<1>2. lo \in Int /\ hi \in Int /\ lo <= t /\ t < hi /\ lo % S = 0 /\ hi % S = 0
  BY <1>1, AdrpAssumption
<1>3. /\ P \in Int /\ P % S = 0 /\ P <= t /\ t < P + S /\ P <= a /\ a < P + S
  BY PageFacts
<1>4. S \in Nat \ {0}
  BY AdrpAssumption
<1>5. lo <= a /\ a < hi
  <2>1. PICK x \in Int : P = S * x
    BY <1>3, WholePages
  <2>2. PICK y \in Int : lo = S * y
    BY <1>2, WholePages
  <2>3. PICK z \in Int : hi = S * z
    BY <1>2, WholePages
  <2> HIDE DEF S, P, lo, hi
  <2>4. y <= x
    <3>1. CASE y >= x + 1
      <4>1. S * y >= S * x + S
        BY <1>4, <3>1
      <4> QED BY <1>2, <1>3, <1>4, <2>1, <2>2, <4>1
    <3> QED BY <3>1
  <2>5. z >= x + 1
    <3>1. CASE z <= x
      <4>1. S * z <= S * x
        BY <1>4, <3>1
      <4> QED BY <1>2, <1>3, <1>4, <2>1, <2>3, <4>1
    <3> QED BY <3>1
  <2>6. S * y <= S * x
    BY <1>4, <2>4
  <2>7. S * z >= S * x + S
    BY <1>4, <2>5
  <2> QED BY <1>2, <1>3, <1>4, <2>1, <2>2, <2>3, <2>6, <2>7
<1>6. s \in Moved(a)
  BY <1>5 DEF Moved
<1>7. PICK u \in Deltas : /\ u.lo <= a /\ a < u.hi /\ seg_delta_old(a) = u.d
                          /\ u.lo \in Int /\ u.hi \in Int
  BY <1>6, MovedIs
<1>8. u = s
  <2>1. u # s => u.hi <= s.lo \/ s.hi <= u.lo
    BY AdrpAssumption
  <2> QED BY <1>2, <1>5, <1>7, <2>1
<1> QED BY <1>1, <1>6, <1>7, <1>8

\* A consumer of a page that moves by whole pages keeps its low bits.
LEMMA DispKept ==
  ASSUME Meant(RealDefs), NEW p \in Pos, prog.ins[p].k = "use", NEW page \in Int,
         \A e \in Values(RealDefs, p, prog.ins[p].rn) : prog.ins[e].page = page,
         prog.ins[p].disp \in Int, PageAligned(page + prog.ins[p].disp)
  PROVE  disp[p] = prog.ins[p].disp
<1> DEFINE n == prog.ins[p].disp
           delta == seg_delta_old(page + n)
<1>1. page + n \in Int /\ Moved(page + n) # {}
  BY DEF PageAligned
<1>2. delta \in Int /\ NewTarget(page + n) = page + n + delta
  BY <1>1, MovedIs
<1>3. DesiredPage(page, page + n) = page + delta
  BY DEF DesiredPage
<1> HIDE DEF delta
<1>4. NewDisp(prog.ins[p], page) = n
  BY <1>2, <1>3 DEF NewDisp
<1> QED BY <1>4 DEF Meant

\* What the loop has patched when it is done is what the code means.
LEMMA DoneFaithful ==
  ASSUME LoopInv, RealInv, status = "done", Compiled(RealDefs), Upwards(RealDefs)
  PROVE  Faithful(RealDefs)
<1> SUFFICES ASSUME NEW p \in Pos, prog.ins[p].k = "use",
                    NEW d \in Values(RealDefs, p, prog.ins[p].rn) \ {Other},
                    LET t == prog.ins[d].page + prog.ins[p].disp
                    IN  Moved(t) # {} \/ t \in DOMAIN GotSlots
             PROVE  Reached(d, p) = NewTarget(prog.ins[d].page + prog.ins[p].disp)
  BY DEF Faithful
<1> DEFINE i == prog.ins[p]
           n == prog.ins[p].disp
           P == prog.ins[d].page
           t == P + n
           v == Values(RealDefs, p, i.rn)
           at == prog.base + d
           to == at + TextDelta
<1>0. /\ AdrpTypeOK /\ WellFormed(prog) /\ work = <<>> /\ Unreached = {} /\ i.rn \in Regs
      /\ Meant(RealDefs) /\ Caused /\ Remembered(RealDefs)
  BY DEF LoopInv, AdrpInv, AdrpTypeOK, AllDrained, RealInv, WellFormed, Pos
<1>1. /\ v \cap {Other, Lost} = {} /\ n \in 0 .. PageSize - 1
      /\ \A e \in v : prog.ins[e].page = P
  BY DEF Compiled
<1>2. \A e \in v : e >= 0 /\ e \in Pos /\ prog.ins[e].k = "adrp"
  BY <1>0, <1>1, ValueKind
<1>3. /\ d \in v /\ d \in Pos /\ d >= 0 /\ prog.ins[d].k = "adrp" /\ d \in seen /\ Drained(d)
  BY <1>0, <1>2 DEF Unreached, Drained, InWork
<1>4. /\ P \in Int /\ P % PageSize = 0 /\ d \in Int /\ prog.base \in Int
      /\ Moved(at) # {} /\ seg_delta_old(at) = TextDelta
  BY <1>0, <1>3 DEF WellFormed, Pos
<1>5. t \in Int /\ PageOf(t) = P
  BY <1>1, <1>4, LowBits
<1>6. PageSize \in Nat \ {0} /\ TextDelta \in Int /\ TextDelta % PageSize = 0
  BY AdrpAssumption
<1>7. at \in Int /\ to \in Int /\ n \in Int
  BY <1>1, <1>4, <1>6
<1>8. NewTarget(t) \in Int /\ InSpan(to, NewTarget(t))
  <2>1. at \in Addresses /\ NewTarget(at) = to
    BY <1>4, <1>7, MovedIs
  <2>2. t \in Addresses
    BY <1>5, MovedIs DEF Addresses
  <2>3. CASE Moved(t) # {}
    <3>1. NewTarget(t) = t + seg_delta_old(t) /\ seg_delta_old(t) \in Int
      BY <1>5, <2>3, MovedIs
    <3> QED BY <1>5, <2>1, <2>2, <3>1, AdrpAssumption
  <2>4. CASE Moved(t) = {}
    <3>1. NewTarget(t) = GotSlots[t] /\ t \in DOMAIN GotSlots
      BY <2>4 DEF NewTarget
    <3> QED BY <2>1, <2>2, <3>1, AdrpAssumption
  <2> QED BY <2>3, <2>4
<1> DEFINE Hits(page) ==
             /\ page \in Int /\ page % PageSize = 0 /\ disp[p] \in 0 .. PageSize - 1
             /\ NewTarget(t) = page + disp[p] /\ imm[d] = SetAdrp(to, page)
<1>9. ASSUME NEW page, Hits(page)
      PROVE  Reached(d, p) = NewTarget(t)
  <2>1. AdrpTarget(imm[d], to) = page
    BY <1>7, <1>8, <1>9, AdrpReaches
  <2> QED BY <1>9, <2>1 DEF Reached
<1>10. PageAligned(t) => disp[p] = n
  BY <1>0, <1>1, <1>4, <1>7, DispKept
<1>11. pages[d].known => imm[d] = SetAdrp(to, pages[d].at)
  BY <1>3 DEF LoopInv, AdrpInv, PageShape
<1> HIDE DEF at, to, P
<1>12. CASE Settled(P)
  <2> DEFINE delta == seg_delta_old(P)
  <2>1. Moved(P) # {} /\ delta % PageSize = 0 /\ Eager(P)
    BY <1>12 DEF Settled, Eager
  <2>2. delta \in Int
    BY <1>4, <2>1, MovedIs
  <2>3. Moved(t) # {} /\ seg_delta_old(t) = delta
    <3>1. t \in P .. P + PageSize - 1
      BY <1>1, <1>4, <1>6
    <3> QED BY <1>12, <3>1 DEF Settled, P
  <2>4. PageAligned(t) /\ NewTarget(t) = t + delta
    BY <1>5, <2>1, <2>3, MovedIs DEF PageAligned
  <2>5. pages[d].known /\ pages[d].at = P + delta
    BY <1>3, <2>1 DEF LoopInv, AdrpInv, Repaired, EagerPage, P
  <2>6. P + delta \in Int /\ (P + delta) % PageSize = 0
    BY <1>4, <2>1, <2>2, PagesAdd
  <2> HIDE DEF delta
  <2>7. NewTarget(t) = P + delta + n
    BY <1>4, <1>7, <2>2, <2>4
  <2> QED BY <1>1, <1>9, <1>10, <1>11, <2>4, <2>5, <2>6, <2>7
<1>13. CASE ~Settled(P)
  <2>1. Waits(RealDefs, p, i.rn)
    BY <1>1, <1>2, <1>3, <1>13 DEF Waits, P
  <2>2. p \in seen /\ (incoming[p][i.rn].defs = {} \/ d \in incoming[p][i.rn].defs)
    BY <1>0, <1>3, <1>13, CarriedSeen DEF P
  <2>3. d \in incoming[p][i.rn].defs
    BY <1>0, <2>1, <2>2 DEF Remembered
  <2>4. incoming[p][i.rn].page = P
    BY <1>0, <2>3 DEF AdrpTypeOK, GoodState, P
  <2>5. CASE Redirected(t)
    <3> DEFINE page == DesiredPage(P, t)
    <3>1. ServedAt(p)
      BY <1>0, <2>2, ServedIs DEF LoopInv, Drained, InWork
    <3>2. /\ NewDisp(i, P) \in 0 .. PageSize - 1 /\ disp[p] = NewDisp(i, P)
          /\ pages[d].known /\ pages[d].at = page
      BY <2>3, <2>4, <2>5, <3>1 DEF ServedAt
    <3>3. page \in Int /\ page % PageSize = 0
      <4>1. CASE PageAligned(t)
        <5>1. seg_delta_old(t) \in Int /\ seg_delta_old(t) % PageSize = 0
          BY <1>5, <4>1, MovedIs DEF PageAligned
        <5>2. page = P + seg_delta_old(t)
          BY <4>1 DEF DesiredPage
        <5> QED BY <1>4, <5>1, <5>2, PagesAdd
      <4>2. CASE ~PageAligned(t)
        <5>1. page = PageOf(NewTarget(t))
          BY <4>2 DEF DesiredPage
        <5> QED BY <1>8, <5>1, PageFacts
      <4> QED BY <4>1, <4>2
    <3>4. NewDisp(i, P) = NewTarget(t) - page
      BY DEF NewDisp
    <3> HIDE DEF page
    <3>5. NewTarget(t) = page + disp[p]
      BY <1>8, <3>2, <3>3, <3>4
    <3>6. Hits(page)
      BY <1>11, <3>2, <3>3, <3>5
    <3>7. Reached(d, p) = NewTarget(t)
      <4> HIDE DEF Hits
      <4> QED BY <1>9, <3>6
    <3> QED BY <3>7 DEF P
  <2>6. CASE ~Redirected(t)
    <3>1. Moved(t) # {} /\ seg_delta_old(t) = TextDelta
      BY <2>6 DEF Redirected, P
    <3>2. \A a \in Int : PageOf(a) = P => Moved(a) # {} /\ seg_delta_old(a) = TextDelta
      BY <1>5, <3>1, TextPage
    <3>3. ~Eager(P)
      <4>1. PageOf(P) = P
        BY <1>4, PageFacts
      <4> QED BY <1>4, <3>2, <4>1 DEF Eager
    <3>4. ~pages[d].known
      <4>1. \A a \in Int : PageOf(a) = P => ~Redirected(a)
        BY <3>2 DEF Redirected
      <4> QED BY <1>0, <1>3, <3>3, <4>1 DEF Caused, P
    <3>5. imm[d] = SetAdrp(at, P)
      BY <1>3, <3>4 DEF LoopInv, Unpatched, at, P
    <3>6. imm[d] = SetAdrp(to, P + TextDelta)
      BY <1>4, <1>7, <3>5, AdrpShifts DEF to
    <3>7. PageAligned(t) /\ NewTarget(t) = t + TextDelta
      BY <1>5, <1>6, <3>1, MovedIs DEF PageAligned
    <3>8. P + TextDelta \in Int /\ (P + TextDelta) % PageSize = 0
      BY <1>4, <1>6, PagesAdd
    <3>9. NewTarget(t) = P + TextDelta + n
      BY <1>4, <1>6, <1>7, <3>7
    <3> QED BY <1>1, <1>9, <1>10, <3>6, <3>7, <3>8, <3>9
  <2> QED BY <2>5, <2>6
<1> QED BY <1>12, <1>13 DEF P

\* When the script succeeds on code that a compiler emits and whose blocks run
\* upwards, the rewritten code addresses what the code addressed.
THEOREM TargetsSafe == Spec => []TargetsFaithful
<1> DEFINE Inv == LoopInv /\ RealInv
<1>1. Init => Inv
  BY LoopInit, RealInit
<1>2. Inv /\ [Next]_vars => Inv'
  BY LoopNext, RealNextInv
<1>3. Inv => TargetsFaithful
  BY DoneFaithful DEF TargetsFaithful
<1> QED BY <1>1, <1>2, <1>3, PTL DEF Spec

-----------------------------------------------------------------------------

\* A function can be defined by what it is at 0 and how it goes on.
\* A quotient and a remainder are found again.
\* Page boundaries are closed under addition.
LEMMA MultiplesAdd ==
  ASSUME NEW S \in Nat \ {0}, NEW a \in Int, NEW b \in Int, a % S = 0, b % S = 0
  PROVE  (a + b) % S = 0
<1> DEFINE x == a \div S
           y == b \div S
<1>1. a = S * x + (a % S) /\ b = S * y + (b % S) /\ x \in Int /\ y \in Int
  OBVIOUS
<1>2. a = S * x + 0 /\ b = S * y + 0
  BY <1>1
<1> HIDE DEF x, y
<1>3. a + b = S * (x + y) + 0 /\ x + y \in Int /\ 0 \in 0 .. S - 1
  BY <1>1, <1>2
<1> QED BY <1>3, DivMod

\* Rounding up to pages.
LEMMA RoundUpIs ==
  ASSUME NEW n \in Nat
  PROVE  RoundUp(n) \in Nat /\ n <= RoundUp(n) /\ RoundUp(n) % PageWords = 0
<1> DEFINE S == PageWords
           m == n + S - 1
           x == m \div S
           y == m % S
<1>1. S \in Nat \ {0} /\ m \in Int
  BY LayoutAssumption
<1>2. m = S * x + y /\ x \in Int /\ y \in 0 .. S - 1
  BY <1>1
<1>3. RoundUp(n) = x * S
  BY DEF RoundUp
<1> HIDE DEF S, x, y
<1>4. x * S = S * x + 0 /\ 0 \in 0 .. S - 1 /\ S * x \in Int
  BY <1>1, <1>2
<1>5. (x * S) % S = 0
  BY <1>1, <1>2, <1>4, DivMod
<1>6. x * S >= n
  BY <1>1, <1>2, <1>4
<1> QED BY <1>3, <1>4, <1>5, <1>6 DEF S

\* Sums of a sequence of numbers.
Summable(b, size) == b \in Nat /\ size \in [Nat -> Nat]
Sums(b, size, g) ==
  g \in [Nat -> Nat] /\ g[0] = b /\ \A k \in Nat : g[k + 1] = g[k] + size[k]
\* There is one such table of partial sums.
LEMMA SumsExist ==
  ASSUME NEW b, NEW size, Summable(b, size)
  PROVE  \E g : Sums(b, size, g)
<1> DEFINE T == [{1, 2} -> Nat]
           h == [s \in T |-> [x \in {1, 2} |-> IF x = 1 THEN s[1] + 1 ELSE s[2] + size[s[1]]]]
           a == [x \in {1, 2} |-> IF x = 1 THEN 0 ELSE b]
<1>1. a \in T /\ h \in [T -> T]
  BY DEF Summable
<1>2. \A s \in T : h[s][1] = s[1] + 1 /\ h[s][2] = s[2] + size[s[1]] /\ s[1] \in Nat /\ s[2] \in Nat
  BY DEF Summable
<1>3. a[1] = 0 /\ a[2] = b
  OBVIOUS
<1> HIDE DEF T, h, a
<1>4. \E f \in [Nat -> T] : f[0] = a /\ \A n \in Nat : f[n + 1] = h[f[n]]
  BY <1>1, Recursion
<1>5. PICK f \in [Nat -> T] : f[0] = a /\ \A n \in Nat : f[n + 1] = h[f[n]]
  BY <1>4
<1>6. \A n \in Nat : f[n] \in T /\ f[n + 1][1] = f[n][1] + 1 /\ f[n + 1][2] = f[n][2] + size[f[n][1]]
  BY <1>2, <1>5
<1>7. \A n \in Nat : f[n][1] = n
  <2> DEFINE bad == {n \in Nat : f[n][1] # n}
  <2>1. ASSUME bad # {} PROVE FALSE
    <3>1. PICK n \in bad : \A j \in bad : n <= j
      <4> HIDE DEF bad
      <4>1. bad \in SUBSET Nat
        BY DEF bad
      <4> QED BY <2>1, <4>1, NatFirst
    <3>2. n # 0
      BY <1>3, <1>5, <3>1
    <3>3. n - 1 \in Nat /\ n - 1 \notin bad /\ (n - 1) + 1 = n
      BY <3>1, <3>2
    <3>4. f[n - 1][1] = n - 1
      BY <3>3
    <3>5. f[n][1] = f[n - 1][1] + 1
      BY <1>6, <3>3
    <3> QED BY <3>1, <3>4, <3>5
  <2> QED BY <2>1
<1> DEFINE g == [n \in Nat |-> f[n][2]]
<1>8. g \in [Nat -> Nat]
  BY <1>2, <1>6
<1>9. g[0] = b
  BY <1>3, <1>5
<1>10. ASSUME NEW k \in Nat PROVE g[k + 1] = g[k] + size[k]
  <2>1. f[k + 1][2] = f[k][2] + size[f[k][1]] /\ f[k][1] = k
    BY <1>6, <1>7
  <2>2. g[k + 1] = f[k + 1][2] /\ g[k] = f[k][2]
    OBVIOUS
  <2> QED BY <2>1, <2>2
<1> QED BY <1>8, <1>9, <1>10 DEF Sums

\* Segments are placed one behind the other, on pages.
LEMMA PlacementStep ==
  ASSUME NEW n \in Nat \ {0}, NEW sizes \in [1 .. n -> Nat]
  PROVE  LET place == Placement(sizes)
         IN  /\ DOMAIN place = 1 .. n /\ place[1] = NewBase
             /\ \A i \in 2 .. n : place[i] = place[i - 1] + RoundUp(sizes[i - 1])
<1> DEFINE size == [k \in Nat |-> IF k + 1 \in 1 .. n THEN RoundUp(sizes[k + 1]) ELSE 0]
           Is(g) == g = [i \in DOMAIN sizes |->
                           IF i = 1 THEN NewBase ELSE g[i - 1] + RoundUp(sizes[i - 1])]
<1>1. Summable(NewBase, size)
  BY RoundUpIs, LayoutAssumption DEF Summable
<1> HIDE DEF size
<1>0. PICK f : Sums(NewBase, size, f)
  BY <1>1, SumsExist
<1>2. f \in [Nat -> Nat] /\ f[0] = NewBase /\ \A k \in Nat : f[k + 1] = f[k] + size[k]
  BY <1>0 DEF Sums
<1> DEFINE p == [i \in 1 .. n |-> f[i - 1]]
<1>3. Is(p)
  <2> SUFFICES ASSUME NEW i \in 1 .. n
               PROVE  p[i] = IF i = 1 THEN NewBase ELSE p[i - 1] + RoundUp(sizes[i - 1])
    OBVIOUS
  <2>1. CASE i = 1
    BY <1>2, <2>1
  <2>2. CASE i # 1
    <3>1. i - 2 \in Nat /\ (i - 2) + 1 = i - 1 /\ i - 1 \in 1 .. n /\ (i - 1) - 1 = i - 2
      BY <2>2
    <3>2. f[i - 1] = f[i - 2] + size[i - 2]
      BY <1>2, <3>1
    <3>3. size[i - 2] = RoundUp(sizes[i - 1])
      BY <3>1 DEF size
    <3>4. p[i] = f[i - 1] /\ p[i - 1] = f[i - 2]
      BY <3>1
    <3> QED BY <2>2, <3>2, <3>3, <3>4
  <2> QED BY <2>1, <2>2
<1>4. Is(Placement(sizes))
  <2>1. Placement(sizes) = CHOOSE g : Is(g)
    BY DEF Placement
  <2> HIDE DEF Is
  <2> QED BY <1>3, <2>1
<1> DEFINE place == Placement(sizes)
<1>5. place = [i \in 1 .. n |-> IF i = 1 THEN NewBase ELSE place[i - 1] + RoundUp(sizes[i - 1])]
  BY <1>4
<1> HIDE DEF place
<1>6. DOMAIN place = 1 .. n /\ place[1] = NewBase
  BY <1>5
<1>7. ASSUME NEW i \in 2 .. n PROVE place[i] = place[i - 1] + RoundUp(sizes[i - 1])
  <2>1. i \in 1 .. n /\ i # 1
    OBVIOUS
  <2> DEFINE e(j) == IF j = 1 THEN NewBase ELSE place[j - 1] + RoundUp(sizes[j - 1])
  <2>2. place = [j \in 1 .. n |-> e(j)]
    BY <1>5
  <2>3. e(i) = place[i - 1] + RoundUp(sizes[i - 1])
    BY <2>1
  <2> HIDE DEF e
  <2>4. place[i] = e(i)
    BY <2>1, <2>2
  <2> QED BY <2>3, <2>4
<1> QED BY <1>6, <1>7 DEF place

\* The slots of relayout_compact: on pages, from NewBase up, none inside another.
LEMMA PlacementIs ==
  ASSUME NEW n \in Nat \ {0}, NEW sizes \in [1 .. n -> Nat]
  PROVE  LET place == Placement(sizes)
         IN  /\ \A i \in 1 .. n : place[i] \in Nat /\ place[i] >= NewBase /\ place[i] % PageWords = 0
             /\ \A i, j \in 1 .. n : i < j => place[i] + RoundUp(sizes[i]) <= place[j]
<1> DEFINE place == Placement(sizes)
<1>1. /\ place[1] = NewBase
      /\ \A i \in 2 .. n : place[i] = place[i - 1] + RoundUp(sizes[i - 1])
  BY PlacementStep
<1> HIDE DEF place
<1>2. \A i \in 1 .. n : RoundUp(sizes[i]) \in Nat /\ RoundUp(sizes[i]) % PageWords = 0
  BY RoundUpIs
<1>3. NewBase \in Nat /\ NewBase % PageWords = 0 /\ PageWords \in Nat \ {0}
  BY LayoutAssumption
<1> DEFINE Good(i) == place[i] \in Nat /\ place[i] >= NewBase /\ place[i] % PageWords = 0
<1>4. \A i \in 1 .. n : Good(i)
  <2> DEFINE bad == {i \in 1 .. n : ~Good(i)}
  <2>1. ASSUME bad # {} PROVE FALSE
    <3>1. PICK i \in bad : \A j \in bad : i <= j
      <4> HIDE DEF bad
      <4>1. bad \in SUBSET Nat
        BY DEF bad
      <4> QED BY <2>1, <4>1, NatFirst
    <3>2. i # 1
      BY <1>1, <1>3, <3>1
    <3>3. i - 1 \in 1 .. n /\ i \in 2 .. n /\ i - 1 \notin bad
      BY <3>1, <3>2
    <3>4. Good(i - 1)
      BY <3>3
    <3>5. place[i] = place[i - 1] + RoundUp(sizes[i - 1])
      BY <1>1, <3>3
    <3> DEFINE a == place[i - 1]
               b == RoundUp(sizes[i - 1])
    <3>6. a \in Nat /\ a >= NewBase /\ a % PageWords = 0 /\ b \in Nat /\ b % PageWords = 0
      BY <1>2, <3>3, <3>4
    <3>7. place[i] = a + b
      BY <3>5
    <3> HIDE DEF a, b
    <3>8. (a + b) % PageWords = 0
      <4> DEFINE S == PageWords
      <4>1. S \in Nat \ {0} /\ a \in Int /\ b \in Int /\ a % S = 0 /\ b % S = 0
        BY <1>3, <3>6
      <4> HIDE DEF S
      <4>2. (a + b) % S = 0
        BY <4>1, MultiplesAdd
      <4> QED BY <4>2 DEF S
    <3>9. a + b \in Nat /\ a + b >= NewBase
      BY <1>3, <3>6
    <3> QED BY <3>1, <3>7, <3>8, <3>9
  <2> QED BY <2>1
<1>5. ASSUME NEW i \in 1 .. n PROVE \A j \in 1 .. n : i < j => place[i] + RoundUp(sizes[i]) <= place[j]
  <2> DEFINE bad == {j \in 1 .. n : i < j /\ ~(place[i] + RoundUp(sizes[i]) <= place[j])}
  <2>1. ASSUME bad # {} PROVE FALSE
    <3>1. PICK j \in bad : \A k \in bad : j <= k
      <4> HIDE DEF bad
      <4>1. bad \in SUBSET Nat
        BY DEF bad
      <4> QED BY <2>1, <4>1, NatFirst
    <3>2. j \in 2 .. n /\ j - 1 \in 1 .. n /\ i < j /\ ~(place[i] + RoundUp(sizes[i]) <= place[j])
      BY <3>1
    <3>3. place[j] = place[j - 1] + RoundUp(sizes[j - 1]) /\ RoundUp(sizes[j - 1]) \in Nat
      BY <1>1, <1>2, <3>2
    <3>4. i # j - 1
      <4>1. place[j - 1] \in Nat
        BY <1>4, <3>2
      <4>2. ASSUME i = j - 1 PROVE FALSE
        BY <3>2, <3>3, <4>1, <4>2, SMTT(30)
      <4> QED BY <4>2
    <3>5. place[i] + RoundUp(sizes[i]) <= place[j - 1]
      BY <3>1, <3>2, <3>4
    <3>6. place[j - 1] \in Nat /\ place[j] \in Nat /\ place[i] \in Nat /\ RoundUp(sizes[i]) \in Nat
      BY <1>2, <1>4, <3>2
    <3> DEFINE p == place[i] + RoundUp(sizes[i])
               q == place[j - 1]
               r == RoundUp(sizes[j - 1])
    <3>7. p \in Nat /\ q \in Nat /\ r \in Nat /\ p <= q /\ ~(p <= q + r)
      BY <3>2, <3>3, <3>5, <3>6, SMTT(30)
    <3> HIDE DEF p, q, r
    <3> QED BY <3>7
  <2> QED BY <2>1
<1> QED BY <1>4, <1>5 DEF place

\* Segments of an image in memory: numbers, not longer in the file, apart.
GoodSegs(segs) ==
  /\ segs # <<>> /\ segs \in Seq([name : STRING, va : Nat, vs : Nat, fo : Nat, fs : Nat])
  /\ \A i \in DOMAIN segs : segs[i].fs <= segs[i].vs
  /\ \A i, j \in DOMAIN segs : i # j => Apart(segs[i].va, segs[i].vs, segs[j].va, segs[j].vs)

\* What a good list of segments gives for each of them.
LEMMA GoodSegIs ==
  ASSUME NEW segs, GoodSegs(segs)
  PROVE  /\ Len(segs) \in Nat \ {0} /\ DOMAIN segs = 1 .. Len(segs)
         /\ \A i \in DOMAIN segs :
              /\ segs[i].va \in Nat /\ segs[i].vs \in Nat /\ segs[i].fo \in Nat /\ segs[i].fs \in Nat
              /\ Span(segs[i]) = segs[i].vs
<1>1. Len(segs) \in Nat \ {0} /\ DOMAIN segs = 1 .. Len(segs)
  BY DEF GoodSegs
<1>2. ASSUME NEW i \in DOMAIN segs
      PROVE  /\ segs[i].va \in Nat /\ segs[i].vs \in Nat /\ segs[i].fo \in Nat /\ segs[i].fs \in Nat
             /\ segs[i].fs <= segs[i].vs
  <2>1. segs[i] \in [name : STRING, va : Nat, vs : Nat, fo : Nat, fs : Nat]
    <3> DEFINE R == [name : STRING, va : Nat, vs : Nat, fo : Nat, fs : Nat]
    <3>1. segs \in Seq(R)
      BY DEF GoodSegs
    <3> HIDE DEF R
    <3>2. segs[i] \in R
      BY <1>1, <1>2, <3>1
    <3> QED BY <3>2 DEF R
  <2>2. segs[i].fs <= segs[i].vs
    BY <1>2 DEF GoodSegs
  <2> QED BY <2>1, <2>2
<1>3. ASSUME NEW i \in DOMAIN segs PROVE Span(segs[i]) = segs[i].vs
  BY <1>2 DEF Span, Larger
<1> QED BY <1>1, <1>2, <1>3

\* An address lies in one segment only.
LEMMA OneSegment ==
  ASSUME NEW segs, GoodSegs(segs), NEW i \in DOMAIN segs, NEW j \in DOMAIN segs, NEW a \in Int,
         segs[i].va <= a, a < segs[i].va + segs[i].vs,
         segs[j].va <= a, a < segs[j].va + segs[j].vs
  PROVE  i = j
<1>1. segs[i].va \in Nat /\ segs[i].vs \in Nat /\ segs[j].va \in Nat /\ segs[j].vs \in Nat
  BY GoodSegIs
<1>2. i # j => Apart(segs[i].va, segs[i].vs, segs[j].va, segs[j].vs)
  BY DEF GoodSegs
<1> QED BY <1>1, <1>2 DEF Apart

\* Where the pool goes, if there is one.
GoodGap(segs, at, split) ==
  \/ at = None
  \/ at \in DOMAIN segs /\ split \in Int /\ segs[at].va <= split /\ split <= segs[at].va + segs[at].vs

\* make_amap on the ranges of the compact layout: a word moves with its segment,
\* and behind the gap by its size too.
LEMMA AmapIs ==
  ASSUME NEW segs, GoodSegs(segs), NEW at, NEW split, GoodGap(segs, at, split),
         NEW place, \A i \in DOMAIN segs : place[i] \in Int,
         NEW shift \in Nat,
         NEW i \in DOMAIN segs, NEW a \in Int, segs[i].va <= a, a < segs[i].va + segs[i].vs
  PROVE  Amap(MovedRanges(segs, place, at, split, shift), a)
           = a + (place[i] - segs[i].va) + (IF i = at /\ a >= split THEN shift ELSE 0)
<1> DEFINE moved == MovedRanges(segs, place, at, split, shift)
           end(j) == segs[j].va + Span(segs[j])
           by(j) == place[j] - segs[j].va
           whole(j) == [lo |-> segs[j].va, hi |-> IF j = at THEN split ELSE end(j), d |-> by(j)]
           tail == [lo |-> split, hi |-> end(at), d |-> by(at) + shift]
           r == IF i = at /\ a >= split THEN tail ELSE whole(i)
           hit == {q \in moved : a \in q.lo .. q.hi - 1}
<1>1. \A j \in DOMAIN segs : /\ segs[j].va \in Nat /\ segs[j].vs \in Nat /\ Span(segs[j]) = segs[j].vs
                             /\ place[j] \in Int
  BY GoodSegIs
<1>2. moved = {whole(j) : j \in DOMAIN segs} \cup (IF at = None THEN {} ELSE {tail})
  BY DEF MovedRanges
<1> DEFINE top(j) == IF j = at THEN split ELSE end(j)
<1>10. \A j : whole(j).lo = segs[j].va /\ whole(j).hi = top(j) /\ whole(j).d = by(j)
  OBVIOUS
<1>11. tail.lo = split /\ tail.hi = end(at) /\ tail.d = by(at) + shift
  OBVIOUS
<1>12. \A j \in DOMAIN segs : /\ top(j) \in Int /\ top(j) <= segs[j].va + segs[j].vs
                              /\ end(j) = segs[j].va + segs[j].vs
  BY <1>1, GoodSegIs DEF GoodGap, None
<1>3. i \in DOMAIN segs /\ DOMAIN segs \subseteq Nat /\ at = i => at # None
  BY GoodSegIs DEF None
<1>4. r \in moved
  <2>1. CASE i = at /\ a >= split
    <3>1. at # None
      BY <1>3, <2>1, GoodSegIs
    <3> HIDE DEF moved, tail, whole
    <3> QED BY <1>2, <2>1, <3>1
  <2>2. CASE ~(i = at /\ a >= split)
    <3> HIDE DEF moved, tail, whole
    <3> QED BY <1>2, <2>2
  <2> QED BY <2>1, <2>2
<1>5. a \in r.lo .. r.hi - 1
  <2>1. CASE i = at /\ a >= split
    <3>1. r.lo = split /\ r.hi = end(i)
      BY <1>11, <2>1
    <3>2. end(i) = segs[i].va + segs[i].vs /\ split \in Int /\ segs[i].vs \in Nat /\ segs[i].va \in Nat
      <4>1. at # None
        BY <1>3, <2>1, GoodSegIs
      <4> QED BY <1>1, <1>12, <2>1, <4>1 DEF GoodGap
    <3> HIDE DEF r, end
    <3> QED BY <2>1, <3>1, <3>2
  <2>2. CASE ~(i = at /\ a >= split)
    <3>1. r.lo = segs[i].va /\ r.hi = top(i)
      BY <1>10, <2>2
    <3>2. a < top(i) /\ top(i) \in Int
      <4>1. i = at => at # None
        BY <1>3, GoodSegIs
      <4> QED BY <1>1, <1>12, <2>2, <4>1 DEF GoodGap
    <3>3. segs[i].va \in Nat
      BY <1>1
    <3> HIDE DEF r, top
    <3> QED BY <3>1, <3>2, <3>3
  <2> QED BY <2>1, <2>2
<1>6. ASSUME NEW q \in hit PROVE q = r
  <2>1. q \in moved /\ a \in q.lo .. q.hi - 1
    OBVIOUS
  <2>2. ASSUME NEW j \in DOMAIN segs, q = whole(j) PROVE q = r
    <3>1. segs[j].va <= a /\ a < segs[j].va + segs[j].vs
      <4>1. a \in segs[j].va .. top(j) - 1
        BY <1>10, <2>1, <2>2
      <4> HIDE DEF top
      <4> QED BY <4>1, <1>1, <1>12
    <3>2. i = j
      <4> HIDE DEF moved, hit, r, whole, tail
      <4> QED BY <3>1, OneSegment
    <3>3. ~(i = at /\ a >= split)
      <4>1. a \in segs[j].va .. top(j) - 1
        BY <1>10, <2>1, <2>2
      <4>2. i = at => top(j) = split /\ split \in Int
        BY <3>2, <1>3, GoodSegIs DEF GoodGap
      <4> HIDE DEF top
      <4> QED BY <4>1, <4>2, <1>1
    <3> QED BY <2>2, <3>2, <3>3
  <2>3. ASSUME at # None, q = tail PROVE q = r
    <3>1. at \in DOMAIN segs /\ split \in Int /\ segs[at].va <= split /\ split <= segs[at].va + segs[at].vs
      BY <2>3 DEF GoodGap
    <3>2. a \in split .. end(at) - 1
      BY <1>11, <2>1, <2>3
    <3>3. segs[at].va <= a /\ a < segs[at].va + segs[at].vs /\ a >= split
      <4> HIDE DEF end
      <4> QED BY <3>1, <3>2, <1>1, <1>12
    <3>4. i = at
      <4> HIDE DEF moved, hit, r, whole, tail
      <4> QED BY <3>1, <3>3, OneSegment
    <3> QED BY <2>3, <3>3, <3>4
  <2> HIDE DEF moved, hit, r, whole, tail
  <2> QED BY <1>2, <2>1, <2>2, <2>3
<1>7. hit = {r}
  <2> HIDE DEF r, moved
  <2> QED BY <1>4, <1>5, <1>6
<1>8. Amap(moved, a) = a + r.d
  <2>1. (CHOOSE q \in hit : TRUE) = r
    <3> HIDE DEF hit, r
    <3> QED BY <1>7
  <2>2. Amap(moved, a) = IF hit = {} THEN None ELSE a + (CHOOSE q \in hit : TRUE).d
    BY DEF Amap
  <2> HIDE DEF hit, r
  <2> QED BY <1>7, <2>1, <2>2
<1>9. r.d = by(i) + (IF i = at /\ a >= split THEN shift ELSE 0)
  BY <1>1
<1> QED BY <1>1, <1>8, <1>9

\* Segments on pages of their own, of which the file is a mirror.
Placed(segs) ==
  /\ DOMAIN segs \subseteq Nat
  /\ \A i \in DOMAIN segs : /\ segs[i].va \in Nat /\ segs[i].vs \in Nat
                            /\ segs[i].va % PageWords = 0 /\ segs[i].fo = segs[i].va - NewBase
  /\ \A i, j \in DOMAIN segs : i < j => segs[i].va + segs[i].vs <= segs[j].va

\* A set of naturals has its least element.
LEMMA LeastIs ==
  ASSUME NEW S \in SUBSET Nat, S # {}
  PROVE  Least(S) \in S
<1>1. \E x \in S : \A y \in S : x <= y
  BY NatFirst
<1> QED BY <1>1 DEF Least

\* Then addr2off is a subtraction.
LEMMA AddrToOffIs ==
  ASSUME NEW segs, Placed(segs), NEW x, InSegs(segs, x)
  PROVE  x \in Int /\ AddrToOff(segs, x) = x - NewBase
<1> DEFINE i == Least(SegAt(segs, x))
<1>1. i \in SegAt(segs, x)
  <2> DEFINE S == SegAt(segs, x)
  <2>1. S \in SUBSET Nat /\ S # {}
    BY DEF SegAt, InSegs, Placed
  <2> HIDE DEF S
  <2>2. Least(S) \in S
    BY <2>1, LeastIs
  <2> QED BY <2>2 DEF S
<1>2. AddrToOff(segs, x) = segs[i].fo + (x - segs[i].va)
  BY DEF AddrToOff
<1> HIDE DEF i
<1>3. i \in DOMAIN segs /\ x \in segs[i].va .. segs[i].va + segs[i].vs - 1
  BY <1>1 DEF SegAt
<1>4. segs[i].va \in Nat /\ segs[i].fo = segs[i].va - NewBase /\ NewBase \in Nat
  BY <1>3, LayoutAssumption DEF Placed
<1> QED BY <1>2, <1>3, <1>4

\* What the compact layout is to do: the words of the image land in the new
\* segments, each at its own place and outside the pool.
CompactOK(segs, file, R, need) ==
  /\ Placed(R.segs) /\ R.pool \in Int
  /\ \A i \in DOMAIN segs : \A a \in segs[i].va .. segs[i].va + segs[i].fs - 1 :
       LET b == Amap(R.deltas, a)
       IN  /\ InSegs(R.segs, b)
           /\ b - NewBase \in DOMAIN R.file
           /\ R.file[b - NewBase] = file[segs[i].fo + (a - segs[i].va)]
           /\ R.pool # None => b \notin R.pool .. R.pool + need - 1
  /\ R.pool # None => \A x \in R.pool .. R.pool + need - 1 : InSegs(R.segs, x)

\* Two words in different slots are different words.
Slotted(place, sizes, n) ==
  /\ \A i \in 1 .. n : /\ place[i] \in Nat /\ place[i] >= NewBase /\ place[i] % PageWords = 0
                       /\ sizes[i] \in Nat /\ RoundUp(sizes[i]) \in Nat /\ sizes[i] <= RoundUp(sizes[i])
  /\ \A i, j \in 1 .. n : i < j => place[i] + RoundUp(sizes[i]) <= place[j]

LEMMA OneSlot ==
  ASSUME NEW n \in Nat, NEW place, NEW sizes, Slotted(place, sizes, n),
         NEW i \in 1 .. n, NEW j \in 1 .. n, NEW b \in Int,
         place[i] <= b, b < place[i] + RoundUp(sizes[i]),
         place[j] <= b, b < place[j] + RoundUp(sizes[j])
  PROVE  i = j
<1>1. /\ place[i] \in Nat /\ place[j] \in Nat /\ RoundUp(sizes[i]) \in Nat /\ RoundUp(sizes[j]) \in Nat
      /\ i < j => place[i] + RoundUp(sizes[i]) <= place[j]
      /\ j < i => place[j] + RoundUp(sizes[j]) <= place[i]
  BY DEF Slotted
<1>2. ~(i < j)
  BY <1>1
<1>3. ~(j < i)
  BY <1>1
<1> QED BY <1>2, <1>3

\* A slot holds its segment and the gap, and the file holds all slots.
Roomy(segs, at, shift, place, sizes, size) ==
  \A i \in DOMAIN segs : /\ sizes[i] >= segs[i].vs + (IF i = at THEN shift ELSE 0)
                         /\ place[i] + RoundUp(sizes[i]) <= NewBase + size

\* A common summand cancels.
LEMMA Cancel ==
  ASSUME NEW x \in Int, NEW d \in Int, NEW g \in Int, NEW a \in Int, NEW l \in Int,
         x + d + g = a + d + l
  PROVE  x + g = a + l
  OBVIOUS

\* The file that relayout_compact copies together: the word at a, of segment i.
CopyIs(segs, at, split, shift, place, sizes, file, size, i, a) ==
  LET moved == MovedRanges(segs, place, at, split, shift)
      copied == CopiedFile(segs, file, moved, size)
      b == Amap(moved, a)
  IN  /\ b \in place[i] .. place[i] + RoundUp(sizes[i]) - 1
      /\ b = a + (place[i] - segs[i].va) + (IF i = at /\ a >= split THEN shift ELSE 0)
      /\ b - NewBase \in DOMAIN copied
      /\ copied[b - NewBase] = file[segs[i].fo + (a - segs[i].va)]

\* Every word of the image is copied to where the moved ranges say.
LEMMA CopiedIs ==
  ASSUME NEW segs, GoodSegs(segs), NEW at, NEW split, GoodGap(segs, at, split), NEW shift \in Nat,
         NEW place, NEW sizes, Slotted(place, sizes, Len(segs)),
         NEW file, NEW size \in Nat, Roomy(segs, at, shift, place, sizes, size),
         NEW i \in DOMAIN segs, NEW a \in segs[i].va .. segs[i].va + segs[i].fs - 1
  PROVE  CopyIs(segs, at, split, shift, place, sizes, file, size, i, a)
<1> DEFINE moved == MovedRanges(segs, place, at, split, shift)
           gap(j, x) == IF j = at /\ x >= split THEN shift ELSE 0
           b == Amap(moved, a)
           k == a - segs[i].va
           source == {w \in (DOMAIN segs) \X (0 .. size) :
                        w[2] < segs[w[1]].fs /\ Amap(moved, segs[w[1]].va + w[2]) = b}
<1>1. /\ Len(segs) \in Nat \ {0} /\ DOMAIN segs = 1 .. Len(segs)
      /\ \A j \in DOMAIN segs : /\ segs[j].va \in Nat /\ segs[j].vs \in Nat /\ segs[j].fs \in Nat
                                /\ segs[j].fs <= segs[j].vs
  BY GoodSegIs DEF GoodSegs
<1>2. \A j \in DOMAIN segs : /\ place[j] \in Nat /\ place[j] >= NewBase /\ sizes[j] \in Nat
                             /\ RoundUp(sizes[j]) \in Nat /\ sizes[j] <= RoundUp(sizes[j])
  BY <1>1 DEF Slotted
<1>3. ASSUME NEW j \in DOMAIN segs, NEW x \in Int, segs[j].va <= x, x < segs[j].va + segs[j].fs
      PROVE  /\ Amap(moved, x) = x + (place[j] - segs[j].va) + gap(j, x)
             /\ Amap(moved, x) \in Int
             /\ place[j] <= Amap(moved, x) /\ Amap(moved, x) < place[j] + RoundUp(sizes[j])
  <2>1. Amap(moved, x) = x + (place[j] - segs[j].va) + gap(j, x)
    <3>1. x < segs[j].va + segs[j].vs
      <4>1. segs[j].va \in Nat /\ segs[j].vs \in Nat /\ segs[j].fs \in Nat /\ segs[j].fs <= segs[j].vs
        BY <1>1
      <4> QED BY <1>3, <4>1, SMTT(30)
    <3>2. \A m \in DOMAIN segs : place[m] \in Int
      BY <1>2
    <3> QED BY <1>3, <3>1, <3>2, AmapIs
  <2>2. gap(j, x) \in Nat /\ gap(j, x) <= (IF j = at THEN shift ELSE 0)
    OBVIOUS
  <2>3. sizes[j] >= segs[j].vs + (IF j = at THEN shift ELSE 0)
    BY DEF Roomy
  <2> DEFINE g == gap(j, x)
             l == IF j = at THEN shift ELSE 0
  <2>4. l \in Nat /\ g \in Nat /\ g <= l /\ sizes[j] >= segs[j].vs + l
    BY <2>2, <2>3
  <2> DEFINE A == Amap(moved, x)
             p == place[j]
             va == segs[j].va
             vs == segs[j].vs
             fs == segs[j].fs
             sz == sizes[j]
             t == RoundUp(sizes[j])
  <2>5. A = x + (p - va) + g
    BY <2>1
  <2>6. va <= x /\ x < va + fs /\ fs <= vs /\ sz <= t /\ sz >= vs + l
    BY <1>1, <1>2, <1>3, <2>4
  <2>7. p \in Nat /\ va \in Nat /\ vs \in Nat /\ fs \in Nat /\ sz \in Nat /\ t \in Nat
    BY <1>1, <1>2
  <2>8. A \in Int /\ p <= A /\ A < p + t
    <3> HIDE DEF A, p, va, vs, fs, sz, t, g, l, moved, gap
    <3> QED BY <2>4, <2>5, <2>6, <2>7
  <2> HIDE DEF gap, moved
  <2> QED BY <2>1, <2>8
<1>4. a \in Int /\ segs[i].va <= a /\ a < segs[i].va + segs[i].fs /\ k \in Nat /\ segs[i].va + k = a /\ k < segs[i].fs
  BY <1>1
<1>5. /\ b \in place[i] .. place[i] + RoundUp(sizes[i]) - 1
      /\ b = a + (place[i] - segs[i].va) + gap(i, a)
  <2> HIDE DEF moved, gap
  <2>1. /\ b = a + (place[i] - segs[i].va) + gap(i, a) /\ b \in Int
        /\ place[i] <= b /\ b < place[i] + RoundUp(sizes[i])
    BY <1>3, <1>4
  <2> HIDE DEF b
  <2> QED BY <1>2, <2>1
<1> HIDE DEF moved
<1>6. b - NewBase \in 0 .. size - 1 /\ k \in 0 .. size
  <2>1. NewBase \in Nat /\ place[i] \in Nat /\ RoundUp(sizes[i]) \in Nat /\ place[i] >= NewBase
    BY <1>2, LayoutAssumption
  <2>2. place[i] + RoundUp(sizes[i]) <= NewBase + size
    BY DEF Roomy
  <2>3. b >= place[i] + k /\ b \in Int
    <3> DEFINE g == gap(i, a)
    <3>1. g \in Nat
      OBVIOUS
    <3>2. b = a + (place[i] - segs[i].va) + g /\ segs[i].va \in Nat /\ a \in Int
      BY <1>1, <1>4, <1>5
    <3> DEFINE p == place[i]
               va == segs[i].va
    <3>3. b = a + (p - va) + g /\ va \in Nat /\ a \in Int /\ p \in Nat /\ k = a - va
      BY <2>1, <3>2
    <3> HIDE DEF g, b, p, va, k
    <3>4. b >= p + k /\ b \in Int
      BY <3>1, <3>3
    <3> QED BY <3>4 DEF p
  <2>4. b < place[i] + RoundUp(sizes[i])
    <3> HIDE DEF b
    <3> QED BY <1>5, <2>1
  <2> DEFINE p == place[i]
             t == RoundUp(sizes[i])
  <2>5. p \in Nat /\ t \in Nat /\ p >= NewBase /\ p + t <= NewBase + size /\ b < p + t /\ b >= p + k
    BY <2>1, <2>2, <2>3, <2>4
  <2>6. k \in Nat
    BY <1>4
  <2> HIDE DEF b, k, p, t
  <2>7. b \in Int /\ NewBase \in Nat
    BY <2>1, <2>3
  <2>8. b - NewBase \in 0 .. size - 1
    BY <2>5, <2>6, <2>7, SMTT(30)
  <2>9. k <= size
    BY <2>5, <2>6, <2>7, SMTT(30)
  <2> QED BY <2>6, <2>8, <2>9
<1>7. <<i, k>> \in source
  <2> HIDE DEF k
  <2> QED BY <1>4, <1>6
<1> HIDE DEF source
<1>8. ASSUME NEW w \in source PROVE w = <<i, k>>
  <2> DEFINE j == w[1]
             m == w[2]
             x == segs[j].va + m
  <2>1. w = <<j, m>> /\ j \in DOMAIN segs /\ m \in 0 .. size /\ m < segs[j].fs /\ Amap(moved, x) = b
    BY DEF source
  <2> HIDE DEF j, m
  <2>2. x \in Int /\ segs[j].va <= x /\ x < segs[j].va + segs[j].fs
    <3> DEFINE v == segs[j].va
               f == segs[j].fs
    <3>1. v \in Nat /\ f \in Nat /\ m \in Nat /\ m < f
      BY <1>1, <2>1
    <3>2. x = v + m
      OBVIOUS
    <3> HIDE DEF v, f, x
    <3>3. x \in Int /\ v <= x /\ x < v + f
      BY <3>1, <3>2
    <3> QED BY <3>3 DEF v, f
  <2>3. /\ b = x + (place[j] - segs[j].va) + gap(j, x) /\ b \in Int
        /\ place[j] <= b /\ b < place[j] + RoundUp(sizes[j])
    <3> HIDE DEF x, gap, b
    <3> QED BY <1>3, <2>1, <2>2
  <2>4. i = j
    <3>1. b \in Int /\ place[i] <= b /\ b < place[i] + RoundUp(sizes[i])
      <4> HIDE DEF b
      <4> QED BY <1>2, <1>5
    <3> HIDE DEF b, gap, x
    <3> QED BY <1>1, <2>1, <2>3, <3>1, OneSlot
  <2>5. x + gap(i, x) = a + gap(i, a)
    <3> DEFINE g == gap(i, x)
               l == gap(i, a)
               d == place[i] - segs[i].va
    <3>1. g \in Nat /\ l \in Nat /\ d \in Int
      <4>1. place[i] \in Nat /\ segs[i].va \in Nat
        BY <1>1, <1>2
      <4>2. g \in Nat /\ l \in Nat
        OBVIOUS
      <4> HIDE DEF g, l
      <4> QED BY <4>1, <4>2
    <3>2. b = x + d + g /\ b = a + d + l
      <4> HIDE DEF b, x, gap
      <4> QED BY <1>5, <2>3, <2>4
    <3>3. x \in Int /\ a \in Int
      BY <1>4, <2>2
    <3> HIDE DEF b, x, g, l, d
    <3>4. x + g = a + l
      <4>1. x + d + g = a + d + l
        BY <3>2
      <4>2. x \in Int /\ d \in Int /\ g \in Int /\ a \in Int /\ l \in Int
        BY <3>1, <3>3
      <4> HIDE DEF gap, k
      <4> QED BY <4>1, <4>2, Cancel, SMTT(30)
    <3> QED BY <3>4 DEF g, l
  <2>6. x = a
    <3>1. i = at => split \in Int
      BY <1>1 DEF GoodGap, None
    <3> HIDE DEF x
    <3> QED BY <2>2, <2>5, <3>1, <1>4
  <2> QED BY <1>1, <1>4, <2>1, <2>4, <2>6
<1>9. source = {<<i, k>>}
  <2> HIDE DEF source, k
  <2> QED BY <1>7, <1>8
<1> DEFINE o == b - NewBase
           copied == CopiedFile(segs, file, moved, size)
<1>10. NewBase + o = b
  <2>1. b \in Int /\ NewBase \in Nat
    <3> HIDE DEF b
    <3> QED BY <1>2, <1>5, LayoutAssumption
  <2> HIDE DEF b
  <2> QED BY <2>1
<1>11. copied[o] = file[segs[i].fo + k] /\ o \in DOMAIN copied
  <2> DEFINE src(q) == {w \in (DOMAIN segs) \X (0 .. size) :
                          w[2] < segs[w[1]].fs /\ Amap(moved, segs[w[1]].va + w[2]) = NewBase + q}
             pick(q) == CHOOSE v \in src(q) : TRUE
             val(q) == IF src(q) = {} THEN Zero ELSE Content(file, segs[pick(q)[1]], pick(q)[2])
  <2>1. copied = [q \in 0 .. size - 1 |-> val(q)]
    BY DEF CopiedFile
  <2>2. src(o) = source
    BY <1>10 DEF source
  <2>3. o \in 0 .. size - 1
    BY <1>6
  <2>4. pick(o) = <<i, k>>
    <3> HIDE DEF src, source, k, o
    <3> QED BY <1>9, <2>2
  <2>5. val(o) = Content(file, segs[i], k)
    <3> HIDE DEF src, source, k, o, pick
    <3> QED BY <1>9, <2>2, <2>4
  <2> HIDE DEF val, o, copied, k
  <2> QED BY <2>1, <2>3, <2>5 DEF Content
<1> QED BY <1>5, <1>11 DEF moved, CopyIs

\* relayout_compact does what the compact layout is to do, whatever the segments
\* and the gap.
LEMMA CompactIs ==
  ASSUME NEW segs, GoodSegs(segs), NEW file, NEW at, NEW sect, NEW need \in Nat, NEW tail \in Nat,
         GoodGap(segs, at, IF at = None THEN None ELSE sect.addr + sect.size)
  PROVE  CompactOK(segs, file, RelayoutCompact(segs, file, at, sect, need, tail), need)
<1> DEFINE n == Len(segs)
           shift == IF at = None THEN 0 ELSE RoundUp(need)
           split == IF at = None THEN None ELSE sect.addr + sect.size
           gap(i) == IF i = at THEN shift ELSE 0
           more(i) == gap(i) + (IF segs[i].name = "__TEXT" THEN tail ELSE 0)
           sizes == [i \in DOMAIN segs |-> Span(segs[i]) + more(i)]
           place == Placement(sizes)
           moved == MovedRanges(segs, place, at, split, shift)
           size == place[n] + RoundUp(sizes[n]) - NewBase
           new(i) == [name |-> segs[i].name, va |-> place[i], fo |-> place[i] - NewBase,
                      vs |-> RoundUp(segs[i].vs + more(i)),
                      fs |-> IF segs[i].name = "__LINKEDIT" THEN segs[i].fs + more(i)
                             ELSE RoundUp(segs[i].fs + more(i))]
           R == RelayoutCompact(segs, file, at, sect, need, tail)
<1>1. /\ R.segs = [i \in DOMAIN segs |-> new(i)]
      /\ R.file = CopiedFile(segs, file, moved, size)
      /\ R.deltas = moved
      /\ R.pool = IF at = None THEN None ELSE split + (place[at] - segs[at].va)
  BY DEF RelayoutCompact
<1>2. /\ n \in Nat \ {0} /\ DOMAIN segs = 1 .. n
      /\ \A i \in 1 .. n : /\ segs[i].va \in Nat /\ segs[i].vs \in Nat /\ segs[i].fs \in Nat
                           /\ Span(segs[i]) = segs[i].vs /\ segs[i].fs <= segs[i].vs
  BY GoodSegIs DEF GoodSegs
<1>3. shift \in Nat /\ (at # None => need <= shift)
  BY RoundUpIs
<1>4. \A i \in 1 .. n : more(i) \in Nat /\ more(i) >= gap(i) /\ gap(i) \in Nat
  BY <1>3
<1>5. sizes \in [1 .. n -> Nat] /\ \A i \in 1 .. n : sizes[i] = segs[i].vs + more(i)
  <2>1. ASSUME NEW i \in 1 .. n PROVE Span(segs[i]) + more(i) \in Nat /\ Span(segs[i]) = segs[i].vs
    <3> HIDE DEF more
    <3> QED BY <1>2, <1>4
  <2> HIDE DEF more
  <2> QED BY <1>2, <2>1
<1> HIDE DEF sizes
<1>6. /\ \A i \in 1 .. n : place[i] \in Nat /\ place[i] >= NewBase /\ place[i] % PageWords = 0
      /\ \A i, j \in 1 .. n : i < j => place[i] + RoundUp(sizes[i]) <= place[j]
  <2> HIDE DEF n
  <2> QED BY <1>2, <1>5, PlacementIs
<1>7. \A i \in 1 .. n : sizes[i] \in Nat /\ RoundUp(sizes[i]) \in Nat /\ sizes[i] <= RoundUp(sizes[i])
  BY <1>5, RoundUpIs
<1> HIDE DEF place
<1>8. Slotted(place, sizes, n)
  BY <1>6, <1>7 DEF Slotted
<1>9. size \in Nat /\ \A i \in 1 .. n : place[i] + RoundUp(sizes[i]) <= NewBase + size
  <2> DEFINE e(i) == place[i] + RoundUp(sizes[i])
  <2>1. n \in 1 .. n /\ NewBase \in Nat
    BY <1>2, LayoutAssumption
  <2>2. \A i \in 1 .. n : e(i) \in Nat /\ place[i] \in Nat /\ place[i] <= e(i)
    BY <1>6, <1>7
  <2>3. place[n] >= NewBase
    BY <1>6, <2>1
  <2>4. size \in Nat /\ NewBase + size = e(n)
    <3>1. place[n] \in Nat /\ RoundUp(sizes[n]) \in Nat
      BY <1>6, <1>7, <2>1
    <3> QED BY <2>1, <2>3, <3>1
  <2>5. ASSUME NEW i \in 1 .. n PROVE e(i) <= e(n)
    <3>1. i < n => e(i) <= place[n]
      BY <1>6, <2>1
    <3>2. e(i) \in Nat /\ e(n) \in Nat /\ place[n] \in Nat /\ place[n] <= e(n)
      BY <2>1, <2>2
    <3> HIDE DEF e, n
    <3>3. CASE i = n
      BY <3>2, <3>3
    <3>4. CASE i # n
      BY <1>2, <3>1, <3>2, <3>4
    <3> QED BY <3>3, <3>4
  <2> HIDE DEF size
  <2> QED BY <2>4, <2>5
<1>10. Roomy(segs, at, shift, place, sizes, size)
  <2>1. ASSUME NEW i \in 1 .. n PROVE sizes[i] >= segs[i].vs + gap(i)
    <3>1. sizes[i] = segs[i].vs + more(i) /\ more(i) \in Nat /\ more(i) >= gap(i) /\ gap(i) \in Nat
          /\ segs[i].vs \in Nat
      <4> HIDE DEF more, gap
      <4> QED BY <1>2, <1>4, <1>5
    <3> HIDE DEF more, gap
    <3> QED BY <3>1
  <2> HIDE DEF size, n
  <2> QED BY <1>2, <1>9, <2>1 DEF Roomy
<1>11. \A i \in 1 .. n : R.segs[i].va = place[i] /\ R.segs[i].vs = RoundUp(sizes[i])
                         /\ R.segs[i].fo = place[i] - NewBase
  <2>1. ASSUME NEW i \in 1 .. n
        PROVE  new(i).va = place[i] /\ new(i).vs = RoundUp(sizes[i]) /\ new(i).fo = place[i] - NewBase
    <3>1. sizes[i] = segs[i].vs + more(i)
      BY <1>5
    <3> HIDE DEF more
    <3> QED BY <3>1
  <2> HIDE DEF new, R
  <2> QED BY <1>1, <1>2, <2>1
<1>12. DOMAIN R.segs = 1 .. n
  <2> HIDE DEF new, R
  <2> QED BY <1>1, <1>2
<1>13. Placed(R.segs)
  <2>1. ASSUME NEW i \in 1 .. n
        PROVE  /\ R.segs[i].va \in Nat /\ R.segs[i].vs \in Nat
               /\ R.segs[i].va % PageWords = 0 /\ R.segs[i].fo = R.segs[i].va - NewBase
    <3> HIDE DEF R, n
    <3> QED BY <1>6, <1>7, <1>11
  <2>2. ASSUME NEW i \in 1 .. n, NEW j \in 1 .. n, i < j
        PROVE  R.segs[i].va + R.segs[i].vs <= R.segs[j].va
    <3> HIDE DEF R, n
    <3> QED BY <1>6, <1>11, <2>2
  <2> HIDE DEF R, n
  <2> QED BY <1>2, <1>12, <2>1, <2>2 DEF Placed
<1>14. ASSUME NEW i \in 1 .. n, NEW b \in place[i] .. place[i] + RoundUp(sizes[i]) - 1
       PROVE  InSegs(R.segs, b)
  <2>1. i \in SegAt(R.segs, b)
    <3> HIDE DEF R, n
    <3> QED BY <1>11, <1>12 DEF SegAt
  <2> HIDE DEF R, n
  <2> QED BY <2>1 DEF InSegs
<1>15. ASSUME at # None
       PROVE  /\ at \in 1 .. n /\ split \in Int /\ segs[at].va <= split /\ split <= segs[at].va + segs[at].vs
              /\ R.pool \in Int /\ R.pool = split + (place[at] - segs[at].va)
              /\ place[at] <= R.pool /\ R.pool + need <= place[at] + RoundUp(sizes[at])
  <2>1. at \in 1 .. n /\ split \in Int /\ segs[at].va <= split /\ split <= segs[at].va + segs[at].vs
    BY <1>2, <1>15 DEF GoodGap
  <2>2. R.pool = split + (place[at] - segs[at].va)
    <3> HIDE DEF R, moved
    <3> QED BY <1>1, <1>15
  <2> DEFINE p == place[at]
             va == segs[at].va
             vs == segs[at].vs
             sz == sizes[at]
             t == RoundUp(sizes[at])
             P == R.pool
  <2>3. p \in Nat /\ va \in Nat /\ vs \in Nat /\ sz \in Nat /\ t \in Nat /\ sz <= t
    <3> HIDE DEF n
    <3> QED BY <1>2, <1>6, <1>7, <2>1
  <2>4. sz >= vs + shift
    <3> HIDE DEF shift, n
    <3> QED BY <1>2, <1>10, <2>1 DEF Roomy
  <2>5. need <= shift /\ shift \in Nat
    BY <1>3, <1>15
  <2>6. va <= split /\ split <= va + vs /\ split \in Int /\ P = split + (p - va)
    BY <2>1, <2>2
  <2>7. P \in Int /\ p <= P /\ P + need <= p + t
    <3> HIDE DEF p, va, vs, sz, t, P, shift, split, R
    <3> QED BY <2>3, <2>4, <2>5, <2>6
  <2> QED BY <2>1, <2>2, <2>7
<1>16. at = None => R.pool = None
  <2> HIDE DEF R, moved
  <2> QED BY <1>1
<1>17. ASSUME R.pool # None, NEW x \in R.pool .. R.pool + need - 1 PROVE InSegs(R.segs, x)
  <2>1. at # None
    BY <1>16, <1>17
  <2>2. place[at] \in Nat /\ RoundUp(sizes[at]) \in Nat /\ at \in 1 .. n
    <3> HIDE DEF n
    <3> QED BY <1>6, <1>7, <1>15, <2>1
  <2>3. R.pool \in Int /\ place[at] <= R.pool /\ R.pool + need <= place[at] + RoundUp(sizes[at])
    BY <1>15, <2>1
  <2> HIDE DEF R, n
  <2>4. x \in place[at] .. place[at] + RoundUp(sizes[at]) - 1
    BY <2>2, <2>3
  <2> QED BY <1>14, <2>2, <2>4
<1>18. ASSUME NEW i \in 1 .. n, NEW a \in segs[i].va .. segs[i].va + segs[i].fs - 1
       PROVE  /\ InSegs(R.segs, Amap(R.deltas, a))
              /\ Amap(R.deltas, a) - NewBase \in DOMAIN R.file
              /\ R.file[Amap(R.deltas, a) - NewBase] = file[segs[i].fo + (a - segs[i].va)]
              /\ R.pool # None => Amap(R.deltas, a) \notin R.pool .. R.pool + need - 1
  <2> DEFINE b == Amap(moved, a)
             copied == CopiedFile(segs, file, moved, size)
  <2>1. /\ b \in place[i] .. place[i] + RoundUp(sizes[i]) - 1
        /\ b = a + (place[i] - segs[i].va) + (IF i = at /\ a >= split THEN shift ELSE 0)
        /\ b - NewBase \in DOMAIN copied
        /\ copied[b - NewBase] = file[segs[i].fo + (a - segs[i].va)]
    <3>1. GoodGap(segs, at, split) /\ i \in DOMAIN segs /\ Slotted(place, sizes, Len(segs))
      BY <1>2, <1>8
    <3>2. shift \in Nat /\ size \in Nat
      BY <1>3, <1>9
    <3>3. CopyIs(segs, at, split, shift, place, sizes, file, size, i, a)
      <4> HIDE DEF shift, split, size, n
      <4> QED BY <1>10, <3>1, <3>2, CopiedIs
    <3> HIDE DEF shift, split, size, n
    <3> QED BY <3>3 DEF CopyIs
  <2>2. Amap(R.deltas, a) = b /\ R.file = copied
    <3> HIDE DEF R, moved
    <3> QED BY <1>1
  <2>3. InSegs(R.segs, b)
    <3> HIDE DEF b, R
    <3> QED BY <1>14, <2>1
  <2>4. ASSUME R.pool # None, b \in R.pool .. R.pool + need - 1 PROVE FALSE
    <3>1. at # None
      BY <1>16, <2>4
    <3>2. /\ at \in 1 .. n /\ split \in Int /\ segs[at].va <= split /\ split <= segs[at].va + segs[at].vs
          /\ R.pool \in Int /\ R.pool = split + (place[at] - segs[at].va)
          /\ place[at] <= R.pool /\ R.pool + need <= place[at] + RoundUp(sizes[at])
      BY <1>15, <3>1
    <3>3. place[at] \in Nat /\ RoundUp(sizes[at]) \in Nat /\ segs[at].va \in Nat
          /\ place[i] \in Nat /\ RoundUp(sizes[i]) \in Nat
      <4> HIDE DEF n, R, b
      <4> QED BY <1>2, <1>6, <1>7, <3>2
    <3> DEFINE P == R.pool
    <3>4. b \in Int /\ P \in Int /\ P <= b /\ b < P + need
      <4> HIDE DEF b, R
      <4> QED BY <2>4, <3>2
    <3>5. i = at
      <4>1. place[at] <= b /\ b < place[at] + RoundUp(sizes[at])
        <5> HIDE DEF b, R, n
        <5> QED BY <3>2, <3>3, <3>4
      <4>2. place[i] <= b /\ b < place[i] + RoundUp(sizes[i])
        <5> HIDE DEF b, R, n
        <5> QED BY <2>1, <3>3
      <4>3. n \in Nat
        BY <1>2
      <4> HIDE DEF b, R, n, P
      <4> QED BY <1>8, <3>2, <3>4, <4>1, <4>2, <4>3, OneSlot
    <3> DEFINE d == place[at] - segs[at].va
    <3>6. a \in Int /\ d \in Int /\ P = split + d /\ need <= shift /\ shift \in Nat /\ split \in Int
      <4>1. a \in Int
        BY <1>2
      <4> HIDE DEF shift, split, R, b
      <4> QED BY <1>3, <3>1, <3>2, <3>3, <4>1, SMTT(30)
    <3>7. b = a + d + (IF a >= split THEN shift ELSE 0)
      <4> HIDE DEF shift, split, R, b
      <4> QED BY <2>1, <3>5
    <3> HIDE DEF shift, split, R, b, d, P
    <3> QED BY <3>4, <3>6, <3>7
  <2> HIDE DEF R, b, copied
  <2> QED BY <2>1, <2>2, <2>3, <2>4
<1>19. R.pool \in Int
  <2>1. at # None => R.pool \in Int
    BY <1>15
  <2>2. None \in Int
    BY DEF None
  <2> HIDE DEF R
  <2> QED BY <1>16, <2>1, <2>2
<1> HIDE DEF R, n
<1> QED BY <1>2, <1>13, <1>17, <1>18, <1>19 DEF CompactOK, R

\* A finite function has finitely many values.
LEMMA FiniteRange ==
  ASSUME NEW f, IsFiniteSet(DOMAIN f)
  PROVE  IsFiniteSet({f[x] : x \in DOMAIN f})
<1> DEFINE T == {f[x] : x \in DOMAIN f}
           g == [x \in DOMAIN f |-> f[x]]
<1>1. g \in Surjection(DOMAIN f, T)
  BY DEF Surjection
<1> HIDE DEF T, g
<1>2. IsFiniteSet(T)
  BY <1>1, FS_Surjection
<1> QED BY <1>2 DEF T

\* Listing a finite set gives a sequence.
LEMMA ListedIs ==
  ASSUME NEW S, IsFiniteSet(S)
  PROVE  /\ Len(Listed(S)) \in Nat /\ DOMAIN Listed(S) = 1 .. Len(Listed(S))
         /\ Listed(S) \in Seq({Listed(S)[i] : i \in DOMAIN Listed(S)})
<1> DEFINE L == Listed(S)
           c == Cardinality(S)
           T == {L[i] : i \in DOMAIN L}
<1>1. c \in Nat
  BY FS_CardinalityType
<1>2. L = [i \in DOMAIN L |-> L[i]] /\ DOMAIN L = 1 .. c
  <2> DEFINE rest[n \in Nat] == IF n = 0 THEN S ELSE rest[n - 1] \ {CHOOSE x \in rest[n - 1] : TRUE}
             e(i) == CHOOSE x \in rest[i - 1] : TRUE
  <2>1. L = [i \in 1 .. c |-> e(i)]
    BY DEF Listed
  <2> HIDE DEF e, L, c
  <2> QED BY <2>1
<1> HIDE DEF L, c
<1>3. L \in [1 .. c -> T]
  BY <1>2
<1> HIDE DEF T
<1>4. L \in Seq(T)
  BY <1>1, <1>3
<1>5. Len(L) \in Nat /\ DOMAIN L = 1 .. Len(L)
  BY <1>4
<1> QED BY <1>4, <1>5 DEF L, T

\* The segments of an image are good segments.
LEMMA ImageIs ==
  ASSUME NEW image, ImageOK(image)
  PROVE  GoodSegs(image.segs)
  BY DEF ImageOK, GoodSegs

\* What an entry of the extracted file is: the word of its address.
Word(a) == IF a \in DOMAIN img.strs THEN [k |-> "str", s |-> img.strs[a]] ELSE [k |-> "raw", at |-> a]

\* The extracted file holds the word of every address of a segment.
LEMMA ExtractedIs ==
  ASSUME ImageOK(img), NEW i \in DOMAIN img.segs,
         NEW a \in img.segs[i].va .. img.segs[i].va + img.segs[i].fs - 1
  PROVE  ExtractedFile[img.segs[i].fo + (a - img.segs[i].va)] = Word(a)
<1> DEFINE segs == img.segs
           o == segs[i].fo + (a - segs[i].va)
           holds(s, q) == s.fo <= q /\ q < s.fo + s.fs
           pick(q) == CHOOSE s \in Range(segs) : holds(s, q)
           from(q) == pick(q).va + (q - pick(q).fo)
           D == UNION {s.fo .. s.fo + s.fs - 1 : s \in Range(segs)}
<1>1. \A j \in DOMAIN segs : segs[j].va \in Nat /\ segs[j].fo \in Nat /\ segs[j].fs \in Nat
  BY ImageIs, GoodSegIs
<1>2. Range(segs) = {segs[j] : j \in DOMAIN segs}
  BY DEF Range
<1>3. o \in Int /\ segs[i].fo <= o /\ o < segs[i].fo + segs[i].fs /\ a \in Int /\ a = segs[i].va + (o - segs[i].fo)
  <2> DEFINE fo == segs[i].fo
             va == segs[i].va
             fs == segs[i].fs
  <2>1. fo \in Nat /\ va \in Nat /\ fs \in Nat /\ a \in va .. va + fs - 1 /\ o = fo + (a - va)
    BY <1>1
  <2> HIDE DEF fo, va, fs, o
  <2>2. o \in Int /\ fo <= o /\ o < fo + fs /\ a \in Int /\ a = va + (o - fo)
    BY <2>1
  <2> QED BY <2>2 DEF fo, va, fs
<1>4. ASSUME NEW s \in Range(segs), holds(s, o) PROVE s = segs[i]
  <2>1. PICK j \in DOMAIN segs : s = segs[j]
    BY <1>2
  <2>2. j # i => Apart(segs[i].fo, segs[i].fs, segs[j].fo, segs[j].fs)
    BY DEF ImageOK
  <2>3. segs[j].fo <= o /\ o < segs[j].fo + segs[j].fs
    BY <1>4, <2>1
  <2>4. segs[j].fo \in Nat /\ segs[j].fs \in Nat /\ segs[i].fo \in Nat /\ segs[i].fs \in Nat
    BY <1>1
  <2> HIDE DEF o
  <2>5. j = i
    BY <1>3, <2>2, <2>3, <2>4 DEF Apart
  <2> QED BY <2>1, <2>5
<1>5. segs[i] \in Range(segs) /\ holds(segs[i], o)
  BY <1>2, <1>3
<1>6. pick(o) = segs[i]
  <2> HIDE DEF holds, o
  <2> QED BY <1>4, <1>5
<1>7. from(o) = a
  <2> HIDE DEF pick, o
  <2> QED BY <1>3, <1>6
<1>8. o \in D
  <2>1. o \in segs[i].fo .. segs[i].fo + segs[i].fs - 1
    <3> HIDE DEF o
    <3> QED BY <1>1, <1>3
  <2> HIDE DEF o
  <2> QED BY <1>5, <2>1
<1>9. ExtractedFile = [q \in D |-> Word(from(q))]
  BY DEF ExtractedFile, Word
<1> HIDE DEF from, D, o
<1>10. ExtractedFile[o] = Word(from(o))
  BY <1>8, <1>9
<1> QED BY <1>7, <1>10 DEF o

\* The pool that was planned: how many words, and behind which section.
PoolOK ==
  /\ Len(pool.sel) \in Nat /\ Len(pool.bsel) \in Nat /\ Len(pool.syms) \in Nat
  /\ Len(pool.blob) \in Nat /\ DOMAIN pool.blob = 1 .. Len(pool.blob)
  /\ pool.sect # "none" => pool.sect \in Hosts \cap DOMAIN img.sects

\* The collected tables are finite, so that the pool is.
RefsOK == IsFiniteSet(DOMAIN refs.auth) /\ IsFiniteSet(DOMAIN refs.br)

\* The words of the pool: slots, then string copies.
PoolWords == SlotWords + Len(pool.blob)

\* The rebuilt image, whose words at the addresses in `gone` are fixups by now.
Arranged(layout, gone) ==
  LET at(a) == Amap(layout.deltas, a)
      words == layout.pool .. layout.pool + PoolWords - 1
  IN  /\ DOMAIN layout = {"segs", "file", "deltas", "pool"}
      /\ Placed(layout.segs) /\ layout.pool \in Int
      /\ \A i \in DOMAIN img.segs : \A a \in img.segs[i].va .. img.segs[i].va + img.segs[i].fs - 1 :
           /\ InSegs(layout.segs, at(a))
           /\ at(a) - NewBase \in DOMAIN layout.file
           /\ at(a) \notin gone => layout.file[at(a) - NewBase] = Word(a)
           /\ layout.pool # None => at(a) \notin words
      /\ layout.pool # None => \A x \in words : InSegs(layout.segs, x)
LaidOut(gone) == Arranged(lay, gone)

\* The inductive invariant: each stage hands the next what it needs of the layout.
LayoutInv ==
  /\ img \in Images
  /\ pc \in {"refs", "pool"} => fx \subseteq img.slides
  /\ compact =>
       /\ pc \in {"pool", "layout"} => RefsOK
       /\ pc \in Stages \ {"collect", "refs", "pool", "failed"} => PoolOK
       /\ pc \in {"code", "methods", "resolve", "trie", "weave"} => LaidOut({})
       /\ pc \in {"splice", "done"} => LaidOut(DOMAIN entries)
  /\ HeaderRoom

\* One lemma per stage of main().
LEMMA LayoutInit == UncacheInit => LayoutInv
  BY DEF UncacheInit, LayoutInv, HeaderRoom, Done, Stages

LEMMA CollectFixupsInv ==
  ASSUME LayoutInv, CollectFixups
  PROVE  LayoutInv'
<1>1. img' = img /\ header' = header /\ pc' \in {"refs", "failed"}
  BY DEF CollectFixups, Fail
<1>2. fx' \subseteq img.slides \/ pc' = "failed"
  BY DEF CollectFixups, ImagePointers, Fail
<1>3. HeaderRoom'
  BY <1>1 DEF HeaderRoom, Done
<1> QED BY <1>1, <1>2, <1>3 DEF LayoutInv, compact

LEMMA CollectRefsInv ==
  ASSUME LayoutInv, CollectRefs
  PROVE  LayoutInv'
<1>1. img' = img /\ fx' = fx /\ pc' \in {"pool", "failed"} /\ pc = "refs"
  BY DEF CollectRefs, Fail
<1>2. HeaderRoom'
  BY <1>1 DEF HeaderRoom, Done
<1>3. ASSUME compact, pc' = "pool" PROVE RefsOK'
  <2> DEFINE named == Range(GotTargets) \cup Range(Personalities) \cup Range(LsdaSymbols)
                        \cup {BranchName(ExternalBranches[p]) : p \in DOMAIN ExternalBranches}
  <2>1. refs'.br = ExternalBranches /\ DOMAIN refs'.auth = named \ {NoName}
    <3> HIDE DEF compact
    <3> QED BY <1>3 DEF CollectRefs, Fail
  <2>2. ImageOK(img)
    BY ImagesAssumption DEF LayoutInv
  <2>3. IsFiniteSet(DOMAIN ExternalBranches)
    <3>1. DOMAIN <<>> = {}
      OBVIOUS
    <3> QED BY <2>2, <3>1, FS_EmptySet DEF ExternalBranches, ImageOK
  <2>4. IsFiniteSet(Range(GotTargets))
    <3> DEFINE f == [i \in OutRefs |-> img.got[i].target]
    <3>1. IsFiniteSet(OutRefs)
      <4>1. OutRefs \in SUBSET DOMAIN img.got /\ IsFiniteSet(DOMAIN img.got)
        BY <2>2 DEF OutRefs, ImageOK
      <4> QED BY <4>1, FS_Subset
    <3>2. IsFiniteSet({f[i] : i \in DOMAIN f})
      <4>1. IsFiniteSet(DOMAIN f)
        BY <3>1
      <4> HIDE DEF f
      <4> QED BY <4>1, FiniteRange
    <3>3. {f[i] : i \in DOMAIN f} = {img.got[i].target : i \in OutRefs}
      OBVIOUS
    <3>4. IsFiniteSet(DOMAIN GotTargets)
      BY <3>2, <3>3 DEF GotTargets
    <3> QED BY <3>4, FiniteRange DEF Range
  <2>5. IsFiniteSet(Range(Personalities))
    <3>1. IsFiniteSet(DOMAIN Personalities)
      BY <2>2 DEF Personalities, ImageOK
    <3> QED BY <3>1, FiniteRange DEF Range
  <2>6. IsFiniteSet(Range(LsdaSymbols))
    <3> DEFINE f == [i \in UsedTypes(img.lsda) |-> img.lsda.types[i]]
    <3>1. IsFiniteSet(UsedTypes(img.lsda))
      <4>1. UsedTypes(img.lsda) \in SUBSET DOMAIN img.lsda.types /\ IsFiniteSet(DOMAIN img.lsda.types)
        BY <2>2 DEF UsedTypes, ImageOK
      <4> QED BY <4>1, FS_Subset
    <3>2. IsFiniteSet({f[i] : i \in DOMAIN f})
      <4>1. IsFiniteSet(DOMAIN f)
        BY <3>1
      <4> HIDE DEF f
      <4> QED BY <4>1, FiniteRange
    <3>3. {f[i] : i \in DOMAIN f} = {img.lsda.types[i] : i \in UsedTypes(img.lsda)}
      OBVIOUS
    <3>4. IsFiniteSet(DOMAIN LsdaSymbols)
      BY <3>2, <3>3, FS_EmptySet DEF LsdaSymbols, LsdaRefs
    <3> QED BY <3>4, FiniteRange DEF Range
  <2>7. IsFiniteSet({BranchName(ExternalBranches[p]) : p \in DOMAIN ExternalBranches})
    <3> DEFINE f == [p \in DOMAIN ExternalBranches |-> BranchName(ExternalBranches[p])]
    <3>1. IsFiniteSet({f[p] : p \in DOMAIN f})
      <4>1. IsFiniteSet(DOMAIN f)
        BY <2>3
      <4> HIDE DEF f
      <4> QED BY <4>1, FiniteRange
    <3>2. {f[p] : p \in DOMAIN f} = {BranchName(ExternalBranches[p]) : p \in DOMAIN ExternalBranches}
      OBVIOUS
    <3> QED BY <3>1, <3>2
  <2>8. IsFiniteSet(named)
    <3>1. \A S, T : IsFiniteSet(S) /\ IsFiniteSet(T) => IsFiniteSet(S \cup T)
      BY FS_Union
    <3> QED BY <2>4, <2>5, <2>6, <2>7, <3>1
  <2>9. IsFiniteSet(named \ {NoName})
    <3> HIDE DEF named
    <3> QED BY <2>8, FS_RemoveElement
  <2> QED BY <2>1, <2>3, <2>9 DEF RefsOK
<1> QED BY <1>1, <1>2, <1>3 DEF LayoutInv, compact

LEMMA PlanPoolInv ==
  ASSUME LayoutInv, PlanPool
  PROVE  LayoutInv'
<1>1. img' = img /\ refs' = refs /\ pc' = "layout" /\ pc = "pool"
  BY DEF PlanPool
<1>2. HeaderRoom'
  BY <1>1 DEF HeaderRoom, Done
<1>3. ASSUME compact PROVE RefsOK' /\ PoolOK'
  <2>1. ImageOK(img) /\ RefsOK /\ fx \subseteq img.slides
    BY <1>1, <1>3, ImagesAssumption DEF LayoutInv
  <2>2. RefsOK'
    BY <1>1, <2>1 DEF RefsOK
  <2> DEFINE sels == {m.sel : m \in RelMethods}
             brNames == {a2s(refs.br[p]).base : p \in DOMAIN refs.br}
             bsels == {MsgSend[b] : b \in brNames \cap DOMAIN MsgSend}
             copied == IF modern /\ compact
                       THEN {t \in {f.t : f \in fx} : ~InImg(t) /\ read_cstr(t) # NoStr} ELSE {}
             blobs == {read_cstr(t) : t \in copied} \cup Range(Listed(bsels))
             hosts == PoolHosts(Listed(sels) \o Listed(bsels))
             found == {i \in DOMAIN hosts : HasSect(hosts[i])}
  <2>3. /\ pool'.sel = Listed(sels) /\ pool'.bsel = Listed(bsels)
        /\ pool'.syms = Listed(DOMAIN refs.auth) /\ pool'.blob = Listed(blobs)
        /\ pool'.sect # "none" => found # {} /\ pool'.sect = hosts[Least(found)]
    <3>1. sels = {m.sel : m \in RelMethods}
      OBVIOUS
    <3> HIDE DEF compact
    <3> QED BY <1>3 DEF PlanPool
  <2>4. IsFiniteSet(sels)
    <3> DEFINE all == UNION {l.methods : l \in UNION {img.lists[o] : o \in MethodOwners}}
               f == [m \in RelMethods |-> m.sel]
    <3>1. RelMethods \in SUBSET all
      BY DEF RelMethods
    <3>2. IsFiniteSet(all)
      BY <2>1 DEF ImageOK
    <3> HIDE DEF all
    <3>3. IsFiniteSet(DOMAIN f)
      <4>1. IsFiniteSet(RelMethods)
        BY <3>1, <3>2, FS_Subset
      <4> QED BY <4>1
    <3>4. {f[m] : m \in DOMAIN f} = sels
      OBVIOUS
    <3> HIDE DEF f, sels
    <3>5. IsFiniteSet({f[m] : m \in DOMAIN f})
      BY <3>3, FiniteRange
    <3> QED BY <3>4, <3>5
  <2>5. IsFiniteSet(bsels)
    <3>1. IsFiniteSet({"init"})
      BY FS_Singleton
    <3>2. bsels \in SUBSET {"init"}
      BY DEF MsgSend
    <3> HIDE DEF bsels
    <3> QED BY <3>1, <3>2, FS_Subset
  <2>6. IsFiniteSet(blobs)
    <3>1. IsFiniteSet(fx)
      BY <2>1, FS_Subset DEF ImageOK
    <3> DEFINE f == [x \in fx |-> read_cstr(x.t)]
    <3>2. IsFiniteSet({f[x] : x \in DOMAIN f})
      <4>1. IsFiniteSet(DOMAIN f)
        BY <3>1
      <4> HIDE DEF f
      <4> QED BY <4>1, FiniteRange
    <3>3. {read_cstr(t) : t \in copied} \in SUBSET {f[x] : x \in DOMAIN f}
      <4> SUFFICES ASSUME NEW t \in copied PROVE \E x \in fx : f[x] = read_cstr(t)
        OBVIOUS
      <4>1. \E x \in fx : t = x.t
        OBVIOUS
      <4> QED BY <4>1
    <3>4. IsFiniteSet({read_cstr(t) : t \in copied})
      <4> HIDE DEF copied, f
      <4> QED BY <3>2, <3>3, FS_Subset
    <3>5. IsFiniteSet(Range(Listed(bsels)))
      <4> DEFINE L == Listed(bsels)
      <4> HIDE DEF bsels
      <4>1. Len(L) \in Nat /\ DOMAIN L = 1 .. Len(L)
        BY <2>5, ListedIs
      <4> HIDE DEF L
      <4>2. IsFiniteSet(DOMAIN L)
        BY <4>1, FS_Interval
      <4>3. IsFiniteSet({L[x] : x \in DOMAIN L})
        BY <4>2, FiniteRange
      <4> QED BY <4>3 DEF Range, L
    <3> HIDE DEF copied, bsels
    <3> QED BY <3>4, <3>5, FS_Union
  <2>7. ASSUME pool'.sect # "none" PROVE pool'.sect \in Hosts \cap DOMAIN img.sects
    <3>1. found \in SUBSET Nat /\ \A i \in found : hosts[i] \in Hosts /\ hosts[i] \in DOMAIN img.sects
      <4>1. hosts \in Seq(Hosts)
        <5> DEFINE s == Listed(sels) \o Listed(bsels)
        <5> HIDE DEF s
        <5>1. <<"__objc_selrefs">> \in Seq(Hosts)
          BY DEF Hosts
        <5>2. <<>> \in Seq(Hosts)
          OBVIOUS
        <5>3. <<"__got", "__data">> \in Seq(Hosts)
          BY DEF Hosts
        <5>4. \A x, y \in Seq(Hosts) : x \o y \in Seq(Hosts)
          OBVIOUS
        <5>5. PoolHosts(s) = (IF s # <<>> THEN <<"__objc_selrefs">> ELSE <<>>) \o <<"__got", "__data">>
          BY DEF PoolHosts
        <5>6. PoolHosts(s) \in Seq(Hosts)
          BY <5>1, <5>2, <5>3, <5>4, <5>5
        <5> QED BY <5>6 DEF s
      <4>2. found \in SUBSET DOMAIN hosts /\ \A i \in found : HasSect(hosts[i])
        OBVIOUS
      <4> HIDE DEF hosts, found
      <4>3. DOMAIN hosts \in SUBSET Nat /\ \A i \in DOMAIN hosts : hosts[i] \in Hosts
        BY <4>1
      <4> QED BY <4>2, <4>3 DEF HasSect
    <3>2. found # {} /\ pool'.sect = hosts[Least(found)]
      BY <2>3, <2>7
    <3> HIDE DEF found, hosts
    <3>3. Least(found) \in found
      BY <3>1, <3>2, LeastIs
    <3> QED BY <3>1, <3>2, <3>3
  <2> HIDE DEF sels, bsels, blobs, hosts, found
  <2>8. /\ Len(pool'.sel) \in Nat /\ Len(pool'.bsel) \in Nat /\ Len(pool'.syms) \in Nat
        /\ Len(pool'.blob) \in Nat /\ DOMAIN pool'.blob = 1 .. Len(pool'.blob)
    <3>1. IsFiniteSet(DOMAIN refs.auth)
      BY <2>1 DEF RefsOK
    <3>2. \A S : IsFiniteSet(S) => Len(Listed(S)) \in Nat /\ DOMAIN Listed(S) = 1 .. Len(Listed(S))
      BY ListedIs
    <3> QED BY <2>3, <2>4, <2>5, <2>6, <3>1, <3>2
  <2> QED BY <1>1, <2>2, <2>7, <2>8 DEF PoolOK
<1> QED BY <1>1, <1>2, <1>3 DEF LayoutInv, compact, Stages

\* The room for branch islands is a number of words.
LEMMA BranchSpaceIs ==
  ASSUME RefsOK
  PROVE  BranchSpace \in Nat
<1> DEFINE S == {refs.br[p] : p \in DOMAIN refs.br}
<1>1. IsFiniteSet(S)
  BY FiniteRange DEF RefsOK
<1> HIDE DEF S
<1>2. Cardinality(S) \in Nat
  BY <1>1, FS_CardinalityType
<1>3. BranchSpace = IF Cardinality(S) = 0 THEN 0 ELSE Cardinality(S) * StubWords + 1
  BY DEF BranchSpace, S
<1> QED BY <1>2, <1>3 DEF StubWords

LEMMA LayoutStepInv ==
  ASSUME LayoutInv, Layout
  PROVE  LayoutInv'
<1>1. /\ img' = img /\ pool' = pool /\ pc' \in {"code", "failed"} /\ pc = "layout"
  BY DEF Layout, Fail
<1>2. HeaderRoom'
  BY <1>1 DEF HeaderRoom, Done
<1>3. ASSUME compact, pc' = "code" PROVE PoolOK' /\ LaidOut({})'
  <2> DEFINE host == IF pool.sect = "none" THEN None
                     ELSE Least(SegAt(img.segs, img.sects[pool.sect].addr))
             sect == IF pool.sect = "none" THEN Nil ELSE img.sects[pool.sect]
             need == SlotWords + Len(pool.blob)
             split == IF host = None THEN None ELSE sect.addr + sect.size
             R == RelayoutCompact(img.segs, ExtractedFile, host, sect, need, BranchSpace)
  <2>1. lay' = R
    <3>1. pc' # "failed" /\ img.mode # "pad"
      BY <1>3 DEF compact
    <3> DEFINE P == RelayoutPad(img.segs, ExtractedFile)
               Q == RelayoutPlain(img.segs, ExtractedFile)
    <3>2. lay' = CASE compact -> R [] img.mode = "pad" -> P [] OTHER -> Q
      BY <3>1 DEF Layout, Fail
    <3> HIDE DEF R, P, Q
    <3> QED BY <1>3, <3>1, <3>2
  <2>2. ImageOK(img) /\ RefsOK /\ PoolOK
    BY <1>1, <1>3, ImagesAssumption DEF LayoutInv, Stages
  <2>3. PoolOK'
    BY <1>1, <2>2 DEF PoolOK
  <2>4. need \in Nat /\ BranchSpace \in Nat
    <3>1. need \in Nat
      <4>1. /\ Len(pool.sel) \in Nat /\ Len(pool.bsel) \in Nat /\ Len(pool.syms) \in Nat
            /\ Len(pool.blob) \in Nat
        BY <2>2 DEF PoolOK
      <4>2. need = Len(pool.sel) + Len(pool.bsel) + Len(pool.syms) + Len(pool.blob)
        BY DEF SlotWords, SelCount
      <4>3. \A k, l, m, n \in Nat : k + l + m + n \in Nat
        OBVIOUS
      <4> HIDE DEF need
      <4> QED BY <4>1, <4>2, <4>3, Zenon
    <3>2. BranchSpace \in Nat
      BY <2>2, BranchSpaceIs
    <3> QED BY <3>1, <3>2
  <2>5. GoodSegs(img.segs)
    BY <2>2, ImageIs
  <2>6. GoodGap(img.segs, host, split)
    <3>1. CASE pool.sect = "none"
      BY <3>1 DEF GoodGap
    <3>2. CASE pool.sect # "none"
      <4>1. pool.sect \in Hosts \cap DOMAIN img.sects
        BY <2>2, <3>2 DEF PoolOK
      <4>2. sect.addr \in Nat /\ sect.size \in Nat
        BY <2>2, <3>2, <4>1 DEF ImageOK
      <4>3. PICK i \in SegAt(img.segs, sect.addr) :
               sect.addr + sect.size <= img.segs[i].va + img.segs[i].fs
        BY <2>2, <3>2, <4>1 DEF ImageOK
      <4> DEFINE S == SegAt(img.segs, sect.addr)
      <4>4. S \in SUBSET Nat /\ S # {}
        <5>1. DOMAIN img.segs \in SUBSET Nat
          BY <2>5, GoodSegIs
        <5>2. S \in SUBSET DOMAIN img.segs
          BY DEF SegAt
        <5> HIDE DEF S
        <5> QED BY <4>3, <5>1, <5>2 DEF S
      <4>5. host \in S
        <5>1. Least(S) \in S
          <6> HIDE DEF S
          <6> QED BY <4>4, LeastIs
        <5>2. host = Least(S)
          BY <3>2
        <5> QED BY <5>1, <5>2
      <4> HIDE DEF host, sect
      <4>6. \A j \in S : /\ j \in DOMAIN img.segs /\ img.segs[j].va <= sect.addr
                         /\ sect.addr < img.segs[j].va + img.segs[j].vs
                         /\ img.segs[j].va \in Nat /\ img.segs[j].vs \in Nat
        <5> SUFFICES ASSUME NEW j \in S
                     PROVE  /\ j \in DOMAIN img.segs /\ img.segs[j].va <= sect.addr
                            /\ sect.addr < img.segs[j].va + img.segs[j].vs
                            /\ img.segs[j].va \in Nat /\ img.segs[j].vs \in Nat
          OBVIOUS
        <5>1. j \in DOMAIN img.segs /\ sect.addr \in img.segs[j].va .. img.segs[j].va + img.segs[j].vs - 1
          BY DEF SegAt
        <5>2. img.segs[j].va \in Nat /\ img.segs[j].vs \in Nat
          BY <2>5, <5>1, GoodSegIs
        <5> QED BY <4>2, <5>1, <5>2
      <4>7. host = i
        <5>1. sect.addr \in Int /\ i \in S
          BY <4>2, <4>3
        <5> HIDE DEF S
        <5> QED BY <2>5, <4>5, <4>6, <5>1, OneSegment
      <4>8. host # None
        BY <4>4, <4>5 DEF None
      <4>9. img.segs[host].va <= sect.addr + sect.size /\ sect.addr + sect.size \in Int /\ host \in DOMAIN img.segs
        <5> HIDE DEF S
        <5> QED BY <4>2, <4>5, <4>6
      <4>10. sect.addr + sect.size <= img.segs[host].va + img.segs[host].vs
        <5>1. img.segs[host].fs <= img.segs[host].vs /\ img.segs[host].fs \in Nat
              /\ img.segs[host].vs \in Nat /\ img.segs[host].va \in Nat
          BY <2>2, <2>5, <4>9, GoodSegIs DEF ImageOK
        <5>2. sect.addr + sect.size <= img.segs[host].va + img.segs[host].fs
          BY <4>3, <4>7
        <5> QED BY <4>9, <5>1, <5>2
      <4> QED BY <4>8, <4>9, <4>10 DEF GoodGap
    <3> QED BY <3>1, <3>2
  <2>7. CompactOK(img.segs, ExtractedFile, R, need)
    <3> HIDE DEF host, sect, need
    <3> QED BY <2>4, <2>5, <2>6, CompactIs
  <2>8. DOMAIN lay' = {"segs", "file", "deltas", "pool"}
    <3>1. DOMAIN R = {"segs", "file", "deltas", "pool"}
      <4> HIDE DEF host, sect, need
      <4> QED BY DEF RelayoutCompact
    <3> HIDE DEF R
    <3> QED BY <2>1, <3>1
  <2>9. PoolWords' = need
    BY <1>1 DEF PoolWords, SlotWords, SelCount
  <2>11. ASSUME NEW i \in DOMAIN img.segs, NEW a \in img.segs[i].va .. img.segs[i].va + img.segs[i].fs - 1
         PROVE  /\ InSegs(R.segs, Amap(R.deltas, a))
                /\ Amap(R.deltas, a) - NewBase \in DOMAIN R.file
                /\ R.file[Amap(R.deltas, a) - NewBase] = Word(a)
                /\ R.pool # None => Amap(R.deltas, a) \notin R.pool .. R.pool + need - 1
    <3> HIDE DEF R, need
    <3> QED BY <2>2, <2>7, ExtractedIs DEF CompactOK
  <2>12. Placed(R.segs) /\ R.pool \in Int /\ (R.pool # None => \A x \in R.pool .. R.pool + need - 1 : InSegs(R.segs, x))
    <3> HIDE DEF R, need
    <3> QED BY <2>7 DEF CompactOK
  <2>13. \A a : Word(a)' = Word(a)
    BY <1>1 DEF Word
  <2>14. LaidOut({})'
    <3> HIDE DEF R, need
    <3> QED BY <1>1, <2>1, <2>8, <2>9, <2>11, <2>12, <2>13 DEF LaidOut, Arranged
  <2> QED BY <2>3, <2>14
<1> QED BY <1>1, <1>2, <1>3 DEF LayoutInv, compact, Stages

\* A step that leaves the layout and the pool alone leaves the image laid out.
LEMMA StaysLaidOut ==
  ASSUME img' = img, pool' = pool, lay' = lay
  PROVE  /\ PoolOK => PoolOK'
         /\ LaidOut({}) => LaidOut({})'
         /\ entries' = entries => (LaidOut(DOMAIN entries) => LaidOut(DOMAIN entries)')
<1>1. PoolOK => PoolOK'
  BY DEF PoolOK
<1>2. PoolWords' = PoolWords /\ \A a : Word(a)' = Word(a)
  BY DEF PoolWords, SlotWords, SelCount, Word
<1>3. LaidOut({}) => LaidOut({})'
  BY <1>2, SMTT(30) DEF LaidOut, Arranged
<1>4. ASSUME entries' = entries PROVE LaidOut(DOMAIN entries) => LaidOut(DOMAIN entries)'
  BY <1>2, <1>4, SMTT(30) DEF LaidOut, Arranged
<1> QED BY <1>1, <1>3, <1>4

LEMMA RepointCodeInv ==
  ASSUME LayoutInv, RepointCode
  PROVE  LayoutInv'
<1>1. img' = img /\ pool' = pool /\ lay' = lay /\ pc' \in {"methods", "failed"} /\ pc = "code"
  BY DEF RepointCode, Fail
<1>2. HeaderRoom'
  BY <1>1 DEF HeaderRoom, Done
<1>3. ASSUME compact PROVE PoolOK' /\ LaidOut({})'
  <2>1. PoolOK /\ LaidOut({})
    BY <1>1, <1>3 DEF LayoutInv, Stages
  <2> QED BY <1>1, <2>1, StaysLaidOut
<1> QED BY <1>1, <1>2, <1>3 DEF LayoutInv, compact, Stages

LEMMA EmitEntriesInv ==
  ASSUME LayoutInv, EmitEntries
  PROVE  LayoutInv'
<1>1. img' = img /\ pool' = pool /\ lay' = lay /\ pc' \in {"trie", "failed"} /\ pc = "resolve"
  BY DEF EmitEntries, Fail
<1>2. HeaderRoom'
  BY <1>1 DEF HeaderRoom, Done
<1>3. ASSUME compact PROVE PoolOK' /\ LaidOut({})'
  <2>1. PoolOK /\ LaidOut({})
    BY <1>1, <1>3 DEF LayoutInv, Stages
  <2> QED BY <1>1, <2>1, StaysLaidOut
<1> QED BY <1>1, <1>2, <1>3 DEF LayoutInv, compact, Stages

LEMMA FixExportTrieInv ==
  ASSUME LayoutInv, FixExportTrie
  PROVE  LayoutInv'
<1>1. img' = img /\ pool' = pool /\ lay' = lay /\ pc' = "weave" /\ pc = "trie"
  BY DEF FixExportTrie
<1>2. HeaderRoom'
  BY <1>1 DEF HeaderRoom, Done
<1>3. ASSUME compact PROVE PoolOK' /\ LaidOut({})'
  <2>1. PoolOK /\ LaidOut({})
    BY <1>1, <1>3 DEF LayoutInv, Stages
  <2> QED BY <1>1, <2>1, StaysLaidOut
<1> QED BY <1>1, <1>2, <1>3 DEF LayoutInv, compact, Stages

\* Writing to the file moves nothing: the image stays laid out if the words
\* outside `gone` are kept.
Rewritten(F, gone) ==
  /\ DOMAIN F = DOMAIN lay.file
  /\ \A i \in DOMAIN img.segs : \A a \in img.segs[i].va .. img.segs[i].va + img.segs[i].fs - 1 :
       amap(a) \notin gone => F[amap(a) - NewBase] = lay.file[amap(a) - NewBase]

LEMMA LaidOutKept ==
  ASSUME NEW gone, LaidOut({}), img' = img, pool' = pool,
         NEW F, lay' = [lay EXCEPT !.file = F], Rewritten(F, gone)
  PROVE  Arranged(lay', gone)
<1>1. DOMAIN lay = {"segs", "file", "deltas", "pool"}
  BY DEF LaidOut, Arranged
<1>2. lay'.segs = lay.segs /\ lay'.deltas = lay.deltas /\ lay'.pool = lay.pool /\ lay'.file = F
      /\ DOMAIN lay' = {"segs", "file", "deltas", "pool"}
  BY <1>1
<1>3. /\ Placed(lay.segs) /\ lay.pool \in Int
      /\ lay.pool # None => \A x \in lay.pool .. lay.pool + PoolWords - 1 : InSegs(lay.segs, x)
  BY DEF LaidOut, Arranged
<1>4. ASSUME NEW i \in DOMAIN img.segs, NEW a \in img.segs[i].va .. img.segs[i].va + img.segs[i].fs - 1
      PROVE  /\ InSegs(lay.segs, Amap(lay.deltas, a))
             /\ Amap(lay.deltas, a) - NewBase \in DOMAIN F
             /\ Amap(lay.deltas, a) \notin gone => F[Amap(lay.deltas, a) - NewBase] = Word(a)
             /\ lay.pool # None => Amap(lay.deltas, a) \notin lay.pool .. lay.pool + PoolWords - 1
  BY <1>4 DEF LaidOut, Arranged, Rewritten, amap
<1> QED BY <1>2, <1>3, <1>4 DEF Arranged

LEMMA RepointMethodsInv ==
  ASSUME LayoutInv, RepointMethods
  PROVE  LayoutInv'
<1>1. img' = img /\ pool' = pool /\ pc' = "resolve" /\ pc = "methods"
  BY DEF RepointMethods
<1>2. HeaderRoom'
  BY <1>1 DEF HeaderRoom, Done
<1>3. ASSUME compact PROVE PoolOK' /\ LaidOut({})'
  <2>1. PoolOK /\ LaidOut({})
    BY <1>1, <1>3 DEF LayoutInv, Stages
  <2> DEFINE base == AddrToOff(lay.segs, StringBase)
             strOffs == IF compact /\ lay.pool # None THEN {base + i - 1 : i \in DOMAIN pool.blob} ELSE {}
             F == [o \in DOMAIN lay.file |->
                     IF o \in strOffs THEN [k |-> "str", s |-> pool.blob[o - base + 1]] ELSE lay.file[o]]
  <2>2. lay' = [lay EXCEPT !.file = F]
    <3> HIDE DEF compact
    <3> QED BY DEF RepointMethods
  <2>3. /\ Len(pool.sel) \in Nat /\ Len(pool.bsel) \in Nat /\ Len(pool.syms) \in Nat
        /\ Len(pool.blob) \in Nat /\ DOMAIN pool.blob = 1 .. Len(pool.blob)
    BY <2>1 DEF PoolOK
  <2> DEFINE w == SlotWords
             n == Len(pool.blob)
             P == lay.pool
  <2>4. w \in Nat /\ n \in Nat /\ PoolWords = w + n /\ StringBase = P + w
    <3>1. \A k, l, m \in Nat : k + l + m \in Nat
      OBVIOUS
    <3>2. w = Len(pool.sel) + Len(pool.bsel) + Len(pool.syms)
      BY DEF SlotWords, SelCount
    <3>3. w \in Nat
      <4> HIDE DEF w
      <4> QED BY <2>3, <3>1, <3>2, Zenon
    <3> QED BY <2>3, <3>3 DEF PoolWords, StringBase
  <2>5. ASSUME NEW i \in DOMAIN img.segs,
               NEW a \in img.segs[i].va .. img.segs[i].va + img.segs[i].fs - 1
        PROVE  F[amap(a) - NewBase] = lay.file[amap(a) - NewBase]
    <3> DEFINE b == amap(a)
    <3>1. /\ b - NewBase \in DOMAIN lay.file
          /\ P # None => b \notin P .. P + PoolWords - 1
          /\ InSegs(lay.segs, b) /\ Placed(lay.segs) /\ P \in Int
          /\ P # None => \A x \in P .. P + PoolWords - 1 : InSegs(lay.segs, x)
      BY <2>1 DEF LaidOut, Arranged, amap
    <3>2. b \in Int /\ NewBase \in Nat
      <4> HIDE DEF b
      <4> QED BY <3>1, AddrToOffIs, LayoutAssumption
    <3>3. ASSUME b - NewBase \in strOffs PROVE FALSE
      <4>1. P # None /\ \E j \in DOMAIN pool.blob : b - NewBase = base + j - 1
        BY <3>3
      <4>2. PICK j \in 1 .. n : b - NewBase = base + j - 1
        BY <2>3, <4>1
      <4> HIDE DEF w, n, P, b
      <4>3. StringBase \in P .. P + PoolWords - 1
        BY <2>4, <3>1
      <4>4. base = StringBase - NewBase
        BY <3>1, <4>1, <4>3, AddrToOffIs
      <4> HIDE DEF base
      <4>5. b = StringBase + j - 1
        <5>1. StringBase \in Int
          BY <2>4, <3>1
        <5> QED BY <3>2, <4>2, <4>4, <5>1
      <4>6. b \in P .. P + PoolWords - 1
        BY <2>4, <3>1, <4>5
      <4> QED BY <3>1, <4>1, <4>6
    <3>4. F[b - NewBase] = lay.file[b - NewBase]
      <4> HIDE DEF strOffs, b
      <4> QED BY <3>1, <3>3
    <3> QED BY <3>4
  <2>6. DOMAIN F = DOMAIN lay.file
    OBVIOUS
  <2> HIDE DEF F
  <2>7. LaidOut({})'
    <3> DEFINE gone == {}
    <3>1. Rewritten(F, gone)
      BY <2>5, <2>6 DEF Rewritten
    <3> HIDE DEF gone
    <3>2. Arranged(lay', gone)
      BY <1>1, <2>1, <2>2, <3>1, LaidOutKept
    <3>3. PoolWords' = PoolWords /\ \A a : Word(a)' = Word(a)
      BY <1>1 DEF PoolWords, SlotWords, SelCount, Word
    <3> QED BY <1>1, <3>2, <3>3 DEF LaidOut, Arranged, gone
  <2> QED BY <1>1, <2>1, <2>7 DEF PoolOK
<1> QED BY <1>1, <1>2, <1>3 DEF LayoutInv, compact, Stages

LEMMA WeaveChainsInv ==
  ASSUME LayoutInv, WeaveChains
  PROVE  LayoutInv'
<1>1. img' = img /\ pool' = pool /\ entries' = entries /\ pc' = "splice" /\ pc = "weave"
  BY DEF WeaveChains
<1>2. HeaderRoom'
  BY <1>1 DEF HeaderRoom, Done
<1>3. ASSUME compact PROVE PoolOK' /\ LaidOut(DOMAIN entries)'
  <2>1. PoolOK /\ LaidOut({})
    BY <1>1, <1>3 DEF LayoutInv, Stages
  <2> DEFINE here(o) == {x \in DOMAIN entries : InSegs(lay.segs, x) /\ AddrToOff(lay.segs, x) = o}
             pick(o) == CHOOSE x \in here(o) : TRUE
             packed(o) == PackEntry(entries[pick(o)],
                            NextOf(lay.segs, entries, Least(SegAt(lay.segs, pick(o))), pick(o)))
             F == [o \in DOMAIN lay.file |-> IF here(o) = {} THEN lay.file[o] ELSE packed(o)]
  <2>2. lay' = [lay EXCEPT !.file = F]
    BY DEF WeaveChains, Weave
  <2>3. ASSUME NEW i \in DOMAIN img.segs,
               NEW a \in img.segs[i].va .. img.segs[i].va + img.segs[i].fs - 1,
               amap(a) \notin DOMAIN entries
        PROVE  F[amap(a) - NewBase] = lay.file[amap(a) - NewBase]
    <3> DEFINE b == amap(a)
    <3>1. b - NewBase \in DOMAIN lay.file /\ InSegs(lay.segs, b) /\ Placed(lay.segs)
      BY <2>1 DEF LaidOut, Arranged, amap
    <3>2. b \in Int /\ NewBase \in Nat
      <4> HIDE DEF b
      <4> QED BY <3>1, AddrToOffIs, LayoutAssumption
    <3>3. ASSUME NEW x \in here(b - NewBase) PROVE FALSE
      <4>1. x \in DOMAIN entries /\ InSegs(lay.segs, x) /\ AddrToOff(lay.segs, x) = b - NewBase
        OBVIOUS
      <4> HIDE DEF b
      <4>2. x \in Int /\ AddrToOff(lay.segs, x) = x - NewBase
        BY <3>1, <4>1, AddrToOffIs
      <4>3. x = b
        BY <3>2, <4>1, <4>2
      <4> QED BY <2>3, <4>1, <4>3 DEF b
    <3>4. here(b - NewBase) = {}
      BY <3>3
    <3>5. F[b - NewBase] = lay.file[b - NewBase]
      <4> HIDE DEF here, b, packed
      <4> QED BY <3>1, <3>4
    <3> QED BY <3>5
  <2>4. DOMAIN F = DOMAIN lay.file
    OBVIOUS
  <2> HIDE DEF F
  <2>5. LaidOut(DOMAIN entries)'
    <3> DEFINE gone == DOMAIN entries
    <3>1. Rewritten(F, gone)
      BY <2>3, <2>4 DEF Rewritten
    <3> HIDE DEF gone
    <3>2. Arranged(lay', gone)
      BY <1>1, <2>1, <2>2, <3>1, LaidOutKept
    <3>3. PoolWords' = PoolWords /\ \A a : Word(a)' = Word(a)
      BY <1>1 DEF PoolWords, SlotWords, SelCount, Word
    <3> QED BY <1>1, <3>2, <3>3 DEF LaidOut, Arranged, gone
  <2> QED BY <1>1, <2>1, <2>5 DEF PoolOK
<1> QED BY <1>1, <1>2, <1>3 DEF LayoutInv, compact, Stages

LEMMA SpliceAndWriteInv ==
  ASSUME LayoutInv, SpliceAndWrite
  PROVE  LayoutInv'
<1>1. img' = img /\ pool' = pool /\ lay' = lay /\ entries' = entries
      /\ pc' \in {"done", "failed"} /\ pc = "splice"
  BY DEF SpliceAndWrite, Fail
<1>2. HeaderRoom'
  <2> SUFFICES ASSUME pc' = "done" PROVE HeaderRoom'
    BY <1>1 DEF HeaderRoom, Done
  <2> DEFINE h == img.header
             all == h.kept + h.droppable
             keep == IF Fits(h, all) THEN all ELSE h.kept
  <2>1. ImageOK(img)
    BY ImagesAssumption DEF LayoutInv
  <2>2. h.kept \in Nat /\ h.droppable \in Nat /\ h.firstSection \in Nat
    BY <2>1 DEF ImageOK
  <2>3. AppendFixupsCommand(h).ok /\ header'.words = AppendFixupsCommand(h).words
    BY DEF SpliceAndWrite, Fail
  <2>4. Fits(h, keep) /\ header'.words = keep + CommandWords
    BY <2>3 DEF AppendFixupsCommand
  <2>5. keep \in Nat
    BY <2>2
  <2> HIDE DEF keep
  <2>6. HeaderWords + header'.words + (IF h.signed THEN 0 ELSE CommandWords) <= h.firstSection
    BY <2>2, <2>4, <2>5 DEF Fits, HeaderWords, CommandWords, SigningRoom
  <2> QED BY <1>1, <2>6 DEF HeaderRoom
<1>3. ASSUME compact PROVE PoolOK' /\ LaidOut(DOMAIN entries)'
  <2>1. PoolOK /\ LaidOut(DOMAIN entries)
    BY <1>1, <1>3 DEF LayoutInv, Stages
  <2> QED BY <1>1, <2>1, StaysLaidOut
<1> QED BY <1>1, <1>2, <1>3 DEF LayoutInv, compact, Stages

\* What the invariant says of the layout is what LayoutSound asks.
LEMMA LayoutInvSound == LayoutInv => LayoutSound
<1> SUFFICES ASSUME LayoutInv PROVE Compacted
  BY DEF LayoutSound, LayoutInv
<1> SUFFICES ASSUME compact, pc \in {"weave", "splice", "done"} PROVE Compacted
  BY DEF Compacted
<1> DEFINE old == UNION {s.va .. s.va + s.fs - 1 : s \in Range(img.segs)}
           poolWords == IF lay.pool = None THEN {}
                        ELSE lay.pool .. lay.pool + SlotWords + Len(pool.blob) - 1
<1>1. LaidOut(DOMAIN entries)
  <2>1. LaidOut({}) => LaidOut(DOMAIN entries)
    BY DEF LaidOut, Arranged, amap
  <2> QED BY <2>1 DEF LayoutInv
<1>2. Placed(lay.segs)
  BY <1>1 DEF LaidOut, Arranged, amap
<1>3. \A i, j \in DOMAIN lay.segs : i < j => lay.segs[i].va + lay.segs[i].vs <= lay.segs[j].va
  BY <1>2 DEF Placed
<1>4. \A i \in DOMAIN lay.segs : lay.segs[i].va % PageWords = 0 /\ lay.segs[i].fo = lay.segs[i].va - NewBase
  BY <1>2 DEF Placed
<1>5. ASSUME NEW a \in old
      PROVE  amap(a) \notin poolWords
             /\ (amap(a) \notin DOMAIN entries => lay.file[AddrToOff(lay.segs, amap(a))] = Word(a))
  <2>1. PICK i \in DOMAIN img.segs : a \in img.segs[i].va .. img.segs[i].va + img.segs[i].fs - 1
    BY DEF Range
  <2>2. /\ InSegs(lay.segs, amap(a))
        /\ amap(a) \notin DOMAIN entries => lay.file[amap(a) - NewBase] = Word(a)
        /\ lay.pool # None => amap(a) \notin lay.pool .. lay.pool + PoolWords - 1
    BY <1>1, <2>1 DEF LaidOut, Arranged, amap
  <2>3. AddrToOff(lay.segs, amap(a)) = amap(a) - NewBase
    BY <1>2, <2>2, AddrToOffIs
  <2>4. lay.pool # None => poolWords = lay.pool .. lay.pool + PoolWords - 1
    <3>1. PoolOK /\ lay.pool \in Int
      BY <1>1 DEF LaidOut, Arranged, amap, LayoutInv, Stages
    <3>2. SlotWords \in Nat /\ Len(pool.blob) \in Nat
      <4>1. \A k, l, m \in Nat : k + l + m \in Nat
        OBVIOUS
      <4> QED BY <3>1, <4>1, Zenon DEF PoolOK, SlotWords, SelCount
    <3> DEFINE p == lay.pool
               w == SlotWords
               n == Len(pool.blob)
    <3>3. /\ p # None => poolWords = p .. p + w + n - 1
          /\ PoolWords = w + n
          /\ p \in Int /\ w \in Nat /\ n \in Nat
      BY <3>1, <3>2 DEF PoolWords
    <3>4. p # None => poolWords = p .. p + PoolWords - 1
      <4> HIDE DEF p, w, n, poolWords
      <4>1. p + w + n - 1 = p + (w + n) - 1
        BY <3>3
      <4> QED BY <3>3, <4>1
    <3> QED BY <3>4
  <2> HIDE DEF poolWords
  <2> QED BY <2>2, <2>3, <2>4 DEF poolWords
<1> HIDE DEF old, poolWords
<1>6. \A a \in old : amap(a) \notin poolWords
  BY <1>5
<1>7. \A a \in old : amap(a) \notin DOMAIN entries => lay.file[AddrToOff(lay.segs, amap(a))] = Word(a)
  BY <1>5
<1> QED BY <1>3, <1>4, <1>6, <1>7 DEF Compacted, old, poolWords, Word

\* The layout of an extracted image is sound at every stage: segments on pages of
\* their own that the file mirrors, the pool in nobody's way, every word that no
\* fixup replaces where the address map says (relayout_compact, addr2off and the
\* weaving loop agree), and a header that ends before the first section.
THEOREM LayoutSafe == UncacheSpec => []LayoutSound
<1>1. UncacheInit => LayoutInv
  BY LayoutInit
<1>2. LayoutInv /\ [UncacheNext]_uncacheVars => LayoutInv'
  <2> SUFFICES ASSUME LayoutInv, [UncacheNext]_uncacheVars PROVE LayoutInv'
    OBVIOUS
  <2>1. CASE CollectFixups
    BY <2>1, CollectFixupsInv
  <2>2. CASE CollectRefs
    BY <2>2, CollectRefsInv
  <2>3. CASE PlanPool
    BY <2>3, PlanPoolInv
  <2>4. CASE Layout
    BY <2>4, LayoutStepInv
  <2>5. CASE RepointCode
    BY <2>5, RepointCodeInv
  <2>6. CASE RepointMethods
    BY <2>6, RepointMethodsInv
  <2>7. CASE EmitEntries
    BY <2>7, EmitEntriesInv
  <2>8. CASE FixExportTrie
    BY <2>8, FixExportTrieInv
  <2>9. CASE WeaveChains
    BY <2>9, WeaveChainsInv
  <2>10. CASE SpliceAndWrite
    BY <2>10, SpliceAndWriteInv
  <2>11. CASE UNCHANGED uncacheVars
    <3>1. /\ pc' = pc /\ img' = img /\ fx' = fx /\ refs' = refs /\ pool' = pool /\ lay' = lay
          /\ entries' = entries /\ header' = header
      BY <2>11 DEF uncacheVars
    <3>2. RefsOK => RefsOK'
      BY <3>1 DEF RefsOK
    <3>3. /\ PoolOK => PoolOK'
          /\ LaidOut({}) => LaidOut({})'
          /\ LaidOut(DOMAIN entries) => LaidOut(DOMAIN entries)'
      BY <3>1, StaysLaidOut
    <3>4. HeaderRoom'
      BY <3>1 DEF LayoutInv, HeaderRoom, Done
    <3> QED BY <3>1, <3>2, <3>3, <3>4 DEF LayoutInv, compact
  <2> QED BY <2>1, <2>2, <2>3, <2>4, <2>5, <2>6, <2>7, <2>8, <2>9, <2>10, <2>11
          DEF UncacheNext, UncacheStopped
<1> QED BY <1>1, <1>2, LayoutInvSound, PTL DEF UncacheSpec
=============================================================================
