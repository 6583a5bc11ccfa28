--------------------------- MODULE MCAdrpRewrite ---------------------------
EXTENDS AdrpRewrite

\* Pages of 4 words: 0 is code, 40 a segment that moves by whole pages, 52 a
\* page of which a segment with an odd distance holds the last words, 80 the
\* shared GOT.
MCRegs == {"x8", "x19"}
MCCallerSaved == {"x8"}
MCDeltas == {[lo |-> 0, hi |-> 8, d |-> 16], [lo |-> 40, hi |-> 44, d |-> -8],
             [lo |-> 53, hi |-> 57, d |-> -17]}
MCGotSlots == [t \in {80, 81, 82} |-> CASE t = 80 -> 44 [] t = 81 -> 45 [] t = 82 -> 50]

Adrp == [k : {"adrp"}, rd : MCRegs, page : {0, 40, 52, 80}]
Use == {[k |-> "use", rn |-> n, disp |-> d, form |-> f, scale |-> 2, writes |-> w] :
          n \in MCRegs, d \in {1, 2}, f \in {"add", "ldr"}, w \in {{}}}
UseOver == {[k |-> "use", rn |-> n, disp |-> 1, form |-> "add", scale |-> 1, writes |-> {n}] : n \in MCRegs}
Branch(k, S) == {[k |-> k, to |-> t, bit |-> 0] : t \in S}
Call == {[k |-> "call"]}
Write == {[k |-> "write", writes |-> {"x19"}]}
Ret == {[k |-> "ret"]}
Switch(S) == {[k |-> "br", cases |-> S]}

Code(instructions) == [ins : instructions, starts : {<<1>>}, base : {0}]

\* Two blocks behind a switch share a tail with an ADRP of its own, which lies
\* below or above the block that defines what the tail consumes.
DownTail == Code(Switch({5}) \X Adrp \X Use \X Ret \X Adrp \X Branch("b", {2}))

\* A branch around one of the ADRPs and a join, a loop whose back edge carries
\* a definition, a switch whose cases only the processor knows,
\* and a tail in another order than its block.
MCPrograms ==
  <<Code(Adrp \X (Branch("tb", {4, 5}) \cup Branch("cb", {6}))
           \X (Adrp \cup Call \cup Write \cup UseOver) \X Use \X Use \X Ret),
    Code(Adrp \X (Adrp \cup Call) \X Use \X Adrp
           \X (Branch("cb", {2, 3}) \cup Branch("b", {3})) \X Ret),
    Code(Switch({2, 4}) \X Adrp \X (Use \cup Ret) \X Adrp \X Use \X (Branch("b", {3}) \cup Ret)),
    Code(Switch({2}) \X Adrp \X Branch("b", {5}) \X Ret \X Adrp \X Use) \cup DownTail>>
=============================================================================
