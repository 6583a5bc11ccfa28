----------------------------- MODULE MCUncache -----------------------------
(***************************************************************************)
(* Small images for Uncache: pages of four words, a data segment of seven  *)
(* words that straddles a page, three pointer slots with every kind of     *)
(* target, and the code references of an old and of a modern cache.        *)
(***************************************************************************)
EXTENDS Uncache

CONSTANT Targets    \* where the pointer slots may point

Seg(n, va, vs, fo, fs) == [name |-> n, va |-> va, vs |-> vs, fo |-> fo, fs |-> fs]
Segs == << Seg("__TEXT", 100, 6, 0, 6), Seg("__DATA", 140, 7, 8, 7),
           Seg("__EXTRA_OBJC", 160, 2, 16, 2), Seg("__LINKEDIT", 180, 2, 20, 2) >>
PlainSegs == << Seg("__DATA", 140, 7, 8, 7), Seg("__TEXT", 100, 6, 0, 6),
                Seg("__LINKEDIT", 180, 2, 20, 2) >>
CSegs == << Seg("__TEXT", 100, 6, 0, 6), Seg("__DATA", 140, 7, 8, 7),
            Seg("__LINKEDIT", 180, 2, 20, 2) >>
ShiftedSegs == << Seg("__TEXT", 101, 5, 0, 5), Seg("__DATA", 140, 7, 8, 7),
                  Seg("__LINKEDIT", 180, 2, 20, 2) >>

Plain(b) == [tag |-> "plain", base |-> b]
MCSym == [t \in {142, 143, 200, 201, 202, 203, 204, 206, 207, 210, 211, 212, 213, 214, 215, 216} |->
            CASE t = 142 -> [tag |-> "ptr", base |-> "new"]
              [] t = 143 -> [tag |-> "ptr", base |-> "delete"]
              [] t = 200 -> [tag |-> "got", base |-> "malloc"]
              [] t \in {201, 202, 206} -> Plain("?")
              [] t = 203 -> Plain("class_NSGlobalBlock")
              [] t = 204 -> Plain("class_Protocol")
              [] t = 207 -> Plain("calloc")
              [] t = 210 -> [tag |-> "ptr", base |-> "free"]
              [] t = 211 -> [tag |-> "got", base |-> "guard"]
              [] t = 212 -> Plain("personality")
              [] t = 213 -> [tag |-> "ptr", base |-> "ehtype"]
              [] t = 214 -> Plain("memcpy")
              [] t = 215 -> Plain("objc_msgSend$init")
              [] t = 216 -> [tag |-> "ptr", base |-> "dispatch_once"]]
MCCStr == [t \in {201, 202, 205, 206} |->
             CASE t = 201 -> "foo" [] t = 202 -> "bar" [] t = 205 -> "bar" [] t = 206 -> "gone"]
MCSymbolAt == [t \in {142, 143} \cup (200 .. 216) |->
                 CASE t = 142 -> "new" [] t = 143 -> "delete" [] t \in {208, 209} -> "none"
                   [] t = 200 -> "malloc" [] t \in {201, 202, 205, 206} -> "string"
                   [] t = 203 -> "NSConcreteGlobalBlock" [] t = 204 -> "protocol"
                   [] t = 207 -> "calloc" [] t = 210 -> "free" [] t = 211 -> "guard"
                   [] t = 212 -> "personality" [] t = 213 -> "ehtype" [] t = 214 -> "memcpy"
                   [] t = 215 -> "objc_msgSend" [] t = 216 -> "dispatch_once"]

Slots == {144, 145, 146}
Fixup(a, t, auth, h) == [addr |-> a, t |-> t, auth |-> auth, high8 |-> h]
\* A foreign slot of the cache's chain is walked over and left out.
SlidesOf(to) == {Fixup(144, to[144], NoAuth, 0), Fixup(145, to[145], "da_7", 0),
                 Fixup(146, to[146], NoAuth, 5), Fixup(190, 102, NoAuth, 0)}
\* DyldExtractor leaves an unresolvable pointer alone and localizes strings
\* and protocols it copied.
DexOf(to) == [a \in Slots |-> CASE to[a] \in {202, 205} -> 161 [] to[a] = 204 -> 141
                                [] OTHER -> to[a]]

OldSects == [s \in {"__objc_selrefs", "__got", "__auth_got", "__auth_stubs"} |->
               CASE s = "__objc_selrefs" -> [addr |-> 140, size |-> 1]
                 [] s = "__got" -> [addr |-> 141, size |-> 1]
                 [] s = "__auth_got" -> [addr |-> 142, size |-> 2]
                 [] s = "__auth_stubs" -> [addr |-> 102, size |-> 2]]
ModernSects == [OldSects EXCEPT !["__auth_stubs"] = [addr |-> 105, size |-> 0]]
PlainSects == [s \in {"__data"} |-> [addr |-> 140, size |-> 4]]
NoLsda == [encoding |-> "absent", sites |-> {}, next |-> <<0>>, filter |-> <<0>>, types |-> <<>>]
\* Two chained action records; the second reaches a type of another image.
Lsda(e) == [encoding |-> e, sites |-> {1}, next |-> <<2, 0, 0>>, filter |-> <<1, 2, 3>>,
            types |-> << [field |-> 101, target |-> 144], [field |-> 102, target |-> 213],
                         [field |-> 103, target |-> 209] >>]
Header(kept, drop, signed) ==
  [kept |-> kept, droppable |-> drop, signed |-> signed, firstSection |-> 16]

List(in, rel, ms) == [inImage |-> in, relative |-> rel, methods |-> ms]
NoLists == [o \in MethodOwners |-> {}]
Lists == [NoLists EXCEPT !["class"] = {List(TRUE, TRUE, {[imp |-> 103, sel |-> 105]}),
                                       List(FALSE, TRUE, {[imp |-> 150, sel |-> 150]})},
                         !["category"] = {List(TRUE, FALSE, {[imp |-> 102, sel |-> 104]})},
                         !["protocol"] = {List(TRUE, TRUE, {[imp |-> 102, sel |-> 105]})}]

OldImage(to, order) ==
  [mode |-> "compact", version |-> 3, overlaps |-> TRUE, segs |-> Segs, sects |-> OldSects,
   slides |-> SlidesOf(to), dex |-> DexOf(to),
   strs |-> (104 :> "foo" @@ 105 :> "sel" @@ 161 :> "bar"), literals |-> {104, 105},
   got |-> <<[target |-> 210, add |-> TRUE], [target |-> 211, add |-> FALSE],
             [target |-> 144, add |-> FALSE]>>,
   stubs |-> order, branches |-> <<>>, pers |-> <<212>>, lsda |-> Lsda("pcrel"),
   lists |-> Lists, extra |-> (160 :> 145),
   exports |-> [n \in {"f", "g", "h"} |->
                  CASE n = "f" -> [off |-> 3, len |-> 1, kind |-> "regular"]
                    [] n = "g" -> [off |-> 45, len |-> 2, kind |-> "regular"]
                    [] n = "h" -> [off |-> 45, len |-> 2, kind |-> "absolute"]],
   liveAfter |-> None, header |-> Header(4, 2, FALSE)]
ModernImage(to, live) ==
  [OldImage(to, <<>>) EXCEPT !.version = 5, !.sects = ModernSects, !.liveAfter = live,
     !.strs = (104 :> "foo" @@ 161 :> "bar"), !.literals = {104},
     !.lists = NoLists, !.branches = (101 :> 214 @@ 102 :> 215 @@ 103 :> 214)]

\* A plain C library: no Objective-C sections, the pool goes behind __data.
CImage(to, mode, segs) ==
  [OldImage(to, <<>>) EXCEPT !.mode = mode, !.segs = segs, !.sects = PlainSects,
     !.lists = NoLists, !.extra = <<>>, !.literals = {104}, !.strs = (104 :> "foo" @@ 105 :> "x"),
     !.lsda = NoLsda, !.header = Header(6, 4, TRUE)]

Pointing == [Slots -> Targets]
Uniform(t) == [a \in Slots |-> t]
MCImages ==
     {OldImage(to, <<216, 142>>) : to \in Pointing}
  \cup {OldImage(Uniform(102), o) : o \in {<<143, 216>>, <<216, 207>>, <<142, 142>>}}
  \cup {ModernImage(to, None) : to \in Pointing}
  \cup {ModernImage(Uniform(102), 105)}
  \cup {CImage(to, "compact", CSegs) : to \in [Slots -> Targets \ {202, 204, 205}]}
  \cup {CImage(Uniform(t), m, s) : t \in {102, 145, 200}, m \in {"pad", "plain"},
                                   s \in {PlainSegs, ShiftedSegs}}
  \cup {[OldImage(Uniform(102), <<>>) EXCEPT !.version = 2, !.overlaps = b] : b \in BOOLEAN}
  \cup {[OldImage(Uniform(t), <<>>) EXCEPT !.header = h] :
          t \in {145, 205, 209}, h \in {Header(8, 2, FALSE), Header(10, 0, FALSE), Header(10, 0, TRUE)}}
  \cup {[OldImage(Uniform(102), <<>>) EXCEPT !.lsda = Lsda("unsupported")]}
=============================================================================
