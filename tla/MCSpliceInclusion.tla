------------------------- MODULE MCSpliceInclusion -------------------------
(* Catalogs for SpliceInclusion: two families and three single binaries.    *)
EXTENDS SpliceInclusion

To(ptr) == [extern |-> FALSE, ptr |-> ptr]
Extern(ptr) == [extern |-> TRUE, ptr |-> ptr]

\* Call graphs over a root with three variants and two callees, slot k pointing
\* at section k: any calls of the root's variants, any calls of the callees.
Graph(r, c) ==
    [variants |-> <<3, 1, 1>>,
     targets  |-> [s \in 1..3 |-> <<To(1), To(2), To(3)>>],
     calls    |-> [n \in {<<1, 1>>, <<1, 2>>, <<1, 3>>, <<2, 1>>, <<3, 1>>} |->
                     [k \in (IF n[1] = 1 THEN r[n[2]] ELSE c[n[1]]) |-> 1]],
     body     |-> [n \in {<<1, 1>>, <<1, 2>>, <<1, 3>>, <<2, 1>>, <<3, 1>>} |->
                     IF n[1] = 1 THEN 3 - n[2] ELSE n[1] - 1],
     depths   |-> {1, 4}, lengths |-> {6}, groups |-> 1, prefix |-> 1]

Graphs3 == {Graph(r, c) : r \in [1..3 -> {{2}, {3}, {2, 3}}],
                          c \in [2..3 -> {{}, {2}, {3}, {1, 2, 3}}]}

\* Two variants of a callee, and what a slot may hold: no call, a missing index
\* (alone, or with a usable sibling), either variant; slots that lead nowhere;
\* a section without variants; a recursive call.
Slots(j1, j2) ==
    LET call(j, rest) == IF j < 0 THEN rest ELSE (1 :> j) @@ rest
    IN [variants |-> <<2, 2, 0, 1>>,
        targets  |-> <<<<To(2), Extern(4), To(0), To(9), To(4)>>, <<To(1), To(4)>>, <<>>, <<To(2)>>>>,
        calls    |-> (<<1, 1>> :> call(j1, 2 :> 1 @@ 3 :> 1 @@ 4 :> 1))
                     @@ (<<1, 2>> :> call(j2, 5 :> 1))
                     @@ (<<2, 1>> :> (2 :> 1)) @@ (<<2, 2>> :> (1 :> 1))
                     @@ (<<4, 1>> :> (1 :> 2 @@ 7 :> 1)),
        body     |-> (<<1, 1>> :> 0 @@ <<1, 2>> :> 1 @@ <<2, 1>> :> 1 @@ <<2, 2>> :> 2 @@ <<4, 1>> :> 1),
        depths   |-> {1, 3}, lengths |-> {2, 5}, groups |-> 1, prefix |-> 2]

SlotCases == {Slots(j1, j2) : j1, j2 \in {-1, Missing, 1, 2}}

\* A chain of calls from section 1 over 3 to 2, drawn from twice at several
\* depths: what one batch made resident is there for the next.  The variant
\* counts make a decider that is reused wider, narrower and wider again.
Chain ==
    [variants |-> <<2, 1, 2>>,
     targets  |-> <<<<To(3)>>, <<>>, <<To(2)>>>>,
     calls    |-> (<<1, 1>> :> <<>>) @@ (<<1, 2>> :> (1 :> 1)) @@ (<<2, 1>> :> <<>>)
                  @@ (<<3, 1>> :> (1 :> 1)) @@ (<<3, 2>> :> <<>>),
     body     |-> (<<1, 1>> :> 1 @@ <<1, 2>> :> 2 @@ <<2, 1>> :> 0 @@ <<3, 1>> :> 1 @@ <<3, 2>> :> 1),
     depths   |-> {0, 1, 2}, lengths |-> {0, 5}, groups |-> 2, prefix |-> 1]

\* Two callees that lead to the same third one; the last variant calls that one
\* directly, or nothing.
Diamond(last) ==
    [variants |-> <<3, 1, 1, 1>>,
     targets  |-> <<<<To(2), To(3), To(4)>>, <<To(4)>>, <<To(4)>>, <<>>>>,
     calls    |-> (<<1, 1>> :> (1 :> 1 @@ 2 :> 1)) @@ (<<1, 2>> :> (1 :> 1))
                  @@ (<<1, 3>> :> last)
                  @@ (<<2, 1>> :> (1 :> 1)) @@ (<<3, 1>> :> (1 :> 1)) @@ (<<4, 1>> :> <<>>),
     body     |-> (<<1, 1>> :> 1 @@ <<1, 2>> :> 1 @@ <<1, 3>> :> 1
                   @@ <<2, 1>> :> 0 @@ <<3, 1>> :> 1 @@ <<4, 1>> :> 3),
     depths   |-> {1, 2}, lengths |-> {7}, groups |-> 1, prefix |-> 1]

MCCatalogs == Graphs3 \cup SlotCases \cup {Chain, Diamond(3 :> 1), Diamond(<<>>)}
=============================================================================
