--------------------------- MODULE MC_ChainState ---------------------------
(* Small block trees for ChainState *)
EXTENDS ChainState, TLC

CONSTANTS g, a1, a2, b1, b2, b3, c2

\* The tree: g - a1 - a2, g - b1 - b2 - b3 and a1 - c2, cut down to Block.
Only(f) == [b \in DOMAIN f \cap Block |-> f[b]]
MCPrev == Only(a1 :> g @@ a2 :> a1 @@ b1 :> g @@ b2 :> b1 @@ b3 :> b2 @@ c2 :> a1)
MCAnc[b \in Block] == IF b = g THEN {b} ELSE {b} \cup MCAnc[MCPrev[b]]
MCWork == Only(g :> 1 @@ a1 :> 2 @@ a2 :> 3 @@ c2 :> 3 @@ b1 :> 2 @@ b2 :> 3 @@ b3 :> 4)
MCAddr == Only(g :> 7 @@ a1 :> 3 @@ a2 :> 6 @@ c2 :> 2 @@ b1 :> 4 @@ b2 :> 1 @@ b3 :> 5)

\* Verdicts: all blocks good, or one bad: b1 in every way, b2 refused by ConnectBlock.
AllOk == [b \in Block |-> "ok"]
OneIs(v, B) == {[AllOk EXCEPT ![b] = v] : b \in B}
AnyWay == UNION {OneIs(v, {b1}) : v \in Kind} \cup OneIs("connect", {b2})
AllGood == {AllOk}
Corrupt == OneIs("corrupt", {b1})

MCSymmetry == Permutations(Thread)
=============================================================================
