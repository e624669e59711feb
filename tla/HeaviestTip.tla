----------------------------- MODULE HeaviestTip -----------------------------
(***************************************************************************)
(* What the fork choice promises to the rest of a node, and a node to its  *)
(* peers, whatever the order in which blocks arrive, one by one or in      *)
(* batches: the set of known blocks only grows, and the head is its        *)
(* greatest member, by height and then by hash.  Nothing is said of nodes, *)
(* scores or of the previous head: two nodes that know the same blocks     *)
(* have the same head.                                                     *)
(***************************************************************************)
EXTENDS Naturals

CONSTANTS
  Tips,     \* the hashes of blocks
  None,     \* no head
  Height    \* the height in the header of each of them

VARIABLES known, head

vars == <<known, head>>

-----------------------------------------------------------------------------
Greater(t, u) == Height[t] > Height[u] \/ (Height[t] = Height[u] /\ t > u)

IsHead(t, set) ==
  IF set = {} THEN t = None
              ELSE t \in set /\ \A u \in set \ {t} : Greater(t, u)

\* At the start what was stored is known.
Init == known \subseteq Tips /\ IsHead(head, known)

Learn(tips) ==
  /\ tips \cap known = {}
  /\ known' = known \cup tips
  /\ IsHead(head', known')

Next == \E tips \in SUBSET Tips : Learn(tips)

Spec == Init /\ [][Next]_vars
=============================================================================
