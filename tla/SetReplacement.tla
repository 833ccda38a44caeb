--------------------------- MODULE SetReplacement ---------------------------
(***************************************************************************)
(* One set under one replacement policy, referenced by an arbitrary        *)
(* stream of tags: what the policies promise about the blocks they keep.   *)
(*                                                                         *)
(* The history variables record the stream, not the program's state:       *)
(* which blocks were referenced, in which order they were last used and    *)
(* last installed, and which resident blocks were referenced again since   *)
(* they were installed.                                                    *)
(***************************************************************************)
EXTENDS CacheSet

CONSTANTS
  Tag,      \* the tags (block numbers) that map to this set
  Policies  \* the policies under study, among those Setref knows

ASSUME TagAssumption == Free \notin Tag

ASSUME StudyAssumption == Policies \subseteq PolicyNames

VARIABLES
  policy,   \* the function cachesim_setref_is_miss points to
  set,      \* the tags of the set
  used,     \* history: the blocks referenced so far
  newer,    \* history: <<a, b>> when a was last used after b was
  later,    \* history: <<a, b>> when a was last installed after b was
  reused    \* history: the resident blocks hit since their installation

setVars == <<policy, set, used, newer, later, reused>>

(* The tags of a set stay in its ways: no policy writes past the last one.  *)
SetTypeOK ==
  /\ policy \in Policies
  /\ set \in [Ways -> Tag \cup {Free}]
  /\ used \subseteq Tag
  /\ newer \subseteq Tag \X Tag
  /\ later \subseteq Tag \X Tag
  /\ reused \subseteq Tag

SetInit ==
  /\ policy \in Policies
  /\ set = EmptySet
  /\ used = {}
  /\ newer = {}
  /\ later = {}
  /\ reused = {}

(* The pairs of a history order over refs once tag comes last. *)
MakeLast(order, refs, tag) ==
  {p \in order : tag \notin {p[1], p[2]}} \cup {<<tag, b>> : b \in refs \ {tag}}

Ref(tag) ==
  /\ set' \in Setref(policy, set, tag)
  /\ used' = used \cup {tag}
  /\ newer' = MakeLast(newer, used, tag)
  /\ later' = IF Hit(set, tag) THEN later ELSE MakeLast(later, used, tag)
  /\ reused' = IF Hit(set, tag) THEN reused \cup {tag} ELSE reused \cap Blocks(set')
  /\ UNCHANGED policy

SetNext == \E tag \in Tag : Ref(tag)

SetSpec == SetInit /\ [][SetNext]_setVars

-----------------------------------------------------------------------------

(* No block is in two ways of a set: the scans stop at the first match, so  *)
(* a second copy would be a line of the cache nobody can use.               *)
NoDuplicateBlocks ==
  \A i, j \in Ways : set[i] = set[j] /\ set[i] # Free => i = j

(* A set s holds exactly the blocks of refs that come last in an order, at  *)
(* most Assoc of them, with the last one in way 0; free ways are at the end *)
(* and remain only while nothing was ever replaced.                         *)
HoldsLast(s, refs, order) ==
  /\ \A i, j \in Ways : i < j /\ s[j] # Free => <<s[i], s[j]>> \in order
  /\ \A b \in Blocks(s), c \in refs \ Blocks(s) : <<b, c>> \in order
  /\ (\E i \in Ways : s[i] = Free) => refs = Blocks(s)

(* LRU keeps the Assoc blocks that were used last: every block it dropped   *)
(* was last used before each block it kept.                                 *)
LruHoldsMostRecent == policy = "LRU" => HoldsLast(set, used, newer)

(* FIFO keeps the Assoc blocks that were installed last, hits in between    *)
(* notwithstanding.                                                         *)
FifoHoldsLastInstalled == policy = "FIFO" => HoldsLast(set, used, later)

(* LIP: a block that was never hit after it was brought in is only ever in  *)
(* the LRU way, so a scan cannot displace more than one reused block.       *)
LipConfinesUnreused ==
  policy = "LIP" => \A i \in Ways : i < Assoc - 1 => set[i] \in reused \cup {Free}

(* Every reference leaves its block in the set, a hit removes no block and  *)
(* a miss removes at most one (cg_sim.c simulates a write-allocate cache).  *)
ReferenceKeepsOthers ==
  [][\A tag \in Tag : Ref(tag) =>
       /\ tag \in Blocks(set')
       /\ Hit(set, tag) => Blocks(set') = Blocks(set)
       /\ \E victim \in Tag : Blocks(set) \ {victim} \subseteq Blocks(set')]_setVars

(* BIP inserts at the head "with a small probability": a throttle above 0   *)
(* leaves a chance that a missing block becomes the MRU one.                *)
BipMayInsertAtHead ==
  policy = "BIP" /\ Throttle > 0 =>
    \A tag \in Tag : ~Hit(set, tag) => \E t \in Setref(policy, set, tag) : t[0] = tag
=============================================================================
