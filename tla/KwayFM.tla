------------------------------- MODULE KwayFM -------------------------------
(***************************************************************************)
(* Direct k-way FM local search for the (lambda - 1) objective             *)
(* (refinement/kway_fm_km1_refiner.h), with the locking of the parts of    *)
(* nets.                                                                   *)
(***************************************************************************)
EXTENDS KwaySearch

VARIABLE unremovable   (* _unremovable_he_parts: per net a set of parts.   *)
vars == <<search_vars, unremovable>>
NoLocks == [e \in Nets |-> {}]

-----------------------------------------------------------------------------
(* What a move changes in the cache.                                       *)

(* The change of the gain of moving pin u of net e to part p; g is the     *)
(* hypergraph after the move.                                              *)
GainDelta(g, e, from, to, u, p) ==
  LET w == g.edge_weight[e]
      before == g.pins_in_part[e][from] + 1
      after == g.pins_in_part[e][to]
  IN (CASE g.part[u] = from /\ before = 2 -> w
        [] g.part[u] = to /\ after = 2    -> -w
        [] OTHER                          -> 0)
     + (IF before = 1 /\ p = from THEN -w ELSE 0)
     + (IF after = 1 /\ p = to THEN w ELSE 0)

(* The treatment of a net by the locks of the two parts.                   *)
bothUnremovable(locks, e, from, to) == {from, to} \subseteq locks[e]
unequalStates(locks, e, from, to) == from \in locks[e] <=> to \notin locks[e]
ChangesConnectivity(g, e, from, to) == g.pins_in_part[e][from] = 0 \/ g.pins_in_part[e][to] = 1
(* Mutant: also nets with one locked part are looked at only for pins that *)
(* became alone or found a first companion.                                *)
FullOnlyWithoutLocks(g, locks, e, from, to) == {from, to} \cap locks[e] = {}
LooksAtAllPins(g, locks, e, from, to) ==
  \/ {from, to} \cap locks[e] = {}
  \/ unequalStates(locks, e, from, to) /\ ChangesConnectivity(g, e, from, to)

(* The pins of e whose entries are updated.                                *)
UpdatedPins(g, locks, moved, e, from, to) ==
  {u \in pins(g, e) \ {moved} :
     \/ LooksAtAllPins(g, locks, e, from, to)
     \/ g.part[u] = from /\ g.pins_in_part[e][from] = 1
     \/ g.part[u] = to /\ g.pins_in_part[e][to] = 2}

(* Entries that go because their node lost its last net to `from', and     *)
(* entries that come because a net now connects `to'.                      *)
Disconnected(val, g, locks, moved, from, to) ==
  {u \in g.on \ {moved} :
     /\ val[u][from] # kNotCached /\ ~isConnectedToPart(g, u, from)
     /\ \E e \in g.nets[moved] : /\ u \in pins(g, e) /\ g.pins_in_part[e][from] = 0
                                 /\ LooksAtAllPins(g, locks, e, from, to)}
NewlyAdjacent(val, g, locks, moved, from, to) ==
  {u \in g.on \ {moved} :
     /\ val[u][to] = kNotCached
     /\ \E e \in g.nets[moved] : /\ u \in pins(g, e) /\ g.pins_in_part[e][to] = 1
                                 /\ LooksAtAllPins(g, locks, e, from, to)}

(* The moved node itself: its gains towards third parts, of nets that it   *)
(* left alone or that it is the first to bring to its new part.            *)
MovedNodeDelta(g, moved, from, to) ==
  MapThenSumSet(
    LAMBDA e : LET left == g.pins_in_part[e][from] = 0
                   first == g.pins_in_part[e][to] = 1
               IN IF left /\ ~first THEN -g.edge_weight[e]
                  ELSE IF ~left /\ first THEN g.edge_weight[e] ELSE 0,
    g.nets[moved])

EntryDelta(g, locks, moved, from, to, u, p) ==
  IF u = moved THEN IF p \in {from, to} THEN 0 ELSE MovedNodeDelta(g, moved, from, to)
  ELSE MapThenSumSet(LAMBDA e : GainDelta(g, e, from, to, u, p),
                     {e \in g.nets[u] \cap g.nets[moved] :
                        u \in UpdatedPins(g, locks, moved, e, from, to)})

CacheUpdates(val, g, locks, moved, from, to) ==
  EntryUpdates(val, g, moved, from, to, Disconnected(val, g, locks, moved, from, to),
               NewlyAdjacent(val, g, locks, moved, from, to),
               LAMBDA u, p : EntryDelta(g, locks, moved, from, to, u, p))

-----------------------------------------------------------------------------
(* The search.                                                             *)

Init == SearchInit /\ unremovable = NoLocks
StartSearch == StartOfSearch /\ unremovable' = NoLocks
EndSearch == EndOfSearch /\ unremovable' = NoLocks

(* Pins that the nets of a move activate, and those it takes out because   *)
(* they became internal.                                                   *)
ActivatedByMove(g, moved, from, to) ==
  UNION {pins(g, e) \ (active \cup marked) :
           e \in {e \in g.nets[moved] :
                    /\ g.size[e] <= HyperedgeSizeThreshold
                    /\ \/ {from, to} \cap unremovable[e] = {}
                       \/ /\ unequalStates(unremovable, e, from, to)
                          /\ g.pins_in_part[e][to] = 1}}
(* Mutant: internal nodes keep their moves when a part of the net is       *)
(* locked.                                                                 *)
RemovedByFreeNets(g, moved, from, to) ==
  {u \in active : /\ ~isBorderNode(g, u)
                  /\ \E e \in g.nets[moved] : u \in pins(g, e) /\ {from, to} \cap unremovable[e] = {}}
RemovedByMove(g, moved, from, to) ==
  {u \in active :
     /\ ~isBorderNode(g, u)
     /\ \E e \in g.nets[moved] :
          /\ u \in pins(g, e)
          /\ \/ {from, to} \cap unremovable[e] = {}
             \/ unequalStates(unremovable, e, from, to) /\ g.pins_in_part[e][from] = 0}

(* The nets that change the keys of a node: those with both parts locked   *)
(* update the cache only.                                                  *)
KeyNets(g, moved, from, to, u) ==
  {e \in g.nets[u] \cap g.nets[moved] :
     /\ ~bothUnremovable(unremovable, e, from, to)
     /\ u \in UpdatedPins(g, unremovable, moved, e, from, to)}

(* Mutant: a node that cannot move locks nothing.                          *)
OnlyMovesLock(u, p, moves) ==
  [e \in Nets |-> IF moves /\ e \in hg.nets[u] THEN unremovable[e] \cup {p} ELSE unremovable[e]]
(* Part p becomes unremovable in the nets of u, whether u moves there or   *)
(* cannot leave it.                                                        *)
LockPart(u, p, moves) ==
  [e \in Nets |-> IF e \in hg.nets[u] THEN unremovable[e] \cup {p} ELSE unremovable[e]]

Move(moved, to) ==
  /\ BestMove(moved, to) /\ moveIsFeasible(hg, moved, to)
  /\ \E from \in {hg.part[moved]} : \E g \in {changeNodePart(hg, moved, from, to)} :
     \E updates \in {CacheUpdates(value, g, unremovable, moved, from, to)} :
       Moves(g, moved, from, to, updates,
             (active \ {moved}) \ RemovedByMove(g, moved, from, to),
             Activated(g, ActivatedByMove(g, moved, from, to) \ {moved}),
             LAMBDA u : KeysAfter(updates, u, from, to,
                          LAMBDA p : MapThenSumSet(LAMBDA e : GainDelta(g, e, from, to, u, p),
                                                   KeyNets(g, moved, from, to, u))))
  /\ unremovable' = LockPart(moved, to, TRUE)

(* A node that cannot move locks its part in all its nets, so their other  *)
(* border pins have to be activated now.                                   *)
CannotMove(node, to) ==
  /\ BestMove(node, to) /\ ~moveIsFeasible(hg, node, to)
  /\ LET small == {e \in hg.nets[node] : hg.size[e] <= HyperedgeSizeThreshold}
     IN Stays(node, Activated(hg, UNION {pins(hg, e) : e \in small} \ (active \cup marked \cup {node})))
  /\ unremovable' = LockPart(node, hg.part[node], FALSE)

(* In the moves of the flow refiner locks hold within the list.            *)
CacheAfterMove(val, g, u, to, first) ==
  LET locks == IF first = Nothing THEN NoLocks
               ELSE [e \in Nets |-> IF e \in g.nets[first[1]] THEN {first[2]} ELSE {}]
      from == g.part[u]
  IN ValueAfter(CacheUpdates(CacheForMove(val, g, u, to), changeNodePart(g, u, from, to), locks, u,
                             from, to))
performMovesAndUpdateCache == FlowMoves(CacheAfterMove) /\ UNCHANGED unremovable

Next ==
  \/ Uncontract /\ UNCHANGED unremovable
  \/ performMovesAndUpdateCache \/ StartSearch \/ EndSearch
  \/ \E u \in Nodes, to \in Parts : Move(u, to) \/ CannotMove(u, to)

-----------------------------------------------------------------------------
(* Every free border node that shares a small net with a node that was     *)
(* looked at is active or was looked at itself; internal nodes are not     *)
(* active.                                                                 *)
NeighboursAreActive ==
  phase = "search" =>
    /\ active \cap marked = {} /\ \A u \in active : isBorderNode(hg, u)
    /\ \A m \in marked : \A e \in hg.nets[m] : \A u \in pins(hg, e) :
         hg.size[e] <= HyperedgeSizeThreshold /\ isBorderNode(hg, u) /\ ~isFixedVertex(hg, u)
           => u \in active \cup marked

(* The parts of a net that are locked are those of its pins that were      *)
(* looked at (the check in updateNeighbours).                              *)
LocksAreOfMarkedPins ==
  phase = "search" =>
    \A e \in hg.live : unremovable[e] = {hg.part[u] : u \in pins(hg, e) \cap marked}
=============================================================================
