------------------------------ MODULE KwayCutFM ------------------------------
(***************************************************************************)
(* Direct k-way FM local search for the cut (refinement/                   *)
(* kway_fm_cut_refiner.h).  A net none of whose pins was moved is free,    *)
(* one whose moved pins are all in one part is loose, and any other is     *)
(* locked: it stays cut until the search ends.                             *)
(***************************************************************************)
EXTENDS KwaySearch

VARIABLES
  he_state,      (* _locked_hes: free, locked, or the part of a loose net. *)
  fully_active   (* _he_fully_active                                       *)
vars == <<search_vars, he_state, fully_active>>

free == -1
locked == -2

-----------------------------------------------------------------------------
(* What a move does to net e; g is the hypergraph after the move.          *)

before(g, e, from) == g.pins_in_part[e][from] + 1
after(g, e, to) == g.pins_in_part[e][to]
ChangesConnectivity(g, e, from, to) == before(g, e, from) = 1 \/ after(g, e, to) = 1
moveAffectsGainOrConnectivityUpdate(g, e, from, to) ==
  \/ ChangesConnectivity(g, e, from, to)
  \/ after(g, e, to) = g.size[e] - 1
  \/ before(g, e, from) = g.size[e] - 1

(* The change of the gain of moving pin u of e to part p.                  *)
GainDelta(g, e, from, to, u, p) ==
  LET uncut_before == before(g, e, from) = g.size[e] /\ p # from
      uncut_after == after(g, e, to) = g.size[e] /\ p # to
      last_outside == after(g, e, to) = g.size[e] - 1 /\ g.part[u] # to /\ p = to
      was_outside == before(g, e, from) = g.size[e] - 1 /\ g.part[u] # from /\ p = from
      one(b) == IF b THEN g.edge_weight[e] ELSE 0
  IN one(uncut_before) - one(uncut_after) + one(last_outside) - one(was_outside)

(* Free nets that become loose and loose nets that become locked get a     *)
(* full update, unless it could not change anything.                       *)
FullUpdates(g, moved, from, to) ==
  {e \in g.nets[moved] :
     /\ he_state[e] \notin {to, locked}
     /\ e \notin fully_active \/ moveAffectsGainOrConnectivityUpdate(g, e, from, to)}
RemainingLoose(g, moved, from, to) ==
  {e \in g.nets[moved] : he_state[e] = to /\ moveAffectsGainOrConnectivityUpdate(g, e, from, to)}
(* A locked net whose connectivity changes has no delta for a pin that     *)
(* was not looked at yet.                                                  *)
RemainingLocked(g, moved, from, to, u) ==
  {e \in g.nets[moved] :
     he_state[e] = locked /\ (ChangesConnectivity(g, e, from, to) => u \in marked)}
NetsWithDelta(g, moved, from, to, u) ==
  FullUpdates(g, moved, from, to) \cup RemainingLoose(g, moved, from, to)
    \cup RemainingLocked(g, moved, from, to, u)

(* The entries of the moved node towards third parts.                      *)
MovedNodeDelta(g, moved, from, to) ==
  MapThenSumSet(
    LAMBDA e : (IF before(g, e, from) = g.size[e] THEN g.edge_weight[e] ELSE 0)
               - (IF after(g, e, to) = g.size[e] THEN g.edge_weight[e] ELSE 0),
    g.nets[moved])
GainDeltas(g, nets, from, to, u, p) ==
  MapThenSumSet(LAMBDA e : GainDelta(g, e, from, to, u, p), nets \cap g.nets[u])

Disconnected(val, g, moved, from) ==
  {u \in g.on \ {moved} :
     /\ val[u][from] # kNotCached /\ ~isConnectedToPart(g, u, from)
     /\ \E e \in g.nets[moved] : u \in pins(g, e) /\ g.pins_in_part[e][from] = 0}
NewlyAdjacent(val, g, moved, to) ==
  {u \in g.on \ {moved} :
     /\ val[u][to] = kNotCached
     /\ \E e \in g.nets[moved] : u \in pins(g, e) /\ g.pins_in_part[e][to] = 1}

CacheUpdates(val, g, moved, from, to, NetsOf(_)) ==
  EntryUpdates(val, g, moved, from, to, Disconnected(val, g, moved, from),
               NewlyAdjacent(val, g, moved, to),
               LAMBDA u, p : IF u = moved THEN MovedNodeDelta(g, moved, from, to)
                             ELSE GainDeltas(g, NetsOf(u), from, to, u, p))

-----------------------------------------------------------------------------
(* The search.                                                             *)

AllFree == [e \in Nets |-> free]
Init == SearchInit /\ he_state = AllFree /\ fully_active = {}
StartSearch == StartOfSearch /\ he_state' = AllFree /\ fully_active' = {}
EndSearch == EndOfSearch /\ he_state' = AllFree /\ fully_active' = {}

ActivatedByMove(g, moved, from, to) ==
  UNION {pins(g, e) : e \in FullUpdates(g, moved, from, to)} \ (active \cup marked)
RemovedByMove(g, moved, from, to) ==
  {u \in active \ {moved} :
     /\ ~isBorderNode(g, u)
     /\ \E e \in FullUpdates(g, moved, from, to) \cup RemainingLoose(g, moved, from, to) : u \in pins(g, e)}

StatesAfter(moved, to) ==
  [e \in Nets |-> IF e \notin hg.nets[moved] \/ he_state[e] \in {locked, to} THEN he_state[e]
                  ELSE IF he_state[e] = free THEN to ELSE locked]

(* A net is fully active once all its pins have been looked at or are to   *)
(* be activated.  The first net that finds an active pin internal takes it *)
(* out, and later ones would activate it again; nets are visited in the    *)
(* order of their ids.                                                     *)
FullyActiveAfter(g, moved, from, to) ==
  LET full == FullUpdates(g, moved, from, to)
      removed == RemovedByMove(g, moved, from, to)
      first(u) == Min({e \in full \cup RemainingLoose(g, moved, from, to) : u \in pins(g, e)})
      counts(u, e) == \/ u \in marked \cup {moved}
                      \/ u \in active /\ (u \in removed => e # first(u))
                      \/ u \notin active /\ ~isFixedVertex(g, u)
  IN (fully_active \ full) \cup {e \in full : \A u \in pins(g, e) : counts(u, e)}

Move(moved, to) ==
  /\ BestMove(moved, to) /\ moveIsFeasible(hg, moved, to)
  /\ \E from \in {hg.part[moved]} : \E g \in {changeNodePart(hg, moved, from, to)} :
     \E unlocked \in {FullUpdates(g, moved, from, to) \cup RemainingLoose(g, moved, from, to)} :
     \E updates \in {CacheUpdates(value, g, moved, from, to,
                                  LAMBDA u : NetsWithDelta(g, moved, from, to, u))} :
       /\ Moves(g, moved, from, to, updates,
                (active \ {moved}) \ RemovedByMove(g, moved, from, to),
                Activated(g, ActivatedByMove(g, moved, from, to) \ {moved}),
                LAMBDA u : KeysAfter(updates, u, from, to,
                                     LAMBDA p : GainDeltas(g, unlocked, from, to, u, p)))
       /\ fully_active' = FullyActiveAfter(g, moved, from, to)
  /\ he_state' = StatesAfter(moved, to)

(* A node that cannot move locks nothing.                                  *)
CannotMove(node, to) ==
  /\ BestMove(node, to) /\ ~moveIsFeasible(hg, node, to)
  /\ Stays(node, {})
  /\ UNCHANGED <<he_state, fully_active>>

(* The moves of the flow refiner update the cache for all pins; the states *)
(* they leave are reset before they are read.                              *)
CacheAfterMove(val, g, u, to, first) ==
  LET from == g.part[u]
  IN ValueAfter(CacheUpdates(CacheForMove(val, g, u, to), changeNodePart(g, u, from, to), u, from, to,
                             LAMBDA v : g.nets[u]))
performMovesAndUpdateCache == FlowMoves(CacheAfterMove) /\ UNCHANGED <<he_state, fully_active>>

Next ==
  \/ Uncontract /\ UNCHANGED <<he_state, fully_active>>
  \/ performMovesAndUpdateCache \/ StartSearch \/ EndSearch
  \/ \E u \in Nodes, to \in Parts : Move(u, to) \/ CannotMove(u, to)

-----------------------------------------------------------------------------
Moved == {performed_moves[i].node : i \in DOMAIN performed_moves}

(* Every free border node that shares a net with a node that was moved, or *)
(* a fully active one with any, is active or was looked at itself;         *)
(* internal nodes are not active.                                          *)
NeighboursAreActive ==
  phase = "search" =>
    /\ active \cap marked = {} /\ \A u \in active : isBorderNode(hg, u)
    /\ \A e \in hg.live : \A u \in pins(hg, e) :
         /\ e \in fully_active \/ pins(hg, e) \cap Moved # {}
         /\ isBorderNode(hg, u) /\ ~isFixedVertex(hg, u)
         => u \in active \cup marked

(* The state of a net is that of the parts its moved pins are in, so that  *)
(* locked nets are cut.                                                    *)
StatesAreOfMoves ==
  phase = "search" =>
    \A e \in hg.live :
      LET parts == {hg.part[u] : u \in pins(hg, e) \cap Moved}
      IN CASE he_state[e] = free -> parts = {}
           [] he_state[e] = locked -> Cardinality(parts) >= 2
           [] OTHER -> parts = {he_state[e]}
=============================================================================
