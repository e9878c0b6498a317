----------------------------- MODULE Simulation -----------------------------
(***************************************************************************)
(* The two programs that drive NeuroSim: HyperMR, which simulates the      *)
(* queries of a plan on a chip it builds for that simulation and frees     *)
(* after it (Executor::simulation), as often as an experiment asks for it; *)
(* and NeuroSim's own main, which builds one chip, measures the clock      *)
(* first if the chip is synchronous, and evaluates layer after layer.      *)
(*                                                                         *)
(* Objects are global pointers, a method asks a flag before it computes,   *)
(* and figures are public members: nothing but the order of the calls      *)
(* makes a figure exist before it is read.                                 *)
(***************************************************************************)
EXTENDS Chip

CONSTANT Option         \* the configurations of Param.cpp considered

VARIABLES program,      \* "HyperMR" or "NeuroSim"
          pc,           \* what the program does next
          chip          \* figures, live and lost objects, wrongs (Circuits)

vars == <<option, program, pc, chip>>

\* A global of Definition.h holds a Param before main starts.
Init ==
  /\ option \in Option
  /\ program \in {"HyperMR", "NeuroSim"}
  /\ pc = "idle"
  /\ chip = [figures |-> <<>>, live |-> {"param"}, lost |-> {}, wrongs |-> {}]

Do(steps, next) ==
  /\ chip' = Run([chip EXCEPT !.wrongs = {}], steps)
  /\ pc' = next
  /\ UNCHANGED <<option, program>>

\* The stages of an adder tree: none for one operand, several otherwise.
Stages == {0, 2}

-----------------------------------------------------------------------------
(* HyperMR                                                                 *)

\* Executor::simulation up to the queries.
SimulationStarts ==
  /\ program = "HyperMR" /\ pc = "idle"
  /\ Do(<<New({"param"})>> \o ChipDesignInitializeV1 \o ChipInitializeV1
          \o ChipCalculateAreaV1, "queries")

\* One of the tiles a query reads (ChipCalculatePerformanceV1).
TileOfQuery ==
  /\ program = "HyperMR" /\ pc \in {"queries", "tiles"}
  /\ \E stages \in Stages : Do(TileCalculatePerformanceV1(stages, FALSE) \o <<Forget>>, "tiles")

\* The rest of ChipCalculatePerformanceV1; the results of several tiles in a
\* column have to be added up.
EndOfQuery ==
  /\ program = "HyperMR" /\ pc = "tiles"
  /\ \E severalTiles \in BOOLEAN : Do(QueryPerformanceV1(severalTiles) \o <<Forget>>, "queries")

SimulationEnds ==
  /\ program = "HyperMR" /\ pc = "queries"
  /\ Do(freeGlobalVar, "idle")

-----------------------------------------------------------------------------
(* NeuroSim                                                                *)

\* main up to the layers; ChipDesignInitialize is called for two results and
\* allocates twice.
ChipStarts ==
  /\ program = "NeuroSim" /\ pc = "idle"
  /\ Do(ChipDesignInitialize \o ChipDesignInitialize \o ChipInitialize,
        IF option.synchronous THEN "clock" ELSE "layers")

\* A tile of a layer, mapped and sped up as the floor plan says.
TileOfLayer ==
  /\ program = "NeuroSim"
  /\ pc \in {"clock", "layers", "tiles"}
  /\ \E novelMap \in {FALSE, option.novelMapping}, speedUp \in {"none", "partial", "full"},
        dup \in {"none", "partial", "full"}, stages \in Stages :
       /\ novelMap => speedUp = "none"
       /\ speedUp # "full" => dup = "none"
       /\ Do(TileCalculatePerformance(novelMap, speedUp, dup, stages, pc = "clock") \o <<Forget>>,
             IF pc = "clock" THEN "clock" ELSE "tiles")

ClockIsMeasured ==
  /\ program = "NeuroSim" /\ pc = "clock"
  /\ Do(<<>>, "layers")

EndOfLayer ==
  /\ program = "NeuroSim" /\ pc = "tiles"
  /\ \E severalTiles, followedByMaxPool \in BOOLEAN :
       Do(LayerPerformance(severalTiles, followedByMaxPool) \o <<Forget>>, "layers")

Next ==
  \/ SimulationStarts \/ TileOfQuery \/ EndOfQuery \/ SimulationEnds
  \/ ChipStarts \/ TileOfLayer \/ ClockIsMeasured \/ EndOfLayer

Spec == Init /\ [][Next]_vars

-----------------------------------------------------------------------------
conventional == conventionalSequential \/ conventionalParallel

\* What HyperMR's simulation is built for, the two modes Param.cpp lists:
\* every figure that enters a latency or an area was computed, by a circuit
\* that was initialised once, and for the unit it is added up for, in every
\* configuration and in every simulation of a run.
FiguresAreComputed ==
  program = "HyperMR" /\ conventional => chip.wrongs = {}

\* Elsewhere the figures that are read without having been computed are these.
NoBreakdown(w) ==
  ~ conventional /\ w[2] = TheSubArray /\ w[3] \in {"AreaADC", "PowerADC"}

NoMultiplexer(w) ==
  SRAM /\ BNNorXNORparallel /\ w[2][1] = "subArrayInPE" /\ Len(w[2]) > 1
    /\ w[2][2] \in {"mux", "muxDecoder"}

NoChipArea(w) == program = "NeuroSim" /\ w[2][1] # "subArrayInPE" /\ w[3] \in {"Area", "UnitArea"}

NothingToAdd(w) ==
  program = "NeuroSim" /\ w[3] = "Power" /\ w[2] \in {Unit(m, NM) : NM \in BOOLEAN, m \in {"adderTree", "accumulation"}}

UnchargedBuffer(w) == option.synchronous /\ w[3] = "Load" /\ w[2][Len(w[2])] = "precharger"

GapsAreKnown ==
  \A w \in chip.wrongs :
    w[1] # "dangling" => NoBreakdown(w) \/ NoMultiplexer(w) \/ NoChipArea(w) \/ NothingToAdd(w)
                           \/ UnchargedBuffer(w)

\* No circuit is used after it was freed, in whatever order simulations are
\* started and ended, none is freed twice, and a simulation frees what it
\* allocated but for the SubArray of TileInitialize, which
\* ProcessingUnitInitialize replaces, and the activation units of the tiles.
ObjectsAreAlive ==
  /\ \A w \in chip.wrongs : w[1] # "dangling"
  /\ program = "HyperMR" => chip.lost \subseteq {"param", "subArrayInPE"} \cup ActivationGlobals
  /\ program = "HyperMR" /\ pc = "idle" => chip.live \subseteq {"param"} \cup ActivationGlobals

=============================================================================
