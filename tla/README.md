# HyperMR: a verification development

HyperMR stores a sparse matrix on a compute-in-memory chip. It reorders the rows and the columns so that
the nonzeros fall into few storage units, allocates processing elements (PEs) and tiles only for windows that hold a
nonzero, plans which of them a workload of queries accesses, and predicts or simulates what that costs. The reordering is
found by KaHyPar, a multilevel hypergraph partitioner, and the simulation is NeuroSim's, both vendored in the repository.
This directory holds TLA+ modules of that program, TLC configurations that check them on small instances, and theorems
that TLAPS proves for every instance. Paths below are relative to the repository; `kahypar/` stands for
`kahypar/kahypar/`. `PROJECT.json` maps each definition to the lines it models and lists the hazards line by line.

## The system

| Component | Source | State | Operations | Modules |
|---|---|---|---|---|
| Hypergraph nets | `src/storage/HyperGraph.cpp`, `HyperEdge.cpp` | the pins of a net, and how often each was inserted | `insert_pin`, two `merge_nets`, `nets_uncontraction`, `reset` | `HyperGraph` |
| Storage scheme | `src/storage/HyperMR.cpp` | nets, blocks of rows and columns; the matrix's imprints | `Storage::HyperMR`, its three schemes, the query-aware net generation | `Dimensions`, `IdBlocks`, `TwoPhasePartitioning`, `Reordering` |
| Storage model | `src/storage/Matrix.cpp` | imprints, PEs, locations, number of tiles | `storage_model`, `reset_imprints` | `StorageModel` |
| Physical plan | `src/query/Executor.cpp`, `Operator.cpp` | per workload: plans, sizes, totals | `physical_plan`, `gaussian_smoothing` | `PhysicalPlan` |
| Experiment driver | `test/test.cpp` | keywords, one matrix, order files, result lines, log | experiments 1 to 4 | `Experiments` |
| Simulation | `src/query/Executor.cpp`, `src/simulator/NeuroSimAPI.cpp`, `NeuroSim/` | global circuits and their figures | the adapter's calls, `Initialize`, `CalculateArea`, `CalculateLatency`, `CalculatePower` | `Circuits`, `SubArray`, `Chip`, `Simulation` |
| Dynamic hypergraph | `kahypar/datastructure/hypergraph.h` | slots of nets, pins per block, weights, fixed vertices | contract, uncontract, move, remove and restore nets, merge parallel nets | `KHypergraph` |
| Multilevel scheme | `kahypar/partition/multilevel.h`, `coarsening/` | history of contractions, removed nets, heaviest nodes | coarsen, prune, partition, uncoarsen, V-cycles, combine | `Multilevel` |
| Local search | `kahypar/partition/refinement/` | gain cache, queues, locks, moves performed | two-way FM, k-way FM for km1 and for the cut | `TwoWayFM`, `KwaySearch`, `KwayFM`, `KwayCutFM`, `LocalSearch` |
| Initial partitioning | `kahypar/partition/initial_partitioning/` | queues, scores, the pool's best partition | all partitioners of the pool with their policies | `InitialPartitioner`, `GreedyGrowing`, `InitialPartitioning` |
| Recursive bisection | `kahypar/partition/recursive_bisection.h`, `bin_packing/`, `fixed_vertices.h` | the stack of hypergraphs and mappings | extraction, mapping back, prepacking, restarts, matching | `Subhypergraph`, `BinPacking`, `FixedVertices`, `RecursiveBisection` |
| Preprocessing | `kahypar/partition/preprocessing/`, `partitioner.h` | removed nets, clusters, communities | deduplication, removers, sparsifier, Louvain | `Preprocessing`, `Louvain` |
| Containers | `kahypar/datastructure/` | arrays that forget without being cleared | insert, remove, update, top, clear | `Containers`, `Container` |

How they interact. The driver reads a dataset into a `Matrix`, runs the storage model on it (the state *before
optimization*), builds a workload and has `Executor` plan it. Then, for each chosen storage scheme, the matrix's imprints
are rewritten (by `Storage::HyperMR`, or by loading a file that experiment 4 wrote in an earlier run), the result is
checked, the storage model and the plan are run again, a line is appended to a result file, and `reset_imprints` undoes
the reordering. All share the one `Matrix`: `HyperMR` reads `valid_map` and writes the imprints, the storage model reads
the imprints and writes the storage units, the executor reads the storage units. Nothing keeps these in step except the
order of the calls. `Storage::HyperMR` calls KaHyPar twice, through its C interface. Inside KaHyPar one hypergraph object
is changed in place by everyone: preprocessing, coarsening, initial partitioning (on extracted copies), local search.
The executor's `simulation` calls the adapter once per plan, which works on NeuroSim's global objects.

What is hard. The program is one thread, so there are no races; what can go wrong is of another kind:

* *Two encodings of one thing*: a net's pins and its pin counts; blocks and the imprints they become; a partition and the
  gains, counts and queues that are maintained beside it; the objective the partitioner minimises and the cost reported;
  lists of the executor that are written under different conditions and read by one index.
* *Undoing*: uncontraction, restoring of nets, roll-back of moves and of gain changes, in exactly the reverse order, over
  state that others changed in between.
* *State that stays behind*: on the matrix between schemes, in files between runs, in the hypergraph between V-cycles, in
  containers that are cleared by raising a threshold, in the contexts that one initial partitioner leaves to the next.
* *Padding*: dimensions are rounded up to whole storage units, so every imprint has ids that stand for no row or column.
* *Partial failure*: a dataset that cannot be read, an order file that is missing or cut short because the run that wrote
  it was killed, a time limit in the middle of uncoarsening, nodes that fit into no block.
* *Order of calls*: a NeuroSim figure exists only if every method before it took the matching branch.

## Modules

### HyperMR

| Module | What it models |
|---|---|
| `Dimensions` | Rounding up to storage units; orders of ids (imprints). |
| `Reordering` | *Abstract specification*: what a storage scheme promises. Both imprints are permutations of the padded ids, or the original order. |
| `IdBlocks` | Partitions of ids into blocks as the partitioner may return them, the contiguous contraction, and the order that results when blocks are written one after the other. |
| `TwoPhasePartitioning` | `Storage::HyperMR`; implements `Reordering`. |
| `HyperGraph` | A net's life: `merge_nets`, `nets_uncontraction`, `reset`. |
| `StorageModel` | `Matrix`: imprints and `storage_model`, window by window. |
| `PhysicalPlan` | `Executor::physical_plan`, pattern by pattern; `gaussian_smoothing` as the operator that makes its workloads. |
| `Experiments` | The driver: experiments 1 to 4 over several runs, their files, kills. |
| `Circuits`, `SubArray`, `Chip`, `Simulation` | NeuroSim and the adapter: who is initialised, measured and read, in which order. |

`TwoPhasePartitioning` has the first phase, the merging and the second phase as separate steps, with the local variables
of the C++ functions (`RowHG`, `ColumnHG`, `QueryRowNetHG`, `MergedColumnHG`, `row_partitions`, `column_partitions`) as state:

| Action | Code |
|---|---|
| `Call` | the driver's calls of `Storage::HyperMR`; a workload is passed to the query-aware scheme only |
| `BuildHypergraphs` | `HyperMR.cpp` 236-288: both nets, the contiguous blocks, the choice of the scheme |
| `QueryAwareGeneration` | `query_aware_hypergraph_generation`: one net per pattern and accessed row, then one per row for columns no pattern reads |
| `PartitionColumns` | first phase (the storage-optimized scheme has none) |
| `MergeColumns` | the merged net of each column block |
| `PartitionRows` | second phase |
| `WriteImprints` | 290-305 |
| `Return` | the call's locals end; the driver calls `reset_imprints` |

Here the partitioner is an environment: `Partitions(n, k)` is every assignment in which no block is heavier than
*n/k* rounded up, which is KaHyPar's contract for imbalance 0, and no property depends on the quality of a partition.
KaHyPar may return a worse balance with a warning; what it does inside is the subject of the modules below. Net weights
are left out since every caller sets 1. A pattern is a record of type `Range` (inclusive bounds that may lie outside the
matrix) or `Smoothing` (a set of rows and a set of columns), as in `WorkloadPattern`.

`HyperGraph` keeps `pins` and `pin_count` as the code does. `held` is what a caller knows, and is read only by the
properties and by the guard that pairs an uncontraction with a contraction that was not clipped. No caller in the
program uncontracts; the class offers it.

`StorageModel` keeps the loop of `storage_model` as a state: `window` is the place of the window scanned next. What a scan
leaves behind stays until the next, while the imprints change; `scanned` (read by the properties only) remembers the
imprints of the last scan. Reordering is any pair of permutations, that is `Reordering`.

`PhysicalPlan` handles one pattern per step. A storage unit is represented by the window its nonzeros lie in, since only
who shares a PE and who shares a tile is read. The cost model's reads past the last column of `valid_map` (a range one
past the matrix) are undefined behaviour and may count each such column as zero or not.

`Experiments` keeps the control of the driver: rounds, datasets, schemes, the keywords that decide what happens, the
`.mtx` files that can be opened, the order files and result lines. What a scan or a plan computes is represented by the
order it is computed from. A stream reaches the disk in pieces that end at any byte (but for the header, which `endl` writes
at once), so a killed run leaves a file cut between two ids or inside one, whose first digits are read as another id.

`Simulation` names a circuit by its path from the global that holds it. A method is the sequence of its steps in the
order of the code; a step initialises, measures or reads, and a figure is in the state once it was computed. Which
branch a method takes depends on the operation mode, the memory cell and the parameters, as in the code.

### KaHyPar

A state of `KHypergraph` is a record `hg` with the arrays of the C++ class, among them `slots` (the incidence array, whose
tail keeps the pins that were cut off) and `nets`; every method is an operator that returns the next record. All other
modules of KaHyPar that change the hypergraph in place use these operators.

| Module | What it models |
|---|---|
| `Multilevel` | One call of the partitioner from coarsening to the last V-cycle. `Visit(hn)` is the body of the coarsener's loop: rate, contract, prune. `Uncontract` is one round of `doUncoarsen` before refinement, in the order of the code: parallel nets, heaviest nodes, the node, single-node nets. `Refine` is what all searches of a level leave: any blocks for any number of free nodes that are cheaper and in balance, or no more expensive and less out of balance, as `LocalSearch` says of each search (the slack only lets a search pass through blocks that are too heavy); the counts are updated by one move after the other. `SoftTimeLimitExceeded` ends uncoarsening early; `InitialPartition` and the contexts cover the evolutionary calls. |
| `TwoWayFM`, `KwayFM`, `KwayCutFM` (on `KwaySearch`) | The refiners on the levels after given contractions: activation, one move per step with all delta-gain updates and locks, the end of a search with roll-back of moves and cache, the next uncontraction with its repair of the cache. |
| `LocalSearch` | *Abstract specification* of the three: the partition of the input hypergraph is only replaced by a better one. |
| `InitialPartitioner` | What all initial partitioners share: the repeated runs, the pool, gain, start-node and queue policies, `kway_priority_queue.h` as they use it. |
| `GreedyGrowing`, `InitialPartitioning` | The nine greedy variants; label propagation, breadth first search, random, bin packing. |
| `Subhypergraph`, `RecursiveBisection` | Extraction, reindexing, the stack of `recursive_bisection.h`, early and late restarts. |
| `BinPacking`, `FixedVertices` | Worst fit and first fit, the two-level packer, prepacking; the Hungarian method on the blocks of fixed vertices. |
| `Louvain`, `Preprocessing` | Community detection on the graph of a hypergraph; everything a call of `Partitioner` does before and after partitioning, and the calls after it. |
| `Container` | *Abstract specification* of a data structure: entries in parts, of which some are open. |
| `Containers` | The heap with handles, the bucket queue, the queue of queues, sparse sets and maps, flag and reset arrays, connectivity sets, hash tables; each implements `Container`. |

`MCPartitioner` puts the components inside the multilevel scheme into one run: a behaviour is one of a single component,
chosen in the initial state, and the components share variables.

## Runs

| Run | Instance | States | What it shows |
|---|---|---|---|
| `hypergraph` | 3 nets, 3 vertices, all pins; symmetry of the nets | 3,654 | `PinsAreUnion`, `CountsAreMultiplicities` |
| `two_phase` | 3 x 4 matrix, units 2 x 3, at most 3 nonzeros, 4 workloads | 766,038 | `BlocksFillUnits`, `MergedNetsAreBlockRows`, `QueryNetsCoverColumns`, `ConnectivityIsStorage`, `ConnectivityIsCommunication`; refinement `ImplementsReordering` |
| `storage_model` | 3 x 3 matrix padded to 4 x 3, PEs 2 x 1, tiles 1 x 2, at most 3 nonzeros | 394,908 | `UnitsAreRight`, `PEsAreOfTheScan` |
| `physical_plan` | 3 x 3 matrix, 2 x 2 windows, tiles 1 x 2, 4 workloads, with and without the cost model | 208,000 | `PlansAreExact`, `CostsAreExact`, `TotalsMatchPlans`, `AlignedWhileAllRead` |
| `experiments` | 2 datasets, 2 orders of 4 rows and 7 columns, 21 configurations, 2 runs | 526,664 | `FilesAreRight`, `CheckFindsLostIds`, `FiguresAreRight`; liveness `ReachedIsReported` |
| `simulation` | 6 modes, 3 cells, 72 parameter files | 4,127 | `FiguresAreComputed`, `GapsAreKnown`, `ObjectsAreAlive` |
| `multilevel` | 5 nodes, 5 nets, 8 contexts | 73,465 | `LevelsAreRestored`, `ParallelNetsAreFound`, `PartitionInfoIsRight`, `SlackCoversHeaviestNode`, `ObjectiveProjects`, `FixedVerticesAreKept`, `ChildIsNoWorse`; liveness `Finishes` |
| `partitioner` | the instances of `MCPartitioner` | 176,355 | `GainsAreRight`, `NeighboursAreActive`, `QueuesAndLocksAreRight`, `ObjectiveIsTracked`, `BisectionsAddUp`, `PackingsAreSafe`, `FixedVerticesFitBest`, `InitialPartitionsAreRight`, `PreprocessingIsRight`; refinement `ImplementsSpecification`; liveness `Terminates` |
| `simulated_size`, `rows_left` | as `physical_plan` | violation | see Findings |
| `after_optimization`, `baseline_query_aware` | as `experiments` | violation | see Findings |

The bounds, and why they are enough:

* Three nets over three vertices give a pin no, one, two and three holders, which is all the test `pin_count == 1` distinguishes.
* The matrix of `two_phase` has a padding row and two padding columns, two blocks each way, and every balanced partition is
  tried. Three nonzeros suffice for a unit with none, one or several, and for two rows that share a column. The workloads
  are those of the experiments (none, a range one past the matrix, overlapping ranges, smoothing).
* The matrix of `storage_model` has a padding row, two rows of tiles and a second column of tiles that is half full. One
  reordering (`MaxReorders`), with resets and scans in any number, gives every pair of scans in different orders.
* The workloads of `physical_plan` are two that `GaussianSmoothing` makes, a range one past the matrix, and one with an empty
  pattern and a pattern that may read nothing before others. Patterns are independent but for the place they write to.
* Two runs (`MaxRuns`) let the second find what the first left, whole or cut. Numerals have base 2 (`Base`), so that ids
  below 8 have several digits, and files end in or after three chosen ids (`CutPlaces`): a row; a padding column whose cut
  makes up for two columns lost behind it; the last but one column, where one order has lost column 0 or an id is cut and
  nothing is lost. Two datasets allow an unreadable one before or after a readable one.
* The hypergraph of `multilevel` has two nets that become parallel by one contraction, a pair that becomes a single node,
  a heavy net, a heavy node, and hashes that collide. The contexts have a V-cycle, a time limit, three blocks and a vertex
  fixed to the last, communities, fixed vertices with an input partition, mutations and combines. Searches choose among
  all partitions of a level.
* The searches of `partitioner` have seven (six) nodes, two contractions, so that caches and queues outlive a level, two
  iterations per level, and all partitions of the nodes not named; the other instances are described in `MCPartitioner`,
  each beside what it makes happen (a restart at either level, a node that fits nowhere, a last heap element that rises,
  a threshold that wraps around, keys that collide at the end of a table, a pass that max_pass_iterations ends, fixed
  vertices that fit into their blocks, and bounds under which overloading a block would save more).
* The parameter files of `simulation` choose every pair of the options that interact.

`physical_plan`, `experiments`, `multilevel` and the violation runs do not check for deadlock: the function returns after
the last pattern, nobody starts another run after `MaxRuns`, the partitioner returns. `partitioner` and `simulation`
stutter when they are done, so a missing step in between is reported as a deadlock.

Fairness. `Experiments` has `WF_vars(Step)`: a run is a single thread that the operating system keeps running until it
ends or is killed; starting runs and killing them is not fair. `Multilevel` has `WF_vars(Next)` for the same reason.
`MCPartitioner` states the same as `Fairness`, a run goes on until its phase is "done". That such systems could fail
to end is not obvious: passes go on as long as they contract, V-cycles as long as they improve, queues may be refilled.

## Findings

* `SimulatedSizeIsThePlans` (`Executor.cpp:164`): sizes and plans are indexed alike by `cost_model` and `simulation`, but a
  pattern that reads no nonzero leaves only a size, and a later plan is simulated with the size of another query.
  `AlignedWhileAllRead` shows that this is the only way.
* `RowsLeftAreRows` (`Executor.cpp:54`): for a range query the cost model subtracts every all-zero row of the matrix, not
  of the range; the number of rows may be negative.
* `FiguresAreAfterOptimization` (`test.cpp:578`): without `compression-ratio` the figures called "after optimization" are
  those of the old order. `FiguresAreRight` shows that with it, as in all shipped configurations, they are right.
* `BaselineIsNotQueryAware` (`test.cpp:162`): `keyWords["query-aware-optimization"] == false;` compares where it means to assign.

What the passing properties say of weak spots of the code:

* `CheckFindsLostIds` states exactly what `check-result` is worth. As long as no id stands twice, its sums find every lost id
  but 0. A file that ends inside an id can escape it: of 50 columns, a padding id 50 cut to 5 with the columns 2 and 3 lost
  behind it has the full sum. The property says that nothing else escapes: the ids lost sum to the one that stands twice.
* `GapsAreKnown` names the figures NeuroSim reads without having computed them, and when: the breakdown of area and energy
  in the BNN and XNOR modes (`ProcessingUnit.cpp` 244-247, 261-264); the multiplexer of SRAM cells in parallel BNN and XNOR
  reading (`SubArray.cpp` 758-760); the chip and tile areas in NeuroSim's own program; the adder trees of a PE that is
  duplicated throughout (`ProcessingUnit.cpp` 540, 564) and the accumulation of a tile that has nothing to add
  (`Tile.cpp` 557); the precharger of synchronous SRAM buffers. `FiguresAreComputed` shows that HyperMR's own simulation in
  the conventional modes meets none of them.
* Deduplication (off by default, `context.h:60`) ignores fixed vertices and node weights, and with community detection on
  it contradicts two assertions (`hypergraph.h:1769`, `partitioner.h:246`); `PreprocessingIsRight` is stated for what remains.
* The assertion of greedy growing that some queue is disabled when none can be polled holds for two blocks only.
* The matching of fixed vertices weighs a pair that overloads a block by minus the weight of all nets, to discard it
  (`fixed_vertices.h` 424-430). For km1 a net counts once for every connection that is saved, so the other pairs may make up
  for that, and a block is overloaded where a renaming without overload exists. `FixedVerticesFitBest` says how far this
  goes: what is chosen is no worse than any renaming that overloads nothing, and better by that weight for each block
  it overloads. For the cut no net counts twice.
* `InsertOnlyHashSet` marks empty slots by the largest key. Inserting that key itself a second time falls through to the
  ordinary keys (`hash_table.h:821`) and makes the set grow. `Containers` has the fall-through and leaves this one call out,
  as the caller inserts numbers of clusters, which are smaller; with the call the refinement fails. All other keys
  that mark slots are among the keys tried. Iterating over tables is not modelled.
* The number of nodes of a block (`partSize`) is not what it counts while a partitioned hypergraph is coarsened and
  uncoarsened, in V-cycles and in the calls that keep a partition: `contract` takes nothing off, `uncontract` adds one
  (`hypergraph.h:1152`), so contracted nodes are counted twice. `PartitionInfoIsRight` therefore does not speak of it. The
  k-way refiners use the number not to empty a block, which it then does not prevent.
* Initial partitions may leave a block too heavy; the properties state by which rule, not that it never happens.
* `Sound` in `Multilevel` names two uses in which the scheme goes wrong: V-cycles after a combine, and V-cycles after the
  time limit. The end of the argument for `PartitionProofs` below says what happens then.

## Proofs

All theorems hold for every value of the constants under the modules' assumptions. These say: dimensions and units are
positive; matrices are sets of positions, workloads sequences of patterns; the nets of a hypergraph are finitely many;
orders are permutations; a context's hypergraph is one that the constructor and `setFixedVertex` make (`IsConstructed`:
nets of distinct pins, nothing contracted or removed, the fixed weights those of the fixed vertices), and the partitions
given to the partitioner, as input or as parents of a combine, put fixed vertices where they belong (`PartitionsOf`, which
the assertion at the end of `Partitioner::partition` says of every partition it returns). The storage schemes' view of the
partitioner is part of their model (`Partitions`).

| Module | Theorems | Argument |
|---|---|---|
| `HyperGraphProofs` | `ContractionCorrect`, `CountsCorrect`, `TypeCorrect` | Over a weak typing with integer counts, `PinsAreUnion /\ CountsAreMultiplicities` is inductive: an uncontraction erases a pin exactly if it removes the last of its `Holders`. That counts are natural numbers follows: they are cardinalities. |
| `TwoPhaseProofs` | `FlattenIsOrder` | If *n = k u* then *k* blocks of at most *u* ids that cover *n* ids have exactly *u* each; the rank of an id of block *b* lies in *b u .. (b+1) u - 1*; so the flattened blocks are a permutation, and block *b* stands on storage unit *b*. |
| | `TypeCorrect`, `BlocksFillUnitsCorrect`, `MergedNetsCorrect`, `QueryNetsCoverCorrect`, `ConnectivityIsStorageCorrect`, `ConnectivityIsCommunicationCorrect`, the refinement `ReorderingCorrect` | `IInv == TypeOK /\ BuiltOK /\ MergedOK /\ QueriesOK /\ ImprintsOK` says, for each point the call can be at, what the nets, blocks and imprints are. No property is inductive alone: `ConnectivityIsStorage` needs that the merged nets are of the *final* blocks and that block *b* became unit *b*. `WriteImprints` is `Reorder`, `Return` is `ResetImprints`, every other step stutters. |
| `StorageModelProofs` | `UnitsCorrect`, `OfTheScanCorrect` | `IInv` says which windows the last scan has passed, in the order it began with: the PEs are those of the passed windows that hold a nonzero, the tiles counted are the tiles of these, and the window is a place of the grid. The rest is arithmetic: dividing by a PE and then by a tile is dividing by both. |
| `PhysicalPlanProofs` | `PlansCorrect`, `CostsCorrect`, `TotalsCorrect`, `AlignmentCorrect` | `IInv` says of which pattern each plan is and that its lists are those of what the pattern reads; `SInv`, above it, what the lists of sizes and the totals add up to. |
| `ExperimentsProofs` | `FilesCorrect`, `CheckCorrect`, `FiguresCorrect` | `IInv` follows the one matrix object through a run: which order the imprints, the last scan and the last report are of, what is written to each file, and how many lines a run still has to append. `CheckCorrect` is a fact on sums: if ids below a bound are distinct but for the last one, which may stand there twice, their sum is the full one exactly if those missing sum to the one there twice. |
| `MultilevelProofs` | `LevelsRestored`, `SlackCorrect` | Below. |
| `PartitionProofs` | `FixedVerticesStay`, `ParallelNetsFound`, `PartitionInfoStaysRight`, `ObjectiveIsProjected`, `ChildStaysNoWorse` | Below. |
| `SumsProofs` | | Lemmas of sums over finite sets and sequences, and of division, for the modules above. |

`LevelsRestored` says that every uncontraction gives back the hypergraph its contraction met, for every hypergraph, every
choice of the rater, the pruner, the initial partition and the refiner, and any number of V-cycles. The argument is that a
contraction loses nothing. What it does to a net is to permute its slots and, when both nodes are pins, to cut the last
one off, which then still holds the node contracted away; a removed net keeps its pins, its weight and its slots; a node
contracted away keeps its nets and its weight. The invariant `LevelsInv` therefore has, beside well-formedness of the
current hypergraph, four parts about the past: each earlier level is coarsened to the next by exactly the contraction of
its memento (`Coarser`), the hypergraph still holds what undoing it needs (`Hidden`, and `TailsOK` for the slots), and the
mementos cut the stacks of removed nets into adjacent segments (`MementosOK`). Its preservation is proved first for one
net, then for the operators of `KHypergraph`, then for the steps. After the soft time limit (`Broken`) nets stay
contracted, the property claims nothing, and the invariant keeps only that no further uncontraction is possible. TLC
checked `LevelsInv` on the states of the run `multilevel` before it was proved.

`SlackCorrect` says that the slack local search adds to the bound of a block covers the heaviest node of its level. It is
not obvious: a contraction pushes a maximum with the number of nodes *after* it, `doUncoarsen` pops when the number
*before* an uncontraction is larger (so one level late), and what is left stays for the next V-cycle. The invariant
`SlackInv` says that every level has a maximum on the stack that was reached at no fewer nodes and covers it (`Covered`),
that the maxima grow while their node counts fall, except among those at the finest level or one node below it (`Ordered`),
and that none is far below the current level (`NotBelow`). As consecutive levels differ by one node (`LevelsCounted`, from
`LevelsInv`), one pop per uncontraction removes exactly the maximum no remaining level needs. TLC checked `SlackInv` on
the states of the same run first. After the soft time limit this property, too, claims nothing.

`PartitionProofs` is about the partition, which the invariant of the levels does not mention. With it every safety property
of the run `multilevel` is proved. Five invariants, each above `LevelsInv`:

* `FixedVerticesStay` (`FixedInv`). The weight of a block's fixed vertices changes when a free node is contracted into a fixed
  one, and the undoing must decide by what is left which case it undoes; the sums are shown to be right before and after
  each case. A fixed vertex stays in its block since acceptance contracts no fixed vertex into a free one and none into
  one fixed elsewhere; the history remembers this (`HistoryFits`), so it also holds when the time limit gives all nodes
  the blocks of their representatives in one go (`RestoreMementos`), where no level tells what they were.
* `ParallelNetsFound` (`ParallelInv`). Hashes are those of the pins while a pass runs: `contract` adjusts them by what it does
  to a net, `uncontract` does not undo that, and a V-cycle computes them afresh. Then nets with equal pins have equal
  fingerprints whatever collides, and of the nets that the pruner leaves at the representative no two are parallel.
* `PartitionInfoStaysRight` (`PartitionInv`, with `CountsInv`). Pins per block, connectivity and connectivity sets are a function of
  pins and blocks. The hard steps are those of uncontraction, where the counts of a net grow exactly if the contraction cut a
  slot off, and of restored nets, whose counts are computed afresh because blocks changed since they were removed. The
  numbers of incident cut nets hold only between `initializeNumCutHyperedges` and the next coarsening. Block weights are
  sums over the enabled nodes; with nodes hidden they are those of the input since representatives carry the weight.
* `ObjectiveIsProjected`. Going one level up changes neither cut nor km1 for *any* assignment that gives the two nodes of the
  memento one block: a net keeps its set of blocks, a removed single-node net costs nothing, and a group of parallel nets costs
  what the representative with their summed weights costs. Both costs are sums of a factor that depends on the blocks of a net
  only, so this is shown once (`Costs`). Induction over the history is by a minimal counterexample among its prefixes.
* `ChildStaysNoWorse` (`ChildInv`). While a combine coarsens, both parents keep together what the history contracts
  (`Together`, from `acceptPartition`). So a parent, set on the coarsest level, is its own projection, and its cost there is its
  cost on the input; from then on the objective only falls.

The moves of a level reach these proofs as `MoveNodes`, a fold over the nodes that changed block. `MovesAreChain` turns it into a
chain of single moves, whatever order `CHOOSE` picks, and each invariant is then carried along the chain by a minimal
counterexample among the sets of nodes moved so far (`ChainKeepsStructure`, `MovesKeepPlaces`, `MovesAreCounted`).

Two restrictions are in the properties because TLC refuted the statements without them, and they are what the code should
not be used for. With V-cycles after a combine (the presets have none) coarsening keeps together what the *parents* keep
together, in whatever blocks of the child: then a contraction joins nodes of different blocks, which `contract` asserts never
happens (`hypergraph.h:911`), pin counts go wrong and the child may be worse than a parent. One community, a contraction
limit of 2, maximal weights of 6, one V-cycle and parents with a single node in block 1 suffice. With a time limit *and*
V-cycles, `direct_kway.h` 91-99 coarsens a hypergraph whose nets are still contracted; the rater then meets nets of one pin,
whose score divides by *|e| - 1 = 0*. `Sound` names what is left: no V-cycle was started in either situation. The instances
of the run do not contain them.

Sums. The fold by which the models add takes elements in an order that `CHOOSE` picks, and the library's induction rules
have operators as parameters, which the provers cannot instantiate. `SumsProofs` goes around both: among the finite sets for
which a statement about a sum fails, some set is minimal (well-foundedness of the subset order, proved with first-order facts
only), and removing one element from it contradicts that.

Only model-checked, and why:

* Liveness (`ReachedIsReported`, `Finishes`, `Terminates`): fairness and `ENABLED` are out of the prover's reach.
* All properties of the run `partitioner`: open. Each of its modules needs an inductive invariant of its own, over sums of
  gains, and some compute by recursion over data (the Hungarian method, bin packing, the passes of Louvain), which is out
  of reach for the reason given for sums but without a minimal set to argue with.
* The properties of `simulation`: `Circuits` runs methods by a RECURSIVE operator, in whose presence the prover has no SMT
  backend. The options are finitely many but for a few numbers, so little is lost.

## Not modelled

* Floating point: the formulas of `cost_model`, `simulation`, the adapter and NeuroSim's circuits and technology tables, the
  adaptive stopping rule's statistics (exact arithmetic in the model), Louvain's long doubles (whole numbers).
* KaHyPar's flow refinement (external library), the population of the evolutionary algorithm, weights given for single
  blocks, hash policies (a hash is any function), reading of files and options.
* Text: configuration and `.mtx` files, `check_symmetric`, running times, log wording; the cost-model and cost-analysis tests of experiment 1.
* Code nobody calls: `hybrid_partitioning`, `HyperGraph::clear`, `erase` of the hash tables. The bucket queue is modelled although the build chooses the heap.
* NeuroSim's memory: circuits created by repeated calls of the adapter are leaked; `ObjectsAreAlive` is about the opposite, use after deletion.
* Two runs of the program at the same time.

## Plan

Done: the modules above in the order of the tables; the proofs of all safety properties of HyperMR's own modules but those of
`Simulation`, and of all safety properties of `Multilevel`.

Next:

1. The refiners: `TwoWayFM` works on the levels of `Multilevel`, so that the counts of `PartitionProofs` are the base for
   `GainsAreRight`; what is missing is the invariant of the gain cache through moves, roll-back and uncontraction.
2. That the refiners refine `Multilevel`'s `Refine`, which `LocalSearch` states for the input hypergraph.
3. The refinement of `Container` by the structures that are not recursive (sparse set, flag array).
