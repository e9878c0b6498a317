----------------------------- MODULE Experiments -----------------------------
(***************************************************************************)
(* The experiment driver, src/test/test.cpp.                               *)
(*                                                                         *)
(* Experiments 1 to 3 (execution_test) reorder each dataset by each chosen *)
(* storage scheme, or load the order an earlier run left on disk, and      *)
(* report what queries cost before and after.  Experiment 4                *)
(* (output_compressed_mat) reorders each dataset and writes the order to   *)
(* disk.  Only the order files outlive a run, which may be killed at any   *)
(* moment: a file that was being written then ends early, between two ids  *)
(* or inside one, whose first digits are then read as another id.          *)
(*                                                                         *)
(* One matrix object serves all schemes of a dataset.  What a scheme does  *)
(* to its imprints is any of `Orders' (module TwoPhasePartitioning), and   *)
(* what the storage model and the physical plan compute is represented by  *)
(* the order it is computed from (modules StorageModel and PhysicalPlan).  *)
(* All datasets have the same size.  The schemes other than HyperMR are    *)
(* empty cases in the code; "Other" stands for them.                       *)
(***************************************************************************)
EXTENDS Dimensions, Sequences, FiniteSets, FiniteSetsExt

CONSTANTS
  Datasets,  (* The sequence of datasets of every run.                      *)
  Orders,    (* The orders a call of the HyperMR scheme may return.         *)
  Configs,   (* The configurations of the runs.                             *)
  Base,      (* Of the numerals in the order files: 10.                     *)
  MaxRuns,   (* Bound: how many runs are started.                           *)
  CutPlaces  (* Bound: in or after which id of a file a piece may end that  *)
             (* has reached the disk.                                       *)

DatasetNames == {Datasets[i] : i \in DOMAIN Datasets}
OrderDirs == {"HyperMR", "HyperMR-v1", "Other"}
ResultDirs == OrderDirs \cup {"Uncompression"}

(* keyWords, as far as the order of events depends on them.                 *)
Keywords ==
  [exp : 1 .. 4,              (* The experiment ID.                         *)
   aware : BOOLEAN,           (* query-aware-optimization                   *)
   load : BOOLEAN,            (* load-compressed-mat                        *)
   ratio : BOOLEAN,           (* compression-ratio                          *)
   check : BOOLEAN,           (* check-result                               *)
   limit : BOOLEAN,           (* time-limit                                 *)
   output : BOOLEAN,          (* output-file                                *)
   show : BOOLEAN,            (* only-show-compression                      *)
   schemes : SUBSET {"HyperMR", "Other"},
   rounds : Nat \ {0}]        (* Calls of execution_test: several for the   *)
                              (* adaptive-storage and the smoothing test.   *)

Ids == [rows : Seq(Nat), columns : Seq(Nat)]
Original == [rows |-> Identity(MatrixRows), columns |-> Identity(MatrixColumns)]
NoIds == [rows |-> <<>>, columns |-> <<>>]

ASSUME OrdersAssumption ==
  \A o \in Orders : /\ o \in Ids
                    /\ IsOrder(o.rows, Rows) /\ IsOrder(o.columns, Columns)
ASSUME ConfigsAssumption == Configs \subseteq Keywords /\ Configs # {}

(* A dataset that is listed twice would get its lines twice.                *)
ASSUME DatasetsAssumption ==
  /\ Datasets \in Seq(DatasetNames)
  /\ \A i, j \in DOMAIN Datasets : Datasets[i] = Datasets[j] => i = j
ASSUME RunsAssumption == MaxRuns \in Nat
ASSUME FilesAssumption == Base \in Nat \ {0, 1} /\ CutPlaces \subseteq Nat

VARIABLES
  files,     (* The order files: their ids, and the order their numTiles is *)
             (* of.  A missing file reads like an empty one.                *)
  saved,     (* The result lines this run has appended, per directory and   *)
             (* dataset.                                                    *)
  cfg,       (* keyWords of this run.                                       *)
  readable,  (* The datasets whose .mtx file can be opened.                 *)
  pc, round,
  queue,     (* The datasets left, the current one first.                   *)
  schemes,   (* The schemes left for it.                                    *)
  imprint,   (* The matrix's imprints.                                      *)
  scanned,   (* The order its storage units were last made from.            *)
  report,    (* The last block of the log.                                  *)
  reported,  (* The datasets the log has a block of.                        *)
  killed, runs

run == <<cfg, readable, round>>
vars == <<files, saved, run, pc, queue, schemes, imprint, scanned, report,
          reported, killed, runs>>

-----------------------------------------------------------------------------
(* The first k tokens of an order, and the file that ends there.            *)
Start(s, k) == SubSeq(s, 1, IF k < Len(s) THEN k ELSE Len(s))
Cut(o, k) ==
  [rows |-> Start(o.rows, k), columns |-> Start(o.columns, k - Len(o.rows))]

Tokens(o) == Len(o.rows) + Len(o.columns)

(* An id, or its first digits; an int has at most ten.                      *)
Beginnings(v) ==
  {f \in 0 .. v : f = v \/ (f > 0 /\ \E digits \in 1 .. 9 : f = v \div Base ^ digits)}

(* Sequences that end in a beginning of the last id.                        *)
Ends(s) ==
  IF s = <<>> THEN {s} ELSE {[s EXCEPT ![Len(s)] = f] : f \in Beginnings(s[Len(s)])}

(* What can be read of an order that is cut in or after its k-th token.     *)
CutsAt(o, k) ==
  LET whole == Cut(o, k)
  IN  IF whole.columns = <<>>
        THEN {[rows |-> s, columns |-> <<>>] : s \in Ends(whole.rows)}
        ELSE {[rows |-> whole.rows, columns |-> s] : s \in Ends(whole.columns)}

LastId(o) == LET s == o.rows \o o.columns IN s[Len(s)]
Longer(o, than) ==
  \/ Tokens(o) > Tokens(than)
  \/ Tokens(o) = Tokens(than) /\ LastId(o) > LastId(than)

File(tiles, ids) == [tiles |-> tiles, ids |-> ids]
EmptyFile == File(NoIds, NoIds)

LoadMat(dataset) == files["HyperMR"][dataset].ids

SumAt(s, places) == MapThenSumSet(LAMBDA i : s[i], places)
SumBelow(s, size) == SumAt(s, {i \in DOMAIN s : s[i] < size})

(* Mutant: padding ids are not skipped.                                     *)
PaddedCheckSum(o) ==
  /\ SumBelow(o.rows, Rows) = (MatrixRows * (MatrixRows - 1)) \div 2
  /\ SumBelow(o.columns, Columns) = (MatrixColumns * (MatrixColumns - 1)) \div 2

CheckSum(o) ==
  /\ SumBelow(o.rows, MatrixRows) = (MatrixRows * (MatrixRows - 1)) \div 2
  /\ SumBelow(o.columns, MatrixColumns) = (MatrixColumns * (MatrixColumns - 1)) \div 2

CheckResult(o) ==
  IF ~ cfg.check THEN "none" ELSE IF CheckSum(o) THEN "true" ELSE "false"

Chosen(config) ==
  LET If(s) == IF s \in config.schemes THEN <<s>> ELSE <<>>
  IN  If("HyperMR") \o If("Other")

Dir(scheme) ==
  IF scheme = "HyperMR" /\ cfg.limit THEN "HyperMR-v1" ELSE scheme

(* What the schemes of execution_test may leave in the imprints.            *)
Reordered(scheme) ==
  IF scheme # "HyperMR" THEN {imprint}
  ELSE IF ~ cfg.aware /\ cfg.load THEN {LoadMat(Head(queue))}
  ELSE Orders

NoReport ==
  [exp |-> 0, dataset |-> "", scheme |-> "", aware |-> FALSE,
   order |-> NoIds, figures |-> NoIds, checked |-> "none"]

(* `figures' is the order the PEs and tiles of the block are counted on.    *)
Report(scheme, order, figures) ==
  [exp |-> cfg.exp, dataset |-> Head(queue), scheme |-> scheme,
   aware |-> scheme = "HyperMR" /\ cfg.aware,
   order |-> order, figures |-> figures, checked |-> CheckResult(order)]

(* Mutant: the matrix is scanned before it is reordered.                    *)
ScanTooEarly(order) == IF cfg.ratio THEN imprint ELSE scanned

(* The order scanned last: execution_test scans for the compression ratio.  *)
Scan(order) == IF cfg.ratio THEN order ELSE scanned

(* Mutant: experiment 4 scans only for the compression ratio too.           *)
ScanBaselineForRatio(order) == Scan(order)

ScanBaseline(order) == order

Reset(order) == Original

(* Mutant: "read fail." ends experiment 4 too.                              *)
NoneAfterReadFail == <<>>

(* "read fail." ends execution_test, whatever datasets are left, but in     *)
(* experiment 4 only output_compressed_mat, which is called per dataset.    *)
AfterReadFail == IF cfg.exp = 4 THEN Tail(queue) ELSE <<>>

(* Without a scheme the uncompressed matrix's line is saved.                *)
Uncompressed == cfg.schemes = {} /\ ~ cfg.show

AppendLine(dir) ==
  saved' = IF cfg.output THEN [saved EXCEPT ![dir][Head(queue)] = @ + 1]
                         ELSE saved

-----------------------------------------------------------------------------
NothingSaved == [dir \in ResultDirs |-> [d \in DatasetNames |-> 0]]

(* The repository ships with an order file of every dataset.                *)
Init ==
  /\ \E o \in Orders :
       files = [dir \in OrderDirs |-> [d \in DatasetNames |->
                  IF dir = "HyperMR" THEN File(o, o) ELSE EmptyFile]]
  /\ saved = NothingSaved
  /\ cfg = CHOOSE c \in Configs : TRUE
  /\ readable = {} /\ round = 0
  /\ pc = "idle" /\ queue = <<>> /\ schemes = <<>>
  /\ imprint = NoIds /\ scanned = NoIds
  /\ report = NoReport /\ reported = {}
  /\ killed = FALSE /\ runs = 0

StartRun ==
  /\ pc = "idle"
  /\ runs < MaxRuns
  /\ runs' = runs + 1
  /\ cfg' \in Configs
  /\ readable' \in SUBSET DatasetNames
  /\ pc' = "datasets" /\ round' = 1 /\ queue' = Datasets
  /\ saved' = NothingSaved
  /\ report' = NoReport /\ reported' = {} /\ killed' = FALSE
  /\ UNCHANGED <<files, schemes, imprint, scanned>>

(* The matrix is read and scanned in its original order.                    *)
ReadDataset ==
  /\ pc = "datasets" /\ queue # <<>>
  /\ Head(queue) \in readable
  /\ pc' = "schemes"
  /\ imprint' = Original /\ scanned' = Original
  /\ schemes' = Chosen(cfg)
  /\ UNCHANGED <<files, saved, run, queue, report, reported, killed, runs>>

ReadFail ==
  /\ pc = "datasets" /\ queue # <<>>
  /\ Head(queue) \notin readable
  /\ queue' = AfterReadFail
  /\ UNCHANGED <<files, saved, run, pc, schemes, imprint, scanned, report,
                 reported, killed, runs>>

(* One scheme of execution_test: reorder or load, check, scan (when the     *)
(* compression ratio is asked for), plan, save a line, reset.               *)
RunScheme ==
  /\ pc = "schemes" /\ cfg.exp # 4 /\ schemes # <<>>
  /\ LET scheme == Head(schemes)
     IN  \E order \in Reordered(scheme) :
           /\ scanned' = Scan(order)
           /\ report' = Report(scheme, order, Scan(order))
           /\ AppendLine(Dir(scheme))
           /\ imprint' = Reset(order)
  /\ schemes' = Tail(schemes)
  /\ reported' = reported \cup {Head(queue)}
  /\ UNCHANGED <<files, run, pc, queue, killed, runs>>

FinishDataset ==
  /\ pc = "schemes" /\ schemes = <<>>
  /\ pc' = "datasets" /\ queue' = Tail(queue)
  /\ reported' = reported \cup {Head(queue)}
  /\ IF cfg.exp # 4 /\ Uncompressed
       THEN AppendLine("Uncompression") ELSE UNCHANGED saved
  /\ UNCHANGED <<files, run, schemes, imprint, scanned, report, killed, runs>>

(* One scheme of output_compressed_mat, up to the opening of its file.      *)
RunBaseline ==
  /\ pc = "schemes" /\ cfg.exp = 4 /\ schemes # <<>>
  /\ LET scheme == Head(schemes)
     IN  /\ imprint' \in (IF scheme = "HyperMR" THEN Orders ELSE {imprint})
         /\ scanned' = ScanBaseline(imprint')
         /\ report' = Report(scheme, imprint', scanned')
         /\ files' = [files EXCEPT ![Dir(scheme)][Head(queue)] = EmptyFile]
  /\ pc' = "writing"
  /\ reported' = reported \cup {Head(queue)}
  /\ UNCHANGED <<saved, run, queue, schemes, killed, runs>>

(* The stream may reach the disk in pieces, which end at any byte.  The     *)
(* header is one: endl writes it as soon as the file is open.               *)
FlushFile ==
  /\ pc = "writing"
  /\ \E k \in CutPlaces \cap (1 .. Tokens(imprint)) : \E ids \in CutsAt(imprint, k) :
       /\ Longer(ids, files[Dir(Head(schemes))][Head(queue)].ids)
       /\ files' = [files EXCEPT ![Dir(Head(schemes))][Head(queue)] =
                                   File(scanned, ids)]
  /\ UNCHANGED <<saved, run, pc, queue, schemes, imprint, scanned, report,
                 reported, killed, runs>>

CloseFile ==
  /\ pc = "writing"
  /\ files' = [files EXCEPT ![Dir(Head(schemes))][Head(queue)] =
                              File(scanned, imprint)]
  /\ pc' = "schemes" /\ schemes' = Tail(schemes)
  /\ imprint' = Reset(imprint)
  /\ UNCHANGED <<saved, run, queue, scanned, report, reported, killed, runs>>

NextRound ==
  /\ pc = "datasets" /\ queue = <<>>
  /\ cfg.exp \in {2, 3} /\ round < cfg.rounds
  /\ round' = round + 1 /\ queue' = Datasets
  /\ UNCHANGED <<files, saved, cfg, readable, pc, schemes, imprint, scanned,
                 report, reported, killed, runs>>

(* What the process kept in memory.                                         *)
Lost ==
  /\ queue' = <<>> /\ schemes' = <<>>
  /\ imprint' = NoIds /\ scanned' = NoIds

EndRun ==
  /\ pc = "datasets" /\ queue = <<>>
  /\ cfg.exp \in {2, 3} => round = cfg.rounds
  /\ pc' = "idle"
  /\ Lost
  /\ UNCHANGED <<files, saved, run, report, reported, killed, runs>>

(* The process ends between two steps; the files and the log stay.          *)
Kill ==
  /\ pc # "idle"
  /\ pc' = "idle" /\ killed' = TRUE
  /\ Lost
  /\ UNCHANGED <<files, saved, run, report, reported, runs>>

Step ==
  \/ ReadDataset \/ ReadFail \/ RunScheme \/ FinishDataset
  \/ RunBaseline \/ FlushFile \/ CloseFile
  \/ NextRound \/ EndRun

Next == StartRun \/ Step \/ Kill

(* A run is one thread, which the operating system keeps running; nobody    *)
(* has to start another.                                                    *)
Spec == Init /\ [][Next]_vars /\ WF_vars(Step)

-----------------------------------------------------------------------------
TypeOK ==
  /\ \A dir \in OrderDirs, d \in DatasetNames :
       files[dir][d].tiles \in Ids /\ files[dir][d].ids \in Ids
  /\ saved \in [ResultDirs -> [DatasetNames -> Nat]]
  /\ cfg \in Configs /\ readable \subseteq DatasetNames /\ round \in Nat
  /\ pc \in {"idle", "datasets", "schemes", "writing"}
  /\ queue \in Seq(DatasetNames) /\ schemes \in Seq({"HyperMR", "Other"})
  /\ imprint \in Ids /\ scanned \in Ids
  /\ report.checked \in {"none", "true", "false"}
  /\ reported \subseteq DatasetNames
  /\ killed \in BOOLEAN /\ runs \in 0 .. MaxRuns
  /\ pc = "writing" => schemes # <<>> /\ queue # <<>>

(* Whatever was killed and written again, an order file is a cut of one     *)
(* order, the one its numTiles was counted on (storage_model comes between  *)
(* the reordering and the header of the file): only its last id may not be  *)
(* one of that order.                                                       *)
FilesAreCuts ==
  \A dir \in OrderDirs, d \in DatasetNames :
    LET file == files[dir][d]
    IN  \/ file = EmptyFile
        \/ /\ Tokens(file.ids) \in 1 .. Tokens(file.tiles)
           /\ file.ids \in CutsAt(file.tiles, Tokens(file.ids))

(* The ids of the matrix that an order has lost, but id 0, and those that   *)
(* stand in it twice because a cut made its last id one of them.            *)
Missing(s, size) == {v \in 1 .. size - 1 : \A i \in DOMAIN s : s[i] # v}
Twice(s, size) ==
  {v \in 0 .. size - 1 : \E i, j \in DOMAIN s : i # j /\ s[i] = v /\ s[j] = v}

SumOfIds(ids) == SumAt([v \in ids |-> v], ids)

(* What the result check finds, padded or not, in whole orders and in cut   *)
(* ones: it tells the orders that have lost an id from those that have not, *)
(* but for id 0, as long as no id stands twice.  An order that was cut      *)
(* inside an id so that another one stands there twice passes if and only   *)
(* if the ids lost behind the cut sum to that one: then they are not found. *)
CheckFindsLostIds ==
  LET rows == report.order.rows
      columns == report.order.columns
  IN  report.checked # "none" =>
        /\ Twice(rows, MatrixRows) = {} /\ Twice(columns, MatrixColumns) = {} =>
             (report.checked = "true" <=> /\ Missing(rows, MatrixRows) = {}
                                          /\ Missing(columns, MatrixColumns) = {})
        /\ report.checked = "true" <=>
             /\ SumOfIds(Missing(rows, MatrixRows)) = SumOfIds(Twice(rows, MatrixRows))
             /\ SumOfIds(Missing(columns, MatrixColumns))
                  = SumOfIds(Twice(columns, MatrixColumns))

(* With compression-ratio, as all shipped configurations have it, and in    *)
(* experiment 4, the PEs and tiles reported for a scheme are those of the   *)
(* order it has left, not of the order before.                              *)
FiguresAreOfTheOrder ==
  cfg.ratio \/ report.exp = 4 => report.figures = report.order

(* A scheme that does nothing is reported with the matrix's own order, also *)
(* when it comes after HyperMR in one run: the imprints are reset between.  *)
EmptySchemesReportTheOriginal ==
  report.scheme = "Other" => report.order = Original

(* A run that was not killed has appended, for each dataset it has reached, *)
(* one line per round and chosen scheme, and one line per round for the     *)
(* uncompressed matrix if no scheme is chosen.                              *)
Rounds == IF cfg.exp \in {2, 3} THEN cfg.rounds ELSE 1

LinesAreComplete ==
  pc = "idle" /\ runs > 0 /\ ~ killed =>
    \A dir \in ResultDirs, d \in DatasetNames :
      saved[dir][d] =
        IF /\ cfg.output /\ cfg.exp # 4 /\ d \in reported
           /\ IF dir = "Uncompression" THEN cfg.schemes = {} /\ ~ cfg.show
                                       ELSE \E s \in cfg.schemes : dir = Dir(s)
          THEN Rounds ELSE 0

(* What an experiment leaves on the disk, whatever was killed.              *)
FilesAreRight == TypeOK /\ FilesAreCuts /\ LinesAreComplete

(* The figures of a scheme are of its order, and of the original one if it  *)
(* left that.                                                               *)
FiguresAreRight == FiguresAreOfTheOrder /\ EmptySchemesReportTheOriginal

(* A run reports every readable dataset in the end, in experiments 1 to 3   *)
(* as far as no unreadable one comes before it, unless it is killed.        *)
Started == pc = "datasets" /\ queue = Datasets /\ round = 1
InReach(i) ==
  /\ Datasets[i] \in readable
  /\ cfg.exp # 4 => \A j \in 1 .. i : Datasets[j] \in readable

ReachedIsReported ==
  Started ~> \/ killed
             \/ \A i \in DOMAIN Datasets : InReach(i) => Datasets[i] \in reported

-----------------------------------------------------------------------------
(* What the code and the documentation say.                                *)

(* "(after optimization)": the figures of a block headed by a scheme are    *)
(* those of the order after it, whatever the configuration.                 *)
FiguresAreAfterOptimization == report.figures = report.order

(* "keyWords["query-aware-optimization"] == false": the baseline order of   *)
(* experiment 4 is never made for a query workload.                         *)
BaselineIsNotQueryAware == report.exp = 4 => ~ report.aware
=============================================================================
