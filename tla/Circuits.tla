------------------------------ MODULE Circuits ------------------------------
(***************************************************************************)
(* The circuit classes of NeuroSim, as the calls they make and the figures *)
(* they read and write.  A circuit is named by its path: the global that   *)
(* holds it, then the members it is reached through.  A method is the      *)
(* sequence of its steps, in the order of the code; the formulas that turn *)
(* widths into areas, delays and energies are not modelled, only which     *)
(* figures a method needs before it may run.                               *)
(*                                                                         *)
(* The figures of a circuit:                                               *)
(*   "Initialize"  the flag `initialized`, which every method asks first;  *)
(*   "UnitArea"    what CalculateUnitArea writes;                          *)
(*   "Area"        what CalculateArea writes: sizes and capacitances;      *)
(*   "Load"        what CalculateLatency leaves in members other than the  *)
(*                 latencies, where they are read (rampOutput, capLoad);   *)
(*   "Latency"     readLatency and writeLatency;                           *)
(*   "Power"       readDynamicEnergy, writeDynamicEnergy and leakage;      *)
(*   "AreaADC", "PowerADC"  the breakdown of a SubArray's area and energy. *)
(* No figure but the FunctionUnit ones has a value before it is computed.  *)
(***************************************************************************)
EXTENDS Naturals, Sequences, TLC

Figure == {"Initialize", "UnitArea", "Area", "Load", "Latency", "Power", "AreaADC", "PowerADC"}

-----------------------------------------------------------------------------
(* The steps methods are made of.                                          *)

\* if (initialized) cout << "Warning: Already initialized!"; ...; initialized = true
Initialise(o) == [does |-> "Initialize", on |-> {o}, figure |-> "Initialize", needs |-> {}, within |-> {}]

\* initialized = false, from outside the class
Uninitialise(o) == [does |-> "Uninitialise", on |-> {o}, figure |-> "Initialize", needs |-> {}, within |-> {}]

\* A method: it prints an error and returns unless `initialized`, and reads
\* its own members among `needs`.
Compute(o, figure, needs) == [does |-> "Compute", on |-> {o}, figure |-> figure, needs |-> needs, within |-> {}]

\* Public members of FunctionUnit read from outside, which the constructor
\* sets to zero: a circuit that is not in use contributes nothing.
Sum(os, figure) == [does |-> "Sum", on |-> os, figure |-> figure, needs |-> {}, within |-> {}]

\* Another public member read from outside: it has no value before.
Read(o, figure) == [does |-> "Read", on |-> {o}, figure |-> figure, needs |-> {}, within |-> {}]

\* Globals allocated, and deleted.
New(globals) == [does |-> "New", on |-> {<<g>> : g \in globals}, figure |-> "Initialize", needs |-> {}, within |-> {}]
Delete(globals) == [New(globals) EXCEPT !.does = "Delete"]

\* No code: at the end of a tile, a layer or a query its delays and energies
\* stop counting as known, so that adding one of them to the sums of the next
\* is an error.
Forget == [New({}) EXCEPT !.does = "Forget"]

When(condition, steps) == IF condition THEN steps ELSE <<>>

\* The steps a method takes once it has found its circuit initialised.
Within(o, steps) == [i \in DOMAIN steps |-> [steps[i] EXCEPT !.within = @ \cup {o}]]

\* A method that calls its parts before it has its own figure.
Method(o, figure, needs, calls) == Within(o, calls) \o <<Compute(o, figure, needs)>>

-----------------------------------------------------------------------------
(* What steps do.  A chip is the figures its circuits have, the globals    *)
(* that point to an object, those whose object was lost to another `new`,  *)
(* and what went wrong in the steps just run.                              *)

Figures(chip, o) == IF o \in DOMAIN chip.figures THEN chip.figures[o] ELSE {}
Initialised(chip, o) == "Initialize" \in Figures(chip, o)

Give(chip, os, figures) ==
  [chip EXCEPT !.figures = [o \in os |-> Figures(chip, o) \cup figures] @@ @]

Wrongs(chip, s) ==
  LET missing(o, wanted) == {<<"missing", o, f>> : f \in wanted \ Figures(chip, o)}
      inUse == {o \in s.on : Initialised(chip, o)}
  IN CASE s.does = "Initialize" -> {<<"initialised twice", o, s.figure>> : o \in inUse}
       [] s.does = "Compute" -> {<<"not initialised", o, s.figure>> : o \in s.on \ inUse}
                                  \cup UNION {missing(o, s.needs) : o \in inUse}
       [] s.does = "Sum" -> UNION {missing(o, {s.figure}) : o \in inUse}
       [] s.does = "Read" -> UNION {missing(o, {s.figure}) : o \in s.on}
       [] OTHER -> {}

Effect(chip, s) ==
  LET globals == {o[1] : o \in s.on}
      inUse == {o \in s.on : Initialised(chip, o)}
      others == {o \in DOMAIN chip.figures : o[1] \notin globals}
      noted == [chip EXCEPT !.wrongs = @ \cup Wrongs(chip, s)]
  IN CASE s.does = "New" ->
            [chip EXCEPT !.figures = [o \in others |-> @[o]],
                         !.lost = @ \cup (globals \cap chip.live), !.live = @ \cup globals]
       [] globals \subseteq chip.live /\ s.does = "Delete" ->
            [chip EXCEPT !.figures = [o \in others |-> @[o]], !.live = @ \ globals]
       [] ~ globals \subseteq chip.live ->
            [chip EXCEPT !.wrongs = @ \cup {<<"dangling", <<g>>, s.figure>> : g \in globals \ chip.live}]
       [] s.does = "Forget" ->
            LET kept(o) == chip.figures[o] \ {"Latency", "Power", "PowerADC"}
            IN [chip EXCEPT !.figures = [o \in {x \in DOMAIN @ : kept(x) # {}} |-> kept(o)]]
       [] s.does = "Initialize" -> Give(noted, s.on, {"Initialize"})
       [] s.does = "Compute" -> Give(noted, inUse, {s.figure})
       [] s.does = "Uninitialise" ->
            [noted EXCEPT !.figures = [o \in s.on |-> Figures(chip, o) \ {"Initialize"}] @@ @]
       [] OTHER -> noted

\* A step is skipped when a method it is part of found its circuit not initialised.
Step(chip, s) == IF \A o \in s.within : Initialised(chip, o) THEN Effect(chip, s) ELSE chip

\* One step after the other; the steps are halved to keep the recursion flat.
RECURSIVE Run(_, _)
Run(chip, steps) ==
  LET half == Len(steps) \div 2
      first == SubSeq(steps, 1, half)
      second == SubSeq(steps, half + 1, Len(steps))
  IN CASE steps = <<>> -> chip
       [] Len(steps) = 1 -> Step(chip, steps[1])
       [] OTHER -> CHOOSE d \in {Run(c, second) : c \in {Run(chip, first)}} : TRUE

-----------------------------------------------------------------------------
(* Circuits without parts.                                                 *)

(* DFF.cpp *)
DFFInitialize(o) == <<Initialise(o)>>
DFFCalculateArea(o) == <<Compute(o, "Area", {})>>
DFFCalculateLatency(o) == <<Compute(o, "Latency", {})>>
DFFCalculatePower(o) == <<Compute(o, "Power", {"Area"})>>

(* Adder.cpp: the gate capacitances come from CalculateArea.               *)
AdderInitialize(o) == <<Initialise(o)>>
AdderCalculateArea(o) == <<Compute(o, "Area", {})>>
AdderCalculateLatency(o) == <<Compute(o, "Latency", {"Area"})>>
AdderCalculatePower(o) == <<Compute(o, "Power", {"Area"})>>

(* Mux.cpp *)
MuxInitialize(o) == <<Initialise(o)>>
MuxCalculateArea(o) == <<Compute(o, "Area", {})>>
MuxCalculateLatency(o) == <<Compute(o, "Latency", {"Area"})>>
MuxCalculatePower(o) == <<Compute(o, "Power", {"Area"})>>

(* RowDecoder.cpp *)
RowDecoderInitialize(o) == <<Initialise(o)>>
RowDecoderCalculateArea(o) == <<Compute(o, "Area", {})>>
RowDecoderCalculateLatency(o) == <<Compute(o, "Load", {"Area"}), Compute(o, "Latency", {"Area"})>>
RowDecoderCalculatePower(o) == <<Compute(o, "Power", {"Area"})>>

(* DecoderDriver.cpp *)
DecoderDriverInitialize(o) == <<Initialise(o)>>
DecoderDriverCalculateArea(o) == <<Compute(o, "Area", {})>>
DecoderDriverCalculateLatency(o) == <<Compute(o, "Latency", {"Area"})>>
DecoderDriverCalculatePower(o) == <<Compute(o, "Power", {"Area"})>>

(* WLNewDecoderDriver.cpp *)
WLNewDecoderDriverInitialize(o) == <<Initialise(o)>>
WLNewDecoderDriverCalculateArea(o) == <<Compute(o, "Area", {})>>
WLNewDecoderDriverCalculateLatency(o) == <<Compute(o, "Latency", {"Area"})>>
WLNewDecoderDriverCalculatePower(o) == <<Compute(o, "Power", {"Area"})>>

(* SRAMWriteDriver.cpp *)
SRAMWriteDriverInitialize(o) == <<Initialise(o)>>
SRAMWriteDriverCalculateArea(o) == <<Compute(o, "Area", {})>>
SRAMWriteDriverCalculateLatency(o) == <<Compute(o, "Latency", {"Area"})>>
SRAMWriteDriverCalculatePower(o) == <<Compute(o, "Power", {"Area"})>>

(* SenseAmp.cpp *)
SenseAmpInitialize(o) == <<Initialise(o)>>
SenseAmpCalculateArea(o) == <<Compute(o, "Area", {})>>
SenseAmpCalculateLatency(o) == <<Compute(o, "Latency", {"Area"})>>
SenseAmpCalculatePower(o) == <<Compute(o, "Power", {"Area"})>>

(* Precharger.cpp: capLoad, an argument of CalculateLatency, is what       *)
(* CalculatePower charges.                                                 *)
PrechargerInitialize(o) == <<Initialise(o)>>
PrechargerCalculateArea(o) == <<Compute(o, "Area", {})>>
PrechargerCalculateLatency(o) == <<Compute(o, "Load", {"Area"}), Compute(o, "Latency", {"Area"})>>
PrechargerCalculatePower(o) == <<Compute(o, "Power", {"Load"})>>

(* LevelShifter.cpp *)
LevelShifterInitialize(o) == <<Initialise(o)>>
LevelShifterCalculateArea(o) == <<Compute(o, "Area", {})>>

(* MultilevelSAEncoder.cpp *)
MultilevelSAEncoderInitialize(o) == <<Initialise(o)>>
MultilevelSAEncoderCalculateArea(o) == <<Compute(o, "Area", {})>>
MultilevelSAEncoderCalculateLatency(o) == <<Compute(o, "Latency", {"Area"})>>
MultilevelSAEncoderCalculatePower(o) == <<Compute(o, "Power", {"Area"})>>

(* VoltageSenseAmp.cpp, CurrentSenseAmp.cpp and SarADC.cpp: the area of    *)
(* all columns is computed from the area of one.                           *)
VoltageSenseAmpInitialize(o) == <<Initialise(o)>>
VoltageSenseAmpCalculateUnitArea(o) == <<Compute(o, "UnitArea", {})>>
VoltageSenseAmpCalculateArea(o) == <<Compute(o, "Area", {"UnitArea"})>>
VoltageSenseAmpCalculateLatency(o) == <<Compute(o, "Latency", {"UnitArea"})>>
VoltageSenseAmpCalculatePower(o) == <<Compute(o, "Power", {})>>

CurrentSenseAmpInitialize(o) == <<Initialise(o)>>
CurrentSenseAmpCalculateUnitArea(o) == <<Compute(o, "UnitArea", {})>>
CurrentSenseAmpCalculateArea(o) == <<Compute(o, "Area", {"UnitArea"})>>
CurrentSenseAmpCalculateLatency(o) == <<Compute(o, "Latency", {})>>
CurrentSenseAmpCalculatePower(o) == <<Compute(o, "Power", {})>>

SarADCInitialize(o) == <<Initialise(o)>>
SarADCCalculateUnitArea(o) == <<Compute(o, "UnitArea", {})>>
SarADCCalculateArea(o) == <<Compute(o, "Area", {"UnitArea"})>>
SarADCCalculateLatency(o) == <<Compute(o, "Latency", {})>>
SarADCCalculatePower(o) == <<Compute(o, "Power", {})>>

(* Comparator.cpp *)
ComparatorInitialize(o) == <<Initialise(o)>>
ComparatorCalculateUnitArea(o) == <<Compute(o, "UnitArea", {})>>
ComparatorCalculateLatency(o) == <<Compute(o, "Latency", {"UnitArea"})>>
ComparatorCalculatePower(o) == <<Compute(o, "Power", {"UnitArea"})>>

(* HTree.cpp and Bus.cpp: wires and repeaters.                              *)
BusInitialize(o) == <<Initialise(o)>>
BusCalculateArea(o) == <<Compute(o, "Area", {})>>
BusCalculateLatency(o) == <<Compute(o, "Latency", {"Area"})>>
BusCalculatePower(o) == <<Compute(o, "Power", {"Area"})>>

HTreeInitialize(o) == <<Initialise(o)>>
HTreeCalculateArea(o) == <<Compute(o, "Area", {})>>
HTreeCalculateLatency(o) == <<Compute(o, "Latency", {"Area"})>>
HTreeCalculatePower(o) == <<Compute(o, "Power", {"Area"})>>

-----------------------------------------------------------------------------
(* Circuits made of others.  Each names its parts after the members.       *)

(* BitShifter.cpp: a register of DFFs.                                     *)
BitShifterInitialize(o) == DFFInitialize(o \o <<"dff">>) \o <<Initialise(o)>>

BitShifterCalculateArea(o) ==
  LET dff == o \o <<"dff">>
  IN Method(o, "Area", {}, DFFCalculateArea(dff) \o <<Sum({dff}, "Area")>>)

BitShifterCalculateLatency(o) ==
  LET dff == o \o <<"dff">>
  IN Method(o, "Latency", {}, DFFCalculateLatency(dff) \o <<Sum({dff}, "Latency")>>)

BitShifterCalculatePower(o) ==
  LET dff == o \o <<"dff">>
  IN Method(o, "Power", {}, DFFCalculatePower(dff) \o <<Sum({dff}, "Power")>>)

(* SwitchMatrix.cpp and NewSwitchMatrix.cpp: pass gates behind a register. *)
SwitchMatrixInitialize(o) == DFFInitialize(o \o <<"dff">>) \o <<Initialise(o)>>

SwitchMatrixCalculateArea(o) ==
  LET dff == o \o <<"dff">>
  IN Method(o, "Area", {}, DFFCalculateArea(dff) \o <<Sum({dff}, "Area")>>)

SwitchMatrixCalculateLatency(o) ==
  LET dff == o \o <<"dff">>
  IN Method(o, "Latency", {"Area"}, DFFCalculateLatency(dff) \o <<Sum({dff}, "Latency")>>)
       \o <<Compute(o, "Load", {"Area"})>>

SwitchMatrixCalculatePower(o) ==
  LET dff == o \o <<"dff">>
  IN Method(o, "Power", {"Area"}, DFFCalculatePower(dff) \o <<Sum({dff}, "Power")>>)

NewSwitchMatrixInitialize(o) == DFFInitialize(o \o <<"dff">>) \o <<Initialise(o)>>

NewSwitchMatrixCalculateArea(o) ==
  LET dff == o \o <<"dff">>
  IN Method(o, "Area", {}, DFFCalculateArea(dff) \o <<Sum({dff}, "Area")>>)

NewSwitchMatrixCalculateLatency(o) ==
  LET dff == o \o <<"dff">>
  IN Method(o, "Latency", {"Area"}, DFFCalculateLatency(dff) \o <<Sum({dff}, "Latency")>>)

NewSwitchMatrixCalculatePower(o) ==
  LET dff == o \o <<"dff">>
  IN Method(o, "Power", {"Area"}, DFFCalculatePower(dff) \o <<Sum({dff}, "Power")>>)

(* MultilevelSenseAmp.cpp: latency and power are looked up per column from *)
(* the reference resistances that Initialize stored.                       *)
MultilevelSenseAmpInitialize(o) ==
  CurrentSenseAmpInitialize(o \o <<"currentSenseAmp">>) \o <<Initialise(o)>>

MultilevelSenseAmpCalculateArea(o, currentMode) ==
  LET amp == o \o <<"currentSenseAmp">>
  IN Method(o, "Area", {}, When(currentMode,
       CurrentSenseAmpCalculateUnitArea(amp) \o CurrentSenseAmpCalculateArea(amp)
         \o <<Sum({amp}, "Area")>>))

MultilevelSenseAmpGetColumnLatency(o) == <<Read(o, "Initialize")>>
MultilevelSenseAmpGetColumnPower(o) == <<Read(o, "Initialize")>>

MultilevelSenseAmpCalculateLatency(o) ==
  Method(o, "Latency", {}, MultilevelSenseAmpGetColumnLatency(o))

MultilevelSenseAmpCalculatePower(o) ==
  Method(o, "Power", {}, MultilevelSenseAmpGetColumnPower(o))

(* ShiftAdd.cpp, which SubArray always initialises NONSPIKING.  A          *)
(* synchronous chip counts cycles and asks no part for its latency.        *)
ShiftAddInitialize(o) ==
  DFFInitialize(o \o <<"dff">>) \o AdderInitialize(o \o <<"adder">>) \o <<Initialise(o)>>

ShiftAddCalculateArea(o) ==
  LET dff == o \o <<"dff">>
      adder == o \o <<"adder">>
  IN Method(o, "Area", {}, AdderCalculateArea(adder) \o DFFCalculateArea(dff)
                             \o <<Sum({adder, dff}, "Area")>>)

ShiftAddCalculateLatency(o, synchronous) ==
  LET dff == o \o <<"dff">>
      adder == o \o <<"adder">>
  IN Method(o, "Latency", {}, When(~ synchronous,
       <<Read(dff, "Area")>> \o AdderCalculateLatency(adder) \o DFFCalculateLatency(dff)
         \o <<Sum({adder, dff}, "Latency")>>))

ShiftAddCalculatePower(o) ==
  LET dff == o \o <<"dff">>
      adder == o \o <<"adder">>
  IN Method(o, "Power", {}, AdderCalculatePower(adder) \o DFFCalculatePower(dff)
                              \o <<Sum({adder, dff}, "Power")>>)

(* AdderTree.cpp: one Adder stands for the adders of every stage; it is    *)
(* initialised anew for each, with the flag taken back after use.          *)
AdderTreeInitialize(o) == <<Initialise(o)>>

AdderTreeCalculateArea(o) ==
  LET adder == o \o <<"adder">>
  IN Method(o, "Area", {}, AdderInitialize(adder) \o AdderCalculateArea(adder)
                             \o <<Sum({adder}, "Area"), Uninitialise(adder)>>)

\* stages is 0 when a single operand is left, so that there is nothing to add.
AdderTreeCalculateLatency(o, stages) ==
  LET adder == o \o <<"adder">>
      stage == AdderInitialize(adder) \o AdderCalculateLatency(adder)
                 \o <<Sum({adder}, "Latency"), Uninitialise(adder)>>
  IN Method(o, "Latency", {}, When(stages > 0, stage) \o When(stages > 1, stage))

AdderTreeCalculatePower(o, stages) ==
  LET adder == o \o <<"adder">>
      stage == AdderInitialize(adder) \o AdderCalculatePower(adder)
                 \o <<Sum({adder}, "Power"), Uninitialise(adder)>>
  IN Method(o, "Power", {}, When(stages > 0, stage) \o When(stages > 1, stage))

(* MaxPooling.cpp: comparators of one bit.                                 *)
MaxPoolingInitialize(o) == ComparatorInitialize(o \o <<"comparator">>) \o <<Initialise(o)>>

MaxPoolingCalculateUnitArea(o) ==
  LET comparator == o \o <<"comparator">>
  IN Method(o, "UnitArea", {}, ComparatorCalculateUnitArea(comparator)
                                 \o <<Read(comparator, "UnitArea")>>)

MaxPoolingCalculateArea(o) == <<Compute(o, "Area", {"UnitArea"})>>

MaxPoolingCalculateLatency(o) ==
  LET comparator == o \o <<"comparator">>
  IN Method(o, "Latency", {"UnitArea"}, ComparatorCalculateLatency(comparator)
                                          \o <<Sum({comparator}, "Latency")>>)

MaxPoolingCalculatePower(o) ==
  LET comparator == o \o <<"comparator">>
  IN Method(o, "Power", {"UnitArea"}, ComparatorCalculatePower(comparator)
                                        \o <<Sum({comparator}, "Power")>>)

(* Sigmoid.cpp, as it is always initialised: without SRAM.                 *)
SigmoidInitialize(o) ==
  RowDecoderInitialize(o \o <<"wlDecoder">>)
    \o VoltageSenseAmpInitialize(o \o <<"voltageSenseAmp">>) \o <<Initialise(o)>>

SigmoidCalculateUnitArea(o) ==
  LET wlDecoder == o \o <<"wlDecoder">>
      amp == o \o <<"voltageSenseAmp">>
  IN Method(o, "UnitArea", {}, RowDecoderCalculateArea(wlDecoder)
       \o VoltageSenseAmpCalculateUnitArea(amp) \o VoltageSenseAmpCalculateArea(amp)
       \o <<Sum({wlDecoder, amp}, "Area")>>)

SigmoidCalculateArea(o) == <<Compute(o, "Area", {"UnitArea"})>>

SigmoidCalculateLatency(o) ==
  LET wlDecoder == o \o <<"wlDecoder">>
      amp == o \o <<"voltageSenseAmp">>
  IN Method(o, "Latency", {}, RowDecoderCalculateLatency(wlDecoder)
       \o VoltageSenseAmpCalculateLatency(amp) \o <<Sum({wlDecoder, amp}, "Latency")>>)

SigmoidCalculatePower(o) ==
  LET wlDecoder == o \o <<"wlDecoder">>
      amp == o \o <<"voltageSenseAmp">>
  IN Method(o, "Power", {}, RowDecoderCalculatePower(wlDecoder)
       \o VoltageSenseAmpCalculatePower(amp) \o <<Sum({wlDecoder, amp}, "Power")>>)

(* Buffer.cpp: an SRAM or a register file.  A synchronous buffer reads a   *)
(* line per cycle and asks no part for its latency; the power of an SRAM's *)
(* precharger needs one all the same.                                      *)
BufferInitialize(o, SRAM) ==
  (IF SRAM THEN PrechargerInitialize(o \o <<"precharger">>)
                  \o SRAMWriteDriverInitialize(o \o <<"sramWriteDriver">>)
           ELSE DFFInitialize(o \o <<"dff">>))
    \o RowDecoderInitialize(o \o <<"wlDecoder">>) \o <<Initialise(o)>>

BufferCalculateArea(o, SRAM) ==
  LET wlDecoder == o \o <<"wlDecoder">>
      precharger == o \o <<"precharger">>
      sramWriteDriver == o \o <<"sramWriteDriver">>
      dff == o \o <<"dff">>
  IN Method(o, "Area", {},
       IF SRAM
       THEN RowDecoderCalculateArea(wlDecoder) \o PrechargerCalculateArea(precharger)
              \o SRAMWriteDriverCalculateArea(sramWriteDriver)
              \o <<Sum({wlDecoder, precharger, sramWriteDriver}, "Area")>>
       ELSE DFFCalculateArea(dff) \o <<Read(dff, "Area")>>
              \o RowDecoderCalculateArea(wlDecoder) \o <<Sum({dff, wlDecoder}, "Area")>>)

BufferCalculateLatency(o, SRAM, synchronous) ==
  LET wlDecoder == o \o <<"wlDecoder">>
      precharger == o \o <<"precharger">>
      sramWriteDriver == o \o <<"sramWriteDriver">>
      dff == o \o <<"dff">>
  IN Method(o, "Latency", {}, When(~ synchronous,
       IF SRAM
       THEN RowDecoderCalculateLatency(wlDecoder) \o PrechargerCalculateLatency(precharger)
              \o SRAMWriteDriverCalculateLatency(sramWriteDriver)
              \o <<Read(wlDecoder, "Load"),
                   Sum({wlDecoder, precharger, sramWriteDriver}, "Latency")>>
       ELSE <<Read(dff, "Area")>> \o RowDecoderCalculateLatency(wlDecoder)
              \o <<Sum({wlDecoder}, "Latency")>>))

BufferCalculatePower(o, SRAM) ==
  LET wlDecoder == o \o <<"wlDecoder">>
      precharger == o \o <<"precharger">>
      sramWriteDriver == o \o <<"sramWriteDriver">>
      dff == o \o <<"dff">>
  IN Method(o, "Power", {},
       RowDecoderCalculatePower(wlDecoder)
         \o (IF SRAM
             THEN PrechargerCalculatePower(precharger)
                    \o SRAMWriteDriverCalculatePower(sramWriteDriver)
                    \o <<Sum({wlDecoder, precharger, sramWriteDriver}, "Power")>>
             ELSE DFFCalculatePower(dff) \o <<Sum({wlDecoder, dff}, "Power")>>))

=============================================================================
