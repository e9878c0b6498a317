------------------------------ MODULE SubArray ------------------------------
(***************************************************************************)
(* SubArray.cpp: the crossbar of a processing element with its peripheral  *)
(* circuits.  Which circuits are in use depends on the memory cell and the *)
(* operation mode; every method repeats that choice, branch by branch, and *)
(* a branch that forgets a circuit reads what was never computed.          *)
(***************************************************************************)
EXTENDS Circuits

VARIABLE option     \* the configuration (Param.cpp), fixed for a run

\* The members of the one SubArray of the chip.
S(member) == <<"subArrayInPE", member>>
TheSubArray == <<"subArrayInPE">>

SRAM == option.memCellType = "SRAM"
CMOS_access == option.accessType = "CMOS"
conventionalSequential == option.mode = "conventionalSequential"
conventionalParallel == option.mode = "conventionalParallel"
BNNorXNORsequential == option.mode \in {"BNNsequential", "XNORsequential"}
BNNorXNORparallel == option.mode \in {"BNNparallel", "XNORparallel"}

\* The branch a method takes among the four that every method has.
Branch(sequential, parallel, BNNsequential, BNNparallel) ==
  CASE conventionalSequential -> sequential
    [] conventionalParallel -> parallel
    [] BNNorXNORsequential -> BNNsequential
    [] BNNorXNORparallel -> BNNparallel

-----------------------------------------------------------------------------
(* Initialize                                                              *)

ShiftAddsInitialize ==
  When(option.numCellPerSynapse > 1, ShiftAddInitialize(S("shiftAddWeight")))
    \o When(option.numReadPulse > 1, ShiftAddInitialize(S("shiftAddInput")))

MuxesInitialize ==
  When(option.numColMuxed > 1, MuxInitialize(S("mux")) \o RowDecoderInitialize(S("muxDecoder")))

ADCInitialize(encoder) ==
  IF option.SARADC
  THEN SarADCInitialize(S("sarADC"))
  ELSE MultilevelSenseAmpInitialize(S("multilevelSenseAmp"))
         \o When(encoder, MultilevelSAEncoderInitialize(S("multilevelSAEncoder")))

DriverInitialize ==
  IF CMOS_access THEN WLNewDecoderDriverInitialize(S("wlNewDecoderDriver"))
                 ELSE DecoderDriverInitialize(S("wlDecoderDriver"))

RowSwitchInitialize ==
  IF CMOS_access THEN NewSwitchMatrixInitialize(S("wlNewSwitchMatrix"))
                 ELSE SwitchMatrixInitialize(S("wlSwitchMatrix"))

SRAMInitialize ==
  Branch(RowDecoderInitialize(S("wlDecoder")) \o SenseAmpInitialize(S("senseAmp"))
           \o DFFInitialize(S("dff")) \o AdderInitialize(S("adder")) \o ShiftAddsInitialize,
         SwitchMatrixInitialize(S("wlSwitchMatrix")) \o MuxesInitialize \o ADCInitialize(TRUE)
           \o ShiftAddsInitialize,
         RowDecoderInitialize(S("wlDecoder")) \o SenseAmpInitialize(S("senseAmp"))
           \o DFFInitialize(S("dff")) \o AdderInitialize(S("adder")),
         SwitchMatrixInitialize(S("wlSwitchMatrix")) \o ADCInitialize(TRUE))
    \o PrechargerInitialize(S("precharger")) \o SRAMWriteDriverInitialize(S("sramWriteDriver"))

\* Mutant: only what is far above the supply voltage is shifted.
LevelShiftersInitializeMutant ==
  When(option.writeVoltage > 2500,
       LevelShifterInitialize(S("wllevelshifter")) \o LevelShifterInitialize(S("bllevelshifter"))
         \o LevelShifterInitialize(S("sllevelshifter")))

LevelShiftersInitialize ==
  When(option.writeVoltage > 1500,
       LevelShifterInitialize(S("wllevelshifter")) \o LevelShifterInitialize(S("bllevelshifter"))
         \o LevelShifterInitialize(S("sllevelshifter")))

eNVMInitialize ==
  LevelShiftersInitialize \o
  Branch(RowDecoderInitialize(S("wlDecoder")) \o DriverInitialize
           \o SwitchMatrixInitialize(S("slSwitchMatrix")) \o MuxesInitialize
           \o ADCInitialize(option.avgWeightBit > 1)
           \o DFFInitialize(S("dff")) \o AdderInitialize(S("adder")) \o ShiftAddsInitialize,
         RowSwitchInitialize \o SwitchMatrixInitialize(S("slSwitchMatrix")) \o MuxesInitialize
           \o ADCInitialize(TRUE) \o ShiftAddsInitialize,
         RowDecoderInitialize(S("wlDecoder")) \o DriverInitialize
           \o SwitchMatrixInitialize(S("slSwitchMatrix")) \o MuxesInitialize
           \o CurrentSenseAmpInitialize(S("rowCurrentSenseAmp"))
           \o DFFInitialize(S("dff")) \o AdderInitialize(S("adder")),
         RowSwitchInitialize \o SwitchMatrixInitialize(S("slSwitchMatrix")) \o MuxesInitialize
           \o ADCInitialize(TRUE))

SubArrayInitialize ==
  (IF SRAM THEN SRAMInitialize ELSE eNVMInitialize) \o <<Initialise(TheSubArray)>>

-----------------------------------------------------------------------------
(* CalculateArea                                                           *)

ShiftAddsCalculateArea ==
  When(option.numReadPulse > 1, ShiftAddCalculateArea(S("shiftAddInput")))
    \o When(option.numCellPerSynapse > 1, ShiftAddCalculateArea(S("shiftAddWeight")))

\* The height of the taller of the two is then imposed on the multiplexer.
MuxesCalculateArea ==
  When(option.numColMuxed > 1,
       MuxCalculateArea(S("mux")) \o RowDecoderCalculateArea(S("muxDecoder"))
         \o <<Sum({S("mux"), S("muxDecoder")}, "Area")>> \o MuxCalculateArea(S("mux")))

ADCCalculateArea(encoder) ==
  IF option.SARADC
  THEN SarADCCalculateUnitArea(S("sarADC")) \o SarADCCalculateArea(S("sarADC"))
  ELSE MultilevelSenseAmpCalculateArea(S("multilevelSenseAmp"), option.currentMode)
         \o When(encoder, MultilevelSAEncoderCalculateArea(S("multilevelSAEncoder")))

DriverCalculateArea ==
  IF CMOS_access THEN WLNewDecoderDriverCalculateArea(S("wlNewDecoderDriver"))
                 ELSE DecoderDriverCalculateArea(S("wlDecoderDriver"))

RowSwitchCalculateArea ==
  IF CMOS_access THEN NewSwitchMatrixCalculateArea(S("wlNewSwitchMatrix"))
                 ELSE SwitchMatrixCalculateArea(S("wlSwitchMatrix"))

Muxes == IF option.numColMuxed > 1 THEN {S("mux"), S("muxDecoder")} ELSE {}
ShiftAdds == {S("shiftAddInput"), S("shiftAddWeight")}
ADCs == {S("multilevelSenseAmp"), S("multilevelSAEncoder"), S("sarADC")}
Drivers == {S("wlDecoder"), S("wlNewDecoderDriver"), S("wlDecoderDriver")}
RowSwitches == {S("wlNewSwitchMatrix"), S("wlSwitchMatrix")}

\* areaADC, areaAccum and areaOther: the conventional modes only.
AreaBreakdown == When(conventionalSequential \/ conventionalParallel,
                      <<Compute(TheSubArray, "AreaADC", {})>>)

SRAMCalculateArea ==
  PrechargerCalculateArea(S("precharger")) \o SRAMWriteDriverCalculateArea(S("sramWriteDriver"))
    \o Branch(RowDecoderCalculateArea(S("wlDecoder")) \o SenseAmpCalculateArea(S("senseAmp"))
                \o AdderCalculateArea(S("adder")) \o DFFCalculateArea(S("dff"))
                \o ShiftAddsCalculateArea
                \o <<Sum({S("wlDecoder"), S("senseAmp"), S("adder"), S("dff")} \cup ShiftAdds, "Area")>>,
              SwitchMatrixCalculateArea(S("wlSwitchMatrix")) \o MuxesCalculateArea
                \o ADCCalculateArea(TRUE) \o ShiftAddsCalculateArea
                \o <<Sum({S("wlSwitchMatrix")} \cup Muxes \cup ADCs \cup ShiftAdds, "Area")>>,
              RowDecoderCalculateArea(S("wlDecoder")) \o SenseAmpCalculateArea(S("senseAmp"))
                \o AdderCalculateArea(S("adder")) \o DFFCalculateArea(S("dff"))
                \o <<Sum({S("wlDecoder"), S("senseAmp"), S("adder"), S("dff")}, "Area")>>,
              SwitchMatrixCalculateArea(S("wlSwitchMatrix")) \o ADCCalculateArea(TRUE)
                \o <<Sum({S("wlSwitchMatrix")} \cup ADCs, "Area")>>)
    \o <<Sum({S("precharger"), S("sramWriteDriver")}, "Area")>>

LevelShifters == {S("wllevelshifter"), S("bllevelshifter"), S("sllevelshifter")}

LevelShiftersCalculateArea ==
  When(option.writeVoltage > 1500,
       LevelShifterCalculateArea(S("wllevelshifter"))
         \o LevelShifterCalculateArea(S("bllevelshifter"))
         \o LevelShifterCalculateArea(S("sllevelshifter"))
         \o <<Sum(LevelShifters, "Area")>>)

eNVMCalculateArea ==
  LevelShiftersCalculateArea \o
  Branch(RowDecoderCalculateArea(S("wlDecoder")) \o DriverCalculateArea
           \o SwitchMatrixCalculateArea(S("slSwitchMatrix")) \o MuxesCalculateArea
           \o ADCCalculateArea(option.avgWeightBit > 1)
           \o DFFCalculateArea(S("dff")) \o AdderCalculateArea(S("adder"))
           \o ShiftAddsCalculateArea
           \o <<Sum(Drivers \cup ADCs \cup Muxes \cup ShiftAdds
                      \cup {S("slSwitchMatrix"), S("adder"), S("dff")}, "Area")>>,
         RowSwitchCalculateArea \o SwitchMatrixCalculateArea(S("slSwitchMatrix"))
           \o MuxesCalculateArea \o ADCCalculateArea(TRUE) \o ShiftAddsCalculateArea
           \o <<Sum(RowSwitches \cup ADCs \cup Muxes \cup ShiftAdds \cup {S("slSwitchMatrix")},
                    "Area")>>,
         RowDecoderCalculateArea(S("wlDecoder")) \o DriverCalculateArea
           \o SwitchMatrixCalculateArea(S("slSwitchMatrix")) \o MuxesCalculateArea
           \o CurrentSenseAmpCalculateUnitArea(S("rowCurrentSenseAmp"))
           \o CurrentSenseAmpCalculateArea(S("rowCurrentSenseAmp"))
           \o DFFCalculateArea(S("dff")) \o AdderCalculateArea(S("adder"))
           \o <<Sum(Drivers \cup Muxes \cup {S("slSwitchMatrix"), S("rowCurrentSenseAmp"),
                    S("adder"), S("dff")}, "Area")>>,
         RowSwitchCalculateArea \o SwitchMatrixCalculateArea(S("slSwitchMatrix"))
           \o MuxesCalculateArea \o ADCCalculateArea(TRUE)
           \o <<Sum(RowSwitches \cup ADCs \cup {S("mux"), S("muxDecoder"), S("slSwitchMatrix")},
                    "Area")>>)

SubArrayCalculateArea ==
  Method(TheSubArray, "Area", {},
         (IF SRAM THEN SRAMCalculateArea ELSE eNVMCalculateArea) \o AreaBreakdown)

-----------------------------------------------------------------------------
(* CalculateLatency.  With CalculateclkFreq the sensing path is measured,  *)
(* for the clock period; without, the cycles are counted, and unless the   *)
(* chip is synchronous the sensing path is measured as well.               *)

ShiftAddsCalculateLatency ==
  When(option.numCellPerSynapse > 1,
       ShiftAddCalculateLatency(S("shiftAddWeight"), option.synchronous))
    \o When(option.numReadPulse > 1,
            ShiftAddCalculateLatency(S("shiftAddInput"), option.synchronous))

MuxesCalculateLatency ==
  When(option.numColMuxed > 1,
       MuxCalculateLatency(S("mux")) \o <<Read(S("mux"), "Area")>>
         \o RowDecoderCalculateLatency(S("muxDecoder")))

ADCCalculateLatency(encoder) ==
  IF option.SARADC
  THEN SarADCCalculateLatency(S("sarADC"))
  ELSE MultilevelSenseAmpCalculateLatency(S("multilevelSenseAmp"))
         \o When(encoder, MultilevelSAEncoderCalculateLatency(S("multilevelSAEncoder")))

DriverCalculateLatency ==
  <<Read(S("wlDecoder"), "Load")>>
    \o (IF CMOS_access THEN WLNewDecoderDriverCalculateLatency(S("wlNewDecoderDriver"))
                       ELSE DecoderDriverCalculateLatency(S("wlDecoderDriver")))

RowSwitchCalculateLatency ==
  IF CMOS_access THEN NewSwitchMatrixCalculateLatency(S("wlNewSwitchMatrix"))
                 ELSE SwitchMatrixCalculateLatency(S("wlSwitchMatrix"))

\* if (CalculateclkFreq || !synchronous) sense; if (CalculateclkFreq) the sum
\* of the sensing circuits; if (!CalculateclkFreq) the accumulating ones, and
\* the sum of those, with the others unless the cycles are counted.
LatencyOf(CalculateclkFreq, sense, sensing, accumulate, accumulating, others) ==
  When(CalculateclkFreq \/ ~ option.synchronous, sense)
    \o When(CalculateclkFreq, <<Sum(sensing, "Latency")>>)
    \o When(~ CalculateclkFreq,
            accumulate \o <<Sum(accumulating, "Latency")>>
              \o When(~ option.synchronous, <<Sum(others, "Latency")>>))

AdderAndDFF ==
  <<Read(S("dff"), "Area")>> \o AdderCalculateLatency(S("adder"))
    \o DFFCalculateLatency(S("dff"))

SRAMSequentialLatency(CalculateclkFreq) ==
  LET sensing == {S("wlDecoder"), S("precharger"), S("senseAmp")}
  IN LatencyOf(CalculateclkFreq,
       RowDecoderCalculateLatency(S("wlDecoder")) \o PrechargerCalculateLatency(S("precharger"))
         \o SenseAmpCalculateLatency(S("senseAmp")) \o <<Read(S("wlDecoder"), "Load")>>,
       sensing,
       AdderAndDFF \o ShiftAddsCalculateLatency,
       {S("adder")} \cup ShiftAdds,
       sensing \cup {S("dff")})

SRAMParallelLatency(CalculateclkFreq) ==
  LET sensing == {S("wlSwitchMatrix"), S("precharger")} \cup Muxes \cup ADCs
  IN LatencyOf(CalculateclkFreq,
       SwitchMatrixCalculateLatency(S("wlSwitchMatrix"))
         \o PrechargerCalculateLatency(S("precharger"))
         \o ADCCalculateLatency(TRUE) \o MuxesCalculateLatency
         \o <<Read(S("wlSwitchMatrix"), "Load")>>,
       sensing, ShiftAddsCalculateLatency, ShiftAdds, sensing)

SRAMBNNSequentialLatency(CalculateclkFreq) ==
  LET sensing == {S("wlDecoder"), S("precharger"), S("senseAmp")}
  IN LatencyOf(CalculateclkFreq,
       RowDecoderCalculateLatency(S("wlDecoder")) \o PrechargerCalculateLatency(S("precharger"))
         \o SenseAmpCalculateLatency(S("senseAmp")) \o <<Read(S("wlDecoder"), "Load")>>,
       sensing, AdderAndDFF, {S("adder")}, sensing \cup {S("dff")})

\* The multiplexer is measured here, though Initialize and CalculateArea
\* leave it out in this mode.
SRAMBNNParallelLatency(CalculateclkFreq) ==
  LET sensing == {S("wlSwitchMatrix"), S("precharger")} \cup ADCs
  IN LatencyOf(CalculateclkFreq,
       SwitchMatrixCalculateLatency(S("wlSwitchMatrix"))
         \o PrechargerCalculateLatency(S("precharger"))
         \o ADCCalculateLatency(TRUE) \o MuxesCalculateLatency
         \o <<Read(S("wlSwitchMatrix"), "Load")>>,
       sensing, <<>>, {}, sensing \cup Muxes)

eNVMSequentialLatency(CalculateclkFreq) ==
  LET sensing == Drivers \cup Muxes \cup ADCs
  IN LatencyOf(CalculateclkFreq,
       RowDecoderCalculateLatency(S("wlDecoder")) \o DriverCalculateLatency
         \o MuxesCalculateLatency \o ADCCalculateLatency(option.avgWeightBit > 1),
       sensing,
       AdderAndDFF \o ShiftAddsCalculateLatency,
       {S("adder")} \cup ShiftAdds,
       sensing \cup {S("dff")})

eNVMParallelLatency(CalculateclkFreq) ==
  LET sensing == RowSwitches \cup Muxes \cup ADCs
  IN LatencyOf(CalculateclkFreq,
       RowSwitchCalculateLatency \o MuxesCalculateLatency \o ADCCalculateLatency(TRUE),
       sensing, ShiftAddsCalculateLatency, ShiftAdds, sensing)

eNVMBNNSequentialLatency(CalculateclkFreq) ==
  LET sensing == Drivers \cup Muxes \cup {S("rowCurrentSenseAmp")}
  IN LatencyOf(CalculateclkFreq,
       RowDecoderCalculateLatency(S("wlDecoder")) \o DriverCalculateLatency
         \o MuxesCalculateLatency \o CurrentSenseAmpCalculateLatency(S("rowCurrentSenseAmp")),
       sensing, AdderAndDFF, {S("adder")}, sensing \cup {S("dff")})

eNVMBNNParallelLatency(CalculateclkFreq) ==
  LET sensing == RowSwitches \cup Muxes \cup ADCs
  IN LatencyOf(CalculateclkFreq,
       RowSwitchCalculateLatency \o MuxesCalculateLatency \o ADCCalculateLatency(TRUE),
       sensing, <<>>, {}, sensing)

SubArrayCalculateLatency(CalculateclkFreq) ==
  Method(TheSubArray, "Latency", {},
    IF SRAM
    THEN Branch(SRAMSequentialLatency(CalculateclkFreq), SRAMParallelLatency(CalculateclkFreq),
                SRAMBNNSequentialLatency(CalculateclkFreq), SRAMBNNParallelLatency(CalculateclkFreq))
    ELSE Branch(eNVMSequentialLatency(CalculateclkFreq), eNVMParallelLatency(CalculateclkFreq),
                eNVMBNNSequentialLatency(CalculateclkFreq), eNVMBNNParallelLatency(CalculateclkFreq)))

-----------------------------------------------------------------------------
(* CalculatePower                                                          *)

ShiftAddsCalculatePower ==
  When(option.numCellPerSynapse > 1, ShiftAddCalculatePower(S("shiftAddWeight")))
    \o When(option.numReadPulse > 1, ShiftAddCalculatePower(S("shiftAddInput")))

MuxesCalculatePower ==
  When(option.numColMuxed > 1,
       MuxCalculatePower(S("mux")) \o RowDecoderCalculatePower(S("muxDecoder")))

ADCCalculatePower(encoder) ==
  IF option.SARADC
  THEN SarADCCalculatePower(S("sarADC"))
  ELSE MultilevelSenseAmpCalculatePower(S("multilevelSenseAmp"))
         \o When(encoder, MultilevelSAEncoderCalculatePower(S("multilevelSAEncoder")))

DriverCalculatePower ==
  IF CMOS_access THEN WLNewDecoderDriverCalculatePower(S("wlNewDecoderDriver"))
                 ELSE DecoderDriverCalculatePower(S("wlDecoderDriver"))

RowSwitchCalculatePower ==
  IF CMOS_access THEN NewSwitchMatrixCalculatePower(S("wlNewSwitchMatrix"))
                 ELSE SwitchMatrixCalculatePower(S("wlSwitchMatrix"))

\* readDynamicEnergyADC, ...Accum and ...Other: the conventional modes only.
PowerBreakdown == <<Compute(TheSubArray, "PowerADC", {})>>

SRAMSequentialPower ==
  RowDecoderCalculatePower(S("wlDecoder")) \o PrechargerCalculatePower(S("precharger"))
    \o SRAMWriteDriverCalculatePower(S("sramWriteDriver")) \o AdderCalculatePower(S("adder"))
    \o DFFCalculatePower(S("dff")) \o SenseAmpCalculatePower(S("senseAmp"))
    \o ShiftAddsCalculatePower
    \o <<Sum({S("wlDecoder"), S("precharger"), S("sramWriteDriver"), S("adder"), S("dff"),
              S("senseAmp")} \cup ShiftAdds, "Power")>>
    \o PowerBreakdown

SRAMParallelPower ==
  SwitchMatrixCalculatePower(S("wlSwitchMatrix")) \o PrechargerCalculatePower(S("precharger"))
    \o SRAMWriteDriverCalculatePower(S("sramWriteDriver"))
    \o MuxesCalculatePower \o ADCCalculatePower(TRUE) \o ShiftAddsCalculatePower
    \o <<Sum({S("wlSwitchMatrix"), S("precharger"), S("sramWriteDriver")}
               \cup Muxes \cup ADCs \cup ShiftAdds, "Power")>>
    \o PowerBreakdown

SRAMBNNSequentialPower ==
  RowDecoderCalculatePower(S("wlDecoder")) \o PrechargerCalculatePower(S("precharger"))
    \o SRAMWriteDriverCalculatePower(S("sramWriteDriver")) \o AdderCalculatePower(S("adder"))
    \o DFFCalculatePower(S("dff")) \o SenseAmpCalculatePower(S("senseAmp"))
    \o <<Sum({S("wlDecoder"), S("precharger"), S("sramWriteDriver"), S("adder"), S("dff"),
              S("senseAmp")}, "Power")>>

SRAMBNNParallelPower ==
  SwitchMatrixCalculatePower(S("wlSwitchMatrix")) \o PrechargerCalculatePower(S("precharger"))
    \o SRAMWriteDriverCalculatePower(S("sramWriteDriver")) \o ADCCalculatePower(TRUE)
    \o <<Sum({S("wlSwitchMatrix"), S("precharger"), S("sramWriteDriver")} \cup ADCs, "Power")>>

eNVMSequentialPower ==
  RowDecoderCalculatePower(S("wlDecoder")) \o DriverCalculatePower
    \o SwitchMatrixCalculatePower(S("slSwitchMatrix")) \o MuxesCalculatePower
    \o ADCCalculatePower(option.avgWeightBit > 1)
    \o AdderCalculatePower(S("adder")) \o DFFCalculatePower(S("dff"))
    \o ShiftAddsCalculatePower
    \o <<Sum(Drivers \cup Muxes \cup ADCs \cup ShiftAdds
               \cup {S("slSwitchMatrix"), S("adder"), S("dff")}, "Power")>>
    \o PowerBreakdown

eNVMParallelPower ==
  RowSwitchCalculatePower \o SwitchMatrixCalculatePower(S("slSwitchMatrix"))
    \o MuxesCalculatePower \o ADCCalculatePower(TRUE) \o ShiftAddsCalculatePower
    \o <<Sum(RowSwitches \cup Muxes \cup ADCs \cup ShiftAdds \cup {S("slSwitchMatrix")}, "Power")>>
    \o PowerBreakdown

eNVMBNNSequentialPower ==
  RowDecoderCalculatePower(S("wlDecoder")) \o DriverCalculatePower
    \o SwitchMatrixCalculatePower(S("slSwitchMatrix")) \o MuxesCalculatePower
    \o CurrentSenseAmpCalculatePower(S("rowCurrentSenseAmp"))
    \o AdderCalculatePower(S("adder")) \o DFFCalculatePower(S("dff"))
    \o <<Sum(Drivers \cup Muxes \cup {S("slSwitchMatrix"), S("rowCurrentSenseAmp"),
             S("adder"), S("dff")}, "Power")>>

eNVMBNNParallelPower ==
  RowSwitchCalculatePower \o SwitchMatrixCalculatePower(S("slSwitchMatrix"))
    \o MuxesCalculatePower \o ADCCalculatePower(TRUE)
    \o <<Sum(RowSwitches \cup Muxes \cup ADCs \cup {S("slSwitchMatrix")}, "Power")>>

SubArrayCalculatePower ==
  Method(TheSubArray, "Power", {},
    IF SRAM THEN Branch(SRAMSequentialPower, SRAMParallelPower,
                        SRAMBNNSequentialPower, SRAMBNNParallelPower)
            ELSE Branch(eNVMSequentialPower, eNVMParallelPower,
                        eNVMBNNSequentialPower, eNVMBNNParallelPower))

=============================================================================
