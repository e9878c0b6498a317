---------------------------- MODULE MCSimulation ----------------------------
(***************************************************************************)
(* Every operation mode with every cell and access the code tells apart;   *)
(* for each, four parameter files in which any two of converter, clocking  *)
(* and width are chosen both ways together, the other choices following.   *)
(***************************************************************************)
EXTENDS Simulation

MCMode == {"conventionalSequential", "conventionalParallel", "BNNsequential", "BNNparallel",
           "XNORsequential", "XNORparallel"}

MCCell == {<<"SRAM", "CMOS">>, <<"RRAM", "CMOS">>, <<"FeFET", "none">>}

\* A parameter file: the choices that interact are free, the others follow them.
Configuration(mode, cell, SARADC, synchronous, one) ==
  [mode |-> mode, memCellType |-> cell[1], accessType |-> cell[2],
   SARADC |-> SARADC, synchronous |-> synchronous,
   currentMode |-> ~ one,
   numColMuxed |-> IF one THEN 1 ELSE 8,
   numCellPerSynapse |-> CASE mode = "BNNparallel" -> 2
                           [] mode \in {"conventionalSequential", "conventionalParallel"} ->
                                IF one THEN 1 ELSE 8
                           [] OTHER -> 1,
   numReadPulse |-> IF one # SARADC THEN 1 ELSE 16,
   avgWeightBit |-> IF cell[1] = "SRAM" \/ one THEN 1 ELSE 2,
   writeVoltage |-> IF cell[1] = "FeFET" THEN 3000 ELSE IF one THEN 1200 ELSE 2000,
   novelMapping |-> one = (cell[1] = "SRAM"),
   chipActivation |-> synchronous = (cell[1] = "RRAM"),
   reLu |-> one = (mode \in {"conventionalSequential", "BNNsequential", "XNORparallel"}),
   peBufferType |-> one,
   globalBufferType |-> SARADC]

MCOption ==
  {Configuration(mode, cell, SARADC, synchronous, SARADC # synchronous) :
     mode \in MCMode, cell \in MCCell, SARADC, synchronous \in BOOLEAN}

=============================================================================
