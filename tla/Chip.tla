-------------------------------- MODULE Chip --------------------------------
(***************************************************************************)
(* ProcessingUnit.cpp, Tile.cpp and Chip.cpp: the hierarchy of the chip, each *)
(* level an array of the one below that one of its members represents,     *)
(* with the circuits that add up, buffer and carry their results.  These   *)
(* exist twice, for novel (NM) and for conventional mapping (CM).  Also the *)
(* chip of HyperMR in NeuroSimAPI.cpp, without activation and pooling.     *)
(***************************************************************************)
EXTENDS SubArray

-----------------------------------------------------------------------------
(* Processing elements: arrays of SubArrays.                                *)

\* The circuit of a mapping: adderTreeNM or adderTreeCM, ...
Unit(member, NM) == <<member \o (IF NM THEN "NM" ELSE "CM")>>

NameOf(member, NM) == Unit(member, NM)[1]

ProcessingUnitGlobals ==
  {"subArrayInPE"} \cup {NameOf(m, NM) : NM \in BOOLEAN,
     m \in {"adderTree", "busInput", "busOutput", "bufferInput", "bufferOutput"}}

ProcessingUnitUnitInitialize(NMpe) ==
  AdderTreeInitialize(Unit("adderTree", NMpe))
    \o DFFInitialize(Unit("bufferInput", NMpe)) \o DFFInitialize(Unit("bufferOutput", NMpe))
    \o <<Sum({TheSubArray}, "Area")>>
    \o BusInitialize(Unit("busInput", NMpe)) \o BusInitialize(Unit("busOutput", NMpe))

ProcessingUnitInitialize ==
  <<New(ProcessingUnitGlobals)>> \o SubArrayInitialize \o SubArrayCalculateArea
    \o When(option.novelMapping, ProcessingUnitUnitInitialize(TRUE))
    \o ProcessingUnitUnitInitialize(FALSE)

ProcessingUnitCalculateArea(NMpe) ==
  SubArrayCalculateArea
    \o AdderTreeCalculateArea(Unit("adderTree", NMpe))
    \o DFFCalculateArea(Unit("bufferInput", NMpe)) \o DFFCalculateArea(Unit("bufferOutput", NMpe))
    \o BusCalculateArea(Unit("busInput", NMpe)) \o BusCalculateArea(Unit("busOutput", NMpe))
    \o <<Sum({TheSubArray} \cup {Unit(m, NMpe) : m \in {"adderTree", "bufferInput", "bufferOutput"}},
             "Area"),
         Read(TheSubArray, "AreaADC"), Read(TheSubArray, "Area")>>

\* One array, input vector by input vector.
SubArrayPerformance(CalculateclkFreq) ==
  SubArrayCalculateLatency(CalculateclkFreq) \o <<Sum({TheSubArray}, "Latency")>>
    \o When(~ CalculateclkFreq,
            SubArrayCalculatePower
              \o <<Sum({TheSubArray}, "Power"), Read(TheSubArray, "PowerADC")>>)

\* The partial sums of the arrays of a column.
AdderTreePerformance(tree, stages) ==
  AdderTreeCalculateLatency(tree, stages) \o AdderTreeCalculatePower(tree, stages)
    \o <<Sum({tree}, "Latency"), Sum({tree}, "Power")>>

ProcessingUnitBuffers(NMpe) == {Unit(m, NMpe) : m \in {"bufferInput", "bufferOutput"}}
ProcessingUnitBuses(NMpe) == {Unit(m, NMpe) : m \in {"busInput", "busOutput"}}

\* The results of the latencies the sums are made of, for either mapping.
BuffersAndBusesLatency(NMpe) ==
  <<Sum(ProcessingUnitBuffers(NMpe), "Latency")>>
    \o When(~ option.synchronous, <<Sum(ProcessingUnitBuses(NMpe), "Latency")>>)

\* dup: whether the weights are duplicated over the arrays, and then over all
\* of them ("full") or some ("partial").  A fully duplicated layer has nothing
\* to add up and leaves the adder tree alone, whose leakage is read all the same.
ProcessingUnitCalculatePerformance(dup, NMpe, stages, CalculateclkFreq) ==
  LET in == Unit("bufferInput", NMpe)
      out == Unit("bufferOutput", NMpe)
      busIn == Unit("busInput", NMpe)
      busOut == Unit("busOutput", NMpe)
  IN SubArrayPerformance(CalculateclkFreq)
       \o When(dup # "full", AdderTreePerformance(Unit("adderTree", NMpe), stages))
       \o When(~ CalculateclkFreq,
            DFFCalculateLatency(in) \o DFFCalculateLatency(out)
              \o DFFCalculatePower(in) \o DFFCalculatePower(out)
              \o BusCalculateLatency(busIn) \o BusCalculatePower(busIn)
              \o BusCalculateLatency(busOut) \o BusCalculatePower(busOut)
              \o BuffersAndBusesLatency(NMpe)
              \o <<Sum({in, out, busIn, busOut, Unit("adderTree", NMpe)}, "Power")>>)

-----------------------------------------------------------------------------
(* NeuroSimAPI.cpp: the same for HyperMR, with latencies only.             *)

ProcessingUnitCalculatePerformanceV1(NMpe, stages, CalculateclkFreq) ==
  LET tree == Unit("adderTree", NMpe)
  IN SubArrayCalculateLatency(CalculateclkFreq) \o <<Sum({TheSubArray}, "Latency")>>
       \o AdderTreeCalculateLatency(tree, stages) \o <<Sum({tree}, "Latency")>>
       \o When(~ CalculateclkFreq,
            DFFCalculateLatency(Unit("bufferInput", NMpe))
              \o DFFCalculateLatency(Unit("bufferOutput", NMpe))
              \o BusCalculateLatency(Unit("busInput", NMpe))
              \o BusCalculateLatency(Unit("busOutput", NMpe))
              \o BuffersAndBusesLatency(NMpe))

-----------------------------------------------------------------------------
(* Tiles: processing elements with the accumulation of their results, an    *)
(* activation unit (unless the chip has one), buffers and an H-tree.        *)

TileGlobals ==
  {"subArrayInPE"} \cup {NameOf(m, NM) : NM \in BOOLEAN,
     m \in {"inputBuffer", "outputBuffer", "hTree", "accumulation"}}

\* The activation unit of a tile: none, reLu or sigmoid.
TileHas(unit) == ~ option.chipActivation /\ option.reLu = (unit = "reLu")

ActivationGlobals ==
  {NameOf(m, NM) : NM \in BOOLEAN, m \in {u \in {"reLu", "sigmoid"} : TileHas(u)}}

TileUnitInitialize(NMTile) ==
  AdderTreeInitialize(Unit("accumulation", NMTile))
    \o When(TileHas("reLu"), BitShifterInitialize(Unit("reLu", NMTile)))
    \o When(TileHas("sigmoid"), SigmoidInitialize(Unit("sigmoid", NMTile)))
    \o BufferInitialize(Unit("outputBuffer", NMTile), option.peBufferType)
    \o BufferInitialize(Unit("inputBuffer", NMTile), option.peBufferType)
    \o HTreeInitialize(Unit("hTree", NMTile))

\* ProcessingUnitInitialize allocates subArrayInPE once more.
TileInitialize ==
  <<New(TileGlobals), New(ActivationGlobals)>> \o ProcessingUnitInitialize
    \o When(option.novelMapping, TileUnitInitialize(TRUE)) \o TileUnitInitialize(FALSE)

TileCalculateArea(NMTile) ==
  LET parts == {Unit(m, NMTile) : m \in {"accumulation", "inputBuffer", "outputBuffer", "hTree"}}
  IN ProcessingUnitCalculateArea(NMTile)
       \o AdderTreeCalculateArea(Unit("accumulation", NMTile))
       \o When(TileHas("reLu"), BitShifterCalculateArea(Unit("reLu", NMTile))
                                  \o <<Sum({Unit("reLu", NMTile)}, "Area")>>)
       \o When(TileHas("sigmoid"), SigmoidCalculateUnitArea(Unit("sigmoid", NMTile))
                                     \o SigmoidCalculateArea(Unit("sigmoid", NMTile))
                                     \o <<Sum({Unit("sigmoid", NMTile)}, "Area")>>)
       \o BufferCalculateArea(Unit("inputBuffer", NMTile), option.peBufferType)
       \o BufferCalculateArea(Unit("outputBuffer", NMTile), option.peBufferType)
       \o HTreeCalculateArea(Unit("hTree", NMTile))
       \o <<Sum(parts, "Area")>>

ActivationPerformance(NMTile) ==
  LET reLu == Unit("reLu", NMTile)
      sigmoid == Unit("sigmoid", NMTile)
  IN When(TileHas("reLu"),
          BitShifterCalculateLatency(reLu) \o BitShifterCalculatePower(reLu)
            \o <<Sum({reLu}, "Latency"), Sum({reLu}, "Power")>>)
       \o When(TileHas("sigmoid"),
               SigmoidCalculateLatency(sigmoid) \o SigmoidCalculatePower(sigmoid)
                 \o <<Sum({sigmoid}, "Latency"), Sum({sigmoid}, "Power")>>)

TileBufferPerformance(buffer) ==
  BufferCalculateLatency(buffer, option.peBufferType, option.synchronous)
    \o BufferCalculatePower(buffer, option.peBufferType)

TileParts(NMTile) == {Unit(m, NMTile) : m \in {"inputBuffer", "outputBuffer", "hTree"}}

\* What follows the sweep over the PEs unless the clock is being measured: the
\* PE's area is computed for the distance its results travel.
TileTransfers(NMTile) ==
  ActivationPerformance(NMTile)
    \o TileBufferPerformance(Unit("outputBuffer", NMTile))
    \o TileBufferPerformance(Unit("inputBuffer", NMTile))
    \o ProcessingUnitCalculateArea(NMTile)
    \o HTreeCalculateLatency(Unit("hTree", NMTile)) \o HTreeCalculatePower(Unit("hTree", NMTile))
    \o <<Sum(TileParts(NMTile), "Latency"),
         Sum(TileParts(NMTile) \cup {Unit("accumulation", NMTile)}, "Power")>>

\* speedUp: whether the layer is sped up by duplicating weights, and then over
\* PEs ("partial", dup "none") or within all of them ("full").  Sped up in full
\* there is nothing to accumulate; in part, only over more than one row of PEs,
\* when the accumulation has stages.
TileCalculatePerformance(novelMap, speedUp, dup, stages, CalculateclkFreq) ==
  ProcessingUnitCalculatePerformance(dup, novelMap, stages, CalculateclkFreq)
    \o When(~ novelMap /\ (speedUp = "none" \/ (speedUp = "partial" /\ stages > 0)),
            AdderTreePerformance(Unit("accumulation", FALSE), stages))
    \o When(novelMap /\ ~ CalculateclkFreq,
            AdderTreePerformance(Unit("accumulation", TRUE), stages))
    \o When(~ CalculateclkFreq, TileTransfers(novelMap))

-----------------------------------------------------------------------------
(* NeuroSimAPI.cpp: the PEs of a tile that a query reads.                  *)

TileCalculatePerformanceV1(stages, CalculateclkFreq) ==
  LET accumulation == Unit("accumulation", FALSE)
  IN ProcessingUnitCalculatePerformanceV1(FALSE, stages, CalculateclkFreq)
       \o AdderTreeCalculateLatency(accumulation, stages) \o <<Sum({accumulation}, "Latency")>>
       \o When(~ CalculateclkFreq,
            BufferCalculateLatency(Unit("outputBuffer", FALSE), option.peBufferType, option.synchronous)
              \o BufferCalculateLatency(Unit("inputBuffer", FALSE), option.peBufferType, option.synchronous)
              \o ProcessingUnitCalculateArea(FALSE)
              \o HTreeCalculateLatency(Unit("hTree", FALSE))
              \o <<Sum(TileParts(FALSE), "Latency")>>)

-----------------------------------------------------------------------------
(* The chip: tiles behind a global buffer and an H-tree, with the global    *)
(* accumulation, activation and pooling.                                    *)

G(name) == <<name>>

ChipGlobals == {"globalBuffer", "GhTree", "Gaccumulation", "Gsigmoid", "GreLu", "maxPool"}

ChipDesignInitialize == <<New(ChipGlobals)>>

\* The activation unit of the chip: none, reLu or sigmoid.
ChipHas(unit) == option.chipActivation /\ option.reLu = (unit = "reLu")

ChipInitialize ==
  TileInitialize
    \o BufferInitialize(G("globalBuffer"), option.globalBufferType)
    \o MaxPoolingInitialize(G("maxPool"))
    \o HTreeInitialize(G("GhTree"))
    \o AdderTreeInitialize(G("Gaccumulation"))
    \o When(ChipHas("reLu"), BitShifterInitialize(G("GreLu")))
    \o When(ChipHas("sigmoid"), SigmoidInitialize(G("Gsigmoid")))

GlobalTransfers == {G("globalBuffer"), G("GhTree")}

\* What follows the tiles of a layer unless the clock is being measured.
LayerPerformance(severalTiles, followedByMaxPool) ==
  When(ChipHas("reLu"),
       BitShifterCalculateLatency(G("GreLu")) \o BitShifterCalculatePower(G("GreLu"))
         \o <<Sum({G("GreLu")}, "Latency"), Sum({G("GreLu")}, "Power")>>)
    \o When(ChipHas("sigmoid"),
            SigmoidCalculateLatency(G("Gsigmoid")) \o SigmoidCalculatePower(G("Gsigmoid"))
              \o <<Sum({G("Gsigmoid")}, "Latency"), Sum({G("Gsigmoid")}, "Power")>>)
    \o When(severalTiles, AdderTreePerformance(G("Gaccumulation"), 2))
    \o When(followedByMaxPool,
            MaxPoolingCalculateLatency(G("maxPool")) \o MaxPoolingCalculatePower(G("maxPool"))
              \o <<Sum({G("maxPool")}, "Latency"), Sum({G("maxPool")}, "Power")>>)
    \o HTreeCalculateLatency(G("GhTree")) \o HTreeCalculatePower(G("GhTree"))
    \o BufferCalculateLatency(G("globalBuffer"), option.globalBufferType, option.synchronous)
    \o BufferCalculatePower(G("globalBuffer"), option.globalBufferType)
    \o <<Sum(GlobalTransfers, "Latency"), Sum(GlobalTransfers, "Power")>>

-----------------------------------------------------------------------------
(* NeuroSimAPI.cpp                                                         *)

ChipDesignInitializeV1 == <<New({"globalBuffer", "GhTree", "Gaccumulation"})>>

ChipInitializeV1 ==
  TileInitialize
    \o BufferInitialize(G("globalBuffer"), option.globalBufferType)
    \o HTreeInitialize(G("GhTree"))
    \o AdderTreeInitialize(G("Gaccumulation"))

\* Mutant: the global accumulation is left out of the area, which HyperMR
\* does not print.
ChipCalculateAreaV1Mutant ==
  When(option.novelMapping, TileCalculateArea(TRUE)) \o TileCalculateArea(FALSE)
    \o BufferCalculateArea(G("globalBuffer"), option.globalBufferType)
    \o HTreeCalculateArea(G("GhTree"))
    \o <<Sum(GlobalTransfers, "Area")>>

ChipCalculateAreaV1 ==
  When(option.novelMapping, TileCalculateArea(TRUE)) \o TileCalculateArea(FALSE)
    \o BufferCalculateArea(G("globalBuffer"), option.globalBufferType)
    \o HTreeCalculateArea(G("GhTree"))
    \o AdderTreeCalculateArea(G("Gaccumulation"))
    \o <<Sum(GlobalTransfers \cup {G("Gaccumulation")}, "Area")>>

\* What follows the tiles of a query, column by column of tiles.
QueryPerformanceV1(severalTiles) ==
  When(severalTiles, AdderTreeCalculateLatency(G("Gaccumulation"), 2)
                       \o <<Sum({G("Gaccumulation")}, "Latency")>>)
    \o HTreeCalculateLatency(G("GhTree"))
    \o BufferCalculateLatency(G("globalBuffer"), option.globalBufferType, option.synchronous)
    \o <<Sum(GlobalTransfers, "Latency")>>

\* Mutant: the global accumulation is not deleted.
freeGlobalVarMutant ==
  <<Delete({"param", "globalBuffer", "GhTree"} \cup TileGlobals \cup ProcessingUnitGlobals)>>

\* The activation units of the tiles are not among what is deleted.
freeGlobalVar ==
  <<Delete({"param", "globalBuffer", "GhTree", "Gaccumulation"} \cup TileGlobals
             \cup ProcessingUnitGlobals)>>

=============================================================================
