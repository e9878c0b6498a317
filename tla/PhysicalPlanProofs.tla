------------------------- MODULE PhysicalPlanProofs -------------------------
(***************************************************************************)
(* That the plans, their costs and their totals are exact for every        *)
(* matrix, every placement of it in PEs and every workload: the invariant  *)
(* IInv says what each plan was made of, and SInv, on top of it, what the  *)
(* lists of sizes and the totals add up to (sums: module SumsProofs).      *)
(***************************************************************************)
EXTENDS PhysicalPlan, SumsProofs

Placed == mat \subseteq RowIds \X ColumnIds

(* The nonzeros a pattern reads in a PE.                                    *)
ReadIn(p, PE) == {e \in Read(p) : Window(e) = PE}

(* A PE knows the rows and the columns of its nonzeros, not their pairs;    *)
(* looking each pair up in the matrix leaves the nonzeros read.             *)
LEMMA CellsAreRead ==
  ASSUME Placed, NEW p, NEW PE
  PROVE  AccessedCells(p, PE) = ReadIn(p, PE)
<1>1. ASSUME NEW e \in AccessedCells(p, PE) PROVE e \in ReadIn(p, PE)
  <2>1. e \in mat /\ RowInPattern(p, e[1]) /\ ColumnInPattern(p, e[2])
        /\ e[1] \in RowImprint(PE) /\ e[2] \in ColImprint(PE)
    BY DEF AccessedCells
  <2>2. PICK f \in mat : Window(f) = PE /\ f[1] = e[1]
    BY <2>1 DEF RowImprint
  <2>3. PICK g \in mat : Window(g) = PE /\ g[2] = e[2]
    BY <2>1 DEF ColImprint
  <2>4. Window(e) = PE
    BY <2>2, <2>3 DEF Window
  <2> QED
    BY <2>1, <2>4 DEF ReadIn, Read
<1>2. ASSUME NEW e \in ReadIn(p, PE) PROVE e \in AccessedCells(p, PE)
  <2>1. e \in mat /\ Window(e) = PE /\ RowInPattern(p, e[1]) /\ ColumnInPattern(p, e[2])
    BY DEF ReadIn, Read
  <2>2. e = <<e[1], e[2]>>
    BY <2>1 DEF Placed
  <2>3. e[1] \in RowImprint(PE) /\ e[2] \in ColImprint(PE)
    BY <2>1 DEF RowImprint, ColImprint
  <2> QED
    BY <2>1, <2>2, <2>3 DEF AccessedCells
<1> QED
  BY <1>1, <1>2

LEMMA PEsAreRead ==
  ASSUME Placed, NEW p
  PROVE  AccessedPEs(p) = {Window(e) : e \in Read(p)}
<1>1. \A e \in Read(p) : Window(e) \in StorageUnits /\ e \in ReadIn(p, Window(e))
  BY DEF Read, StorageUnits, ReadIn
<1>2. \A PE : ReadIn(p, PE) # {} => \E e \in Read(p) : Window(e) = PE
  BY DEF ReadIn
<1> QED
  BY <1>1, <1>2, CellsAreRead DEF AccessedPEs

LEMMA SizesAreRead ==
  ASSUME Placed, NEW p
  PROVE  PEQuerySize(p) = [PE \in {Window(e) : e \in Read(p)} |->
                             <<Cardinality({e[1] : e \in ReadIn(p, PE)}),
                               Cardinality({e[2] : e \in ReadIn(p, PE)})>>]
  BY PEsAreRead, CellsAreRead DEF PEQuerySize, AccessedRows, AccessedColumns

LEMMA FiniteIds == IsFiniteSet(RowIds) /\ IsFiniteSet(ColumnIds)
<1>1. IsFiniteSet(0 .. MatrixRows - 1) /\ IsFiniteSet(0 .. MatrixColumns - 1)
  BY DimensionsAssumption, FS_Interval
<1> QED
  BY <1>1 DEF RowIds, ColumnIds

(* Nothing infinite is read.                                                *)
LEMMA FiniteRead ==
  ASSUME Placed, NEW p
  PROVE  /\ IsFiniteSet(Read(p)) /\ IsFiniteSet(AccessedPEs(p)) /\ IsFiniteSet(AccessedTiles(p))
         /\ \A PE : IsFiniteSet(AccessedRows(p, PE))
<1>1. IsFiniteSet(RowIds) /\ IsFiniteSet(ColumnIds)
  BY FiniteIds
<1>2. IsFiniteSet(RowIds \X ColumnIds)
  BY <1>1, FS_Product
<1>3. IsFiniteSet(Read(p))
  BY <1>2, FS_Subset DEF Placed, Read
<1>4. IsFiniteSet(AccessedPEs(p))
  <2> PICK f : f = [e \in Read(p) |-> Window(e)]
    OBVIOUS
  <2>1. AccessedPEs(p) = {f[e] : e \in Read(p)}
    BY PEsAreRead
  <2> QED
    BY <1>3, <2>1, ImageIsFinite
<1>5. IsFiniteSet(AccessedTiles(p))
  <2> PICK f : f = [PE \in AccessedPEs(p) |-> Tile(PE)]
    OBVIOUS
  <2>1. AccessedTiles(p) = {f[PE] : PE \in AccessedPEs(p)}
    BY DEF AccessedTiles
  <2> QED
    BY <1>4, <2>1, ImageIsFinite
<1>6. ASSUME NEW PE PROVE IsFiniteSet(AccessedRows(p, PE))
  <2> PICK f : f = [e \in ReadIn(p, PE) |-> e[1]]
    OBVIOUS
  <2>1. AccessedRows(p, PE) = {f[e] : e \in ReadIn(p, PE)}
    BY CellsAreRead DEF AccessedRows
  <2>2. IsFiniteSet(ReadIn(p, PE))
    BY <1>3, FS_Subset DEF ReadIn
  <2> QED
    BY <2>1, <2>2, ImageIsFinite
<1> QED
  BY <1>3, <1>4, <1>5, <1>6

(* A tile has the rows and the columns read in any of its PEs.              *)
ReadInTile(p, t) == {e \in Read(p) : Tile(Window(e)) = t}

TilesOf(tiles, p) ==
  /\ DOMAIN tiles = AccessedTiles(p)
  /\ \A t \in AccessedTiles(p) :
       /\ tiles[t].accessed_rows = {e[1] : e \in ReadInTile(p, t)}
       /\ tiles[t].accessed_columns = {e[2] : e \in ReadInTile(p, t)}
       /\ tiles[t].input_vector_size >= Cardinality(tiles[t].accessed_rows)

LEMMA TilesAreRead ==
  ASSUME Placed, NEW p
  PROVE  TilesOf(TileQuerySize(p), p)
<1> SUFFICES ASSUME NEW t \in AccessedTiles(p)
             PROVE  /\ TileQuerySize(p)[t].accessed_rows = {e[1] : e \in ReadInTile(p, t)}
                    /\ TileQuerySize(p)[t].accessed_columns = {e[2] : e \in ReadInTile(p, t)}
                    /\ TileQuerySize(p)[t].input_vector_size
                          >= Cardinality(TileQuerySize(p)[t].accessed_rows)
  BY DEF TilesOf, TileQuerySize
<1> DEFINE PEs == {PE \in AccessedPEs(p) : Tile(PE) = t}
<1>1. /\ TileQuerySize(p)[t].accessed_rows = UNION {AccessedRows(p, PE) : PE \in PEs}
      /\ TileQuerySize(p)[t].accessed_columns = UNION {AccessedColumns(p, PE) : PE \in PEs}
  BY DEF TileQuerySize
<1>2. \A e \in ReadInTile(p, t) : Window(e) \in PEs /\ e \in ReadIn(p, Window(e))
  BY PEsAreRead DEF ReadIn, ReadInTile
<1>3. \A PE \in PEs : ReadIn(p, PE) \subseteq ReadInTile(p, t)
  BY DEF ReadIn, ReadInTile
<1>4. \A PE : /\ AccessedRows(p, PE) = {e[1] : e \in ReadIn(p, PE)}
              /\ AccessedColumns(p, PE) = {e[2] : e \in ReadIn(p, PE)}
  BY CellsAreRead DEF AccessedRows, AccessedColumns
<1>5. UNION {AccessedRows(p, PE) : PE \in PEs} = {e[1] : e \in ReadInTile(p, t)}
  BY <1>2, <1>3, <1>4
<1>6. UNION {AccessedColumns(p, PE) : PE \in PEs} = {e[2] : e \in ReadInTile(p, t)}
  BY <1>2, <1>3, <1>4
<1>7. TileQuerySize(p)[t].input_vector_size >= Cardinality(TileQuerySize(p)[t].accessed_rows)
  <2>1. PICK A, f, D : /\ D = PEs /\ A = [PE \in D |-> AccessedRows(p, PE)]
                       /\ f = [PE \in D |-> Cardinality(AccessedRows(p, PE))]
    OBVIOUS
  <2>2. IsFiniteSet(D) /\ \A PE \in D : IsFiniteSet(A[PE]) /\ f[PE] = Cardinality(A[PE])
    <3>1. IsFiniteSet(AccessedPEs(p)) /\ D \in SUBSET AccessedPEs(p)
      BY <2>1, FiniteRead
    <3>2. IsFiniteSet(D)
      BY <3>1, FS_Subset
    <3> QED
      BY <2>1, <3>2, FiniteRead
  <2>3. Cardinality(UNION {A[PE] : PE \in D}) <= SumOver(f, D)
    <3>1. Counted(f, A, D)
      BY <2>2 DEF Counted
    <3> QED
      BY <3>1, SumOfCardinalities
  <2>4. TileQuerySize(p)[t].input_vector_size = SumOver(f, D)
    BY <2>1 DEF TileQuerySize, Total, SumOver
  <2>5. TileQuerySize(p)[t].accessed_rows = UNION {A[PE] : PE \in D}
    BY <1>1, <2>1
  <2>6. PICK x, y : x = SumOver(f, D) /\ y = Cardinality(UNION {A[PE] : PE \in D}) /\ y <= x
    BY <2>3
  <2>7. x >= y
    BY <2>6
  <2> QED
    BY <2>4, <2>5, <2>6, <2>7
<1> QED
  BY <1>1, <1>5, <1>6, <1>7

-----------------------------------------------------------------------------
(* Lists grow at their ends.                                                *)
IsSequence(s) == \E S : s \in Seq(S)

LEMMA Appended ==
  ASSUME NEW s, IsSequence(s), NEW x
  PROVE  /\ IsSequence(Append(s, x))
         /\ Len(s) \in Nat /\ Len(Append(s, x)) = Len(s) + 1
         /\ Append(s, x)[Len(s) + 1] = x
         /\ \A i \in 1 .. Len(s) : Append(s, x)[i] = s[i]
<1>1. PICK S : s \in Seq(S)
  BY DEF IsSequence
<1>2. s \in Seq(S \cup {x}) /\ x \in S \cup {x}
  BY <1>1
<1>3. Append(s, x) \in Seq(S \cup {x})
  BY <1>2
<1>4. IsSequence(Append(s, x))
  BY <1>3 DEF IsSequence
<1> QED
  BY <1>2, <1>4

(* The inductive invariant: the q-th entries of the lists of plans were     *)
(* made of the pattern that `planned' names, and while every pattern read   *)
(* something there is a plan for each.                                      *)
PlanOK(q) ==
  /\ AccessedPEs(PatternOf(q)) # {}
  /\ accessed_PEs_list[q] = AccessedPEs(PatternOf(q))
  /\ accessed_PE_size[q] = PEQuerySize(PatternOf(q))
  /\ TilesOf(query_tile_size_per_pattern[q], PatternOf(q))

ListsOK ==
  /\ IsSequence(planned) /\ IsSequence(accessed_PEs_list)
  /\ IsSequence(accessed_PE_size) /\ IsSequence(query_tile_size_per_pattern)
  /\ Len(planned) \in Nat
  /\ Len(accessed_PEs_list) = Len(planned)
  /\ Len(accessed_PE_size) = Len(planned)
  /\ Len(query_tile_size_per_pattern) = Len(planned)

NumbersOK ==
  AllRead => /\ Len(planned) = next - 1
             /\ \A q \in 1 .. Len(planned) : planned[q] = q

IInv ==
  /\ Placed
  /\ workload \in Workloads
  /\ next \in Nat \ {0}
  /\ ListsOK
  /\ \A q \in 1 .. Len(planned) : PlanOK(q)
  /\ NumbersOK

LEMMA InitIsOK == Init => IInv
<1> SUFFICES ASSUME Init PROVE IInv
  OBVIOUS
<1>1. Placed
  BY MatricesAssumption DEF Init, Placed
<1>2. <<>> \in Seq({}) /\ Len(<<>>) = 0
  OBVIOUS
<1>3. ListsOK /\ Len(planned) = 0 /\ next = 1
  BY <1>2 DEF Init, ListsOK, IsSequence
<1> QED
  BY <1>1, <1>3 DEF Init, IInv, NumbersOK

(* The first patterns all read a nonzero only if those before did.          *)
LEMMA AllReadBefore ==
  ASSUME next \in Nat \ {0}, next' = next + 1, UNCHANGED <<storage, workload>>, AllRead'
  PROVE  AllRead /\ Read(workload[next]) # {}
<1>1. \A i : Read(workload[i])' = Read(workload[i])
  BY DEF Read, storage
<1>2. \A i \in 1 .. next : Read(workload[i]) # {}
  BY <1>1 DEF AllRead
<1> QED
  BY <1>2 DEF AllRead

(* What a pattern accesses depends on the storage only.                     *)
LEMMA AccessStays ==
  ASSUME UNCHANGED storage
  PROVE  \A p : /\ AccessedPEs(p)' = AccessedPEs(p)
                /\ PEQuerySize(p)' = PEQuerySize(p)
                /\ \A tiles : TilesOf(tiles, p)' <=> TilesOf(tiles, p)
<1>1. mat' = mat /\ rowWindow' = rowWindow /\ columnWindow' = columnWindow
  BY DEF storage
<1>2. \A e : Window(e)' = Window(e)
  BY <1>1 DEF Window
<1>3. \A p, PE : AccessedCells(p, PE)' = AccessedCells(p, PE)
  BY <1>1, <1>2 DEF AccessedCells, RowImprint, ColImprint
<1>4. \A p, PE : /\ AccessedRows(p, PE)' = AccessedRows(p, PE)
                 /\ AccessedColumns(p, PE)' = AccessedColumns(p, PE)
  BY <1>3 DEF AccessedRows, AccessedColumns
<1>5. \A p : AccessedPEs(p)' = AccessedPEs(p)
  BY <1>1, <1>2, <1>3 DEF AccessedPEs, StorageUnits
<1>6. \A p : PEQuerySize(p)' = PEQuerySize(p)
  BY <1>4, <1>5 DEF PEQuerySize
<1>7. \A p : AccessedTiles(p)' = AccessedTiles(p)
  BY <1>5 DEF AccessedTiles
<1>8. \A p, t : ReadInTile(p, t)' = ReadInTile(p, t)
  BY <1>1, <1>2 DEF ReadInTile, Read
<1>9. \A p, tiles : TilesOf(tiles, p)' <=> TilesOf(tiles, p)
  BY <1>7, <1>8 DEF TilesOf
<1> QED
  BY <1>5, <1>6, <1>9

LEMMA PlansStay ==
  ASSUME IInv, UNCHANGED <<storage, workload, plans>>
  PROVE  Placed' /\ ListsOK' /\ (\A q \in 1 .. Len(planned) : PlanOK(q))'
<1>1. /\ Placed' /\ ListsOK' /\ planned' = planned /\ workload' = workload
      /\ accessed_PEs_list' = accessed_PEs_list /\ accessed_PE_size' = accessed_PE_size
      /\ query_tile_size_per_pattern' = query_tile_size_per_pattern
  BY DEF IInv, Placed, ListsOK, storage, plans
<1>2. \A q : PatternOf(q)' = PatternOf(q)
  BY <1>1 DEF PatternOf
<1> QED
  BY <1>1, <1>2, AccessStays DEF IInv, PlanOK

(* A pattern without a plan reads nothing.                                  *)
LEMMA PassKeeps ==
  ASSUME IInv, next' = next + 1, UNCHANGED <<storage, workload, plans>>,
         Read(workload[next]) = {}
  PROVE  IInv'
<1>1. ~ AllRead'
  BY AllReadBefore DEF IInv
<1>2. next' \in Nat \ {0}
  BY DEF IInv
<1> QED
  BY <1>1, <1>2, PlansStay DEF IInv, NumbersOK

LEMMA EmptyReadsNothing ==
  ASSUME IInv, next <= Len(workload), EmptyPattern(workload[next])
  PROVE  Read(workload[next]) = {}
<1> DEFINE p == workload[next]
<1>1. next \in DOMAIN workload
  BY WorkloadsAssumption DEF IInv
<1>2. \A e \in mat : e[1] \in Nat /\ e[2] \in Nat
  BY DEF IInv, Placed, RowIds, ColumnIds
<1>3. CASE p.type = "Range"
  <2>1. p.l0 \in Nat /\ p.u0 \in Int /\ p.l1 \in Nat /\ p.u1 \in Int
    BY <1>1, <1>3, WorkloadsAssumption DEF IInv
  <2>2. p.u0 - p.l0 + 1 = 0 \/ p.u1 - p.l1 + 1 = 0
    BY <1>3 DEF EmptyPattern, PatternRows, PatternColumns
  <2>3. \A e \in mat : ~ (RowInPattern(p, e[1]) /\ ColumnInPattern(p, e[2]))
    BY <1>2, <1>3, <2>1, <2>2 DEF RowInPattern, ColumnInPattern
  <2> QED
    BY <2>3 DEF Read
<1>4. CASE p.type # "Range"
  <2>1. IsFiniteSet(p.rows) /\ IsFiniteSet(p.columns)
    BY <1>1, <1>4, WorkloadsAssumption DEF IInv
  <2>2. Cardinality(p.rows) = 0 \/ Cardinality(p.columns) = 0
    BY <1>4 DEF EmptyPattern, PatternRows, PatternColumns
  <2>3. p.rows = {} \/ p.columns = {}
    BY <2>1, <2>2, FS_EmptySet
  <2> QED
    BY <1>4, <2>3 DEF Read, RowInPattern, ColumnInPattern
<1> QED
  BY <1>3, <1>4

LEMMA SkipKeeps == IInv /\ SkipEmptyPattern => IInv'
<1> SUFFICES ASSUME IInv, SkipEmptyPattern PROVE IInv'
  OBVIOUS
<1>1. Read(workload[next]) = {}
  BY EmptyReadsNothing DEF SkipEmptyPattern
<1> QED
  BY <1>1, PassKeeps DEF SkipEmptyPattern, plans

LEMMA InvalidKeeps ==
  ASSUME IInv, NEW size, PassInvalidPattern(workload[next], size)
  PROVE  IInv'
<1>1. Read(workload[next]) = {}
  <2>1. AccessedPEs(workload[next]) = {}
    BY DEF PassInvalidPattern
  <2>2. AccessedPEs(workload[next]) = {Window(e) : e \in Read(workload[next])}
    BY PEsAreRead DEF IInv
  <2> QED
    BY <2>1, <2>2
<1> QED
  BY <1>1, PassKeeps DEF PassInvalidPattern, RecordSize, plans

LEMMA PlanKeeps ==
  ASSUME IInv, NEW size, PlanPattern(workload[next], size)
  PROVE  IInv'
<1> PICK p, q : p = workload[next] /\ q = Len(planned) + 1
  OBVIOUS
<1>1. /\ UNCHANGED <<storage, workload>> /\ next' = next + 1
      /\ AccessedPEs(p) # {}
      /\ accessed_PEs_list' = Append(accessed_PEs_list, AccessedPEs(p))
      /\ accessed_PE_size' = Append(accessed_PE_size, PEQuerySize(p))
      /\ query_tile_size_per_pattern' = Append(query_tile_size_per_pattern, TileQuerySize(p))
      /\ planned' = Append(planned, next)
  BY DEF PlanPattern, RecordPlan, RecordSize
<1>2. /\ ListsOK' /\ Len(planned)' = q /\ q \in Nat
      /\ planned'[q] = next /\ accessed_PEs_list'[q] = AccessedPEs(p)
      /\ accessed_PE_size'[q] = PEQuerySize(p)
      /\ query_tile_size_per_pattern'[q] = TileQuerySize(p)
      /\ \A i \in 1 .. Len(planned) :
           /\ planned'[i] = planned[i] /\ accessed_PEs_list'[i] = accessed_PEs_list[i]
           /\ accessed_PE_size'[i] = accessed_PE_size[i]
           /\ query_tile_size_per_pattern'[i] = query_tile_size_per_pattern[i]
  BY <1>1, Appended DEF IInv, ListsOK
<1>3. Placed' /\ workload' \in Workloads /\ next' \in Nat \ {0} /\ workload' = workload
  BY <1>1 DEF IInv, Placed, storage
<1>4. \A r : /\ AccessedPEs(r)' = AccessedPEs(r) /\ PEQuerySize(r)' = PEQuerySize(r)
             /\ \A tiles : TilesOf(tiles, r)' <=> TilesOf(tiles, r)
  BY <1>1, AccessStays
<1>5. PlanOK(q)'
  <2>1. PatternOf(q)' = p
    BY <1>2, <1>3 DEF PatternOf
  <2>2. TilesOf(TileQuerySize(p), p)
    BY TilesAreRead DEF IInv
  <2> QED
    BY <1>1, <1>2, <1>4, <2>1, <2>2 DEF PlanOK
<1>6. \A i \in 1 .. Len(planned) : PlanOK(i)'
  <2> SUFFICES ASSUME NEW i \in 1 .. Len(planned) PROVE PlanOK(i)'
    OBVIOUS
  <2>1. PatternOf(i)' = PatternOf(i)
    BY <1>2, <1>3 DEF PatternOf
  <2>2. PlanOK(i)
    BY DEF IInv
  <2> QED
    BY <1>2, <1>4, <2>1, <2>2 DEF PlanOK
<1>7. NumbersOK'
  <2> SUFFICES ASSUME AllRead'
               PROVE  /\ Len(planned)' = next' - 1
                      /\ \A i \in 1 .. Len(planned)' : planned'[i] = i
    BY DEF NumbersOK
  <2>1. AllRead
    BY <1>1, AllReadBefore DEF IInv
  <2>2. Len(planned) = next - 1 /\ \A i \in 1 .. Len(planned) : planned[i] = i
    BY <2>1 DEF IInv, NumbersOK
  <2> QED
    BY <1>1, <1>2, <2>2 DEF IInv
<1> QED
  BY <1>2, <1>3, <1>5, <1>6, <1>7 DEF IInv

-----------------------------------------------------------------------------
LEMMA IInvCorrect == Spec => []IInv
<1>1. Init => IInv
  BY InitIsOK
<1>2. IInv /\ [Next]_vars => IInv'
  <2> SUFFICES ASSUME IInv, [Next]_vars PROVE IInv'
    OBVIOUS
  <2>1. CASE SkipEmptyPattern
    BY <2>1, SkipKeeps
  <2>2. CASE HandlePattern
    BY <2>2, InvalidKeeps, PlanKeeps DEF HandlePattern
  <2>3. CASE UNCHANGED vars
    <3>1. UNCHANGED <<storage, workload, plans>> /\ next' = next
      BY <2>3 DEF vars
    <3>2. AllRead' <=> AllRead
      BY <3>1 DEF AllRead, Read, storage
    <3>3. NumbersOK'
      BY <3>1, <3>2 DEF IInv, NumbersOK, plans
    <3> QED
      BY <3>1, <3>3, PlansStay DEF IInv
  <2> QED
    BY <2>1, <2>2, <2>3 DEF Next
<1> QED
  BY <1>1, <1>2, PTL DEF Spec

-----------------------------------------------------------------------------
(* The sizes of a plan's tiles: a row is sent once into each tile.          *)
SentInto(p) == {<<Tile(Window(e)), e[1]>> : e \in Read(p)}

LEMMA RowsAreSentOnce ==
  ASSUME Placed, NEW p, NEW tiles, TilesOf(tiles, p)
  PROVE  /\ IsFiniteSet(SentInto(p)) /\ Cardinality(SentInto(p)) = InputSize(tiles)
         /\ InputSize(tiles) \in Nat
<1> PICK A, f, D : /\ D = AccessedTiles(p) /\ A = [t \in D |-> tiles[t].accessed_rows]
                   /\ f = [t \in D |-> Cardinality(tiles[t].accessed_rows)]
  OBVIOUS
<1>1. IsFiniteSet(D) /\ D = DOMAIN tiles /\ D = DOMAIN f
  BY FiniteRead DEF TilesOf
<1>2. \A t \in D : A[t] = {e[1] : e \in ReadInTile(p, t)}
  BY DEF TilesOf
<1>3. \A t \in D : IsFiniteSet(A[t]) /\ f[t] = Cardinality(A[t])
  <2> SUFFICES ASSUME NEW t \in D PROVE IsFiniteSet(A[t]) /\ f[t] = Cardinality(A[t])
    OBVIOUS
  <2>1. PICK row : row = [e \in ReadInTile(p, t) |-> e[1]]
    OBVIOUS
  <2>2. A[t] = {row[e] : e \in ReadInTile(p, t)}
    BY <1>2, <2>1
  <2>3. IsFiniteSet(ReadInTile(p, t))
    <3>1. IsFiniteSet(Read(p)) /\ ReadInTile(p, t) \in SUBSET Read(p)
      BY FiniteRead DEF ReadInTile
    <3> QED
      BY <3>1, FS_Subset
  <2>4. IsFiniteSet(A[t])
    BY <2>2, <2>3, ImageIsFinite
  <2> QED
    BY <2>4
<1>4. Pairs(A, D) = SentInto(p)
  <2>1. \A e \in Read(p) : /\ Tile(Window(e)) \in D /\ e \in ReadInTile(p, Tile(Window(e)))
    BY PEsAreRead DEF ReadInTile, AccessedTiles
  <2>2. \A t \in D : ReadInTile(p, t) \subseteq Read(p)
                     /\ \A e \in ReadInTile(p, t) : Tile(Window(e)) = t
    BY DEF ReadInTile
  <2>3. \A x : x \in Pairs(A, D) <=> \E t \in D : \E e \in ReadInTile(p, t) : x = <<t, e[1]>>
    BY <1>2 DEF Pairs
  <2>4. \A x : x \in SentInto(p) <=> \E e \in Read(p) : x = <<Tile(Window(e)), e[1]>>
    BY DEF SentInto
  <2>5. \A x : x \in Pairs(A, D) => x \in SentInto(p)
    BY <2>2, <2>3, <2>4
  <2>6. \A x : x \in SentInto(p) => x \in Pairs(A, D)
    BY <2>1, <2>3, <2>4
  <2> QED
    BY <2>5, <2>6
<1>5. IsFiniteSet(Pairs(A, D)) /\ Cardinality(Pairs(A, D)) = SumOver(f, D)
  <2>1. Counted(f, A, D)
    BY <1>1, <1>3 DEF Counted
  <2> QED
    BY <2>1, SumOfCardinalities
<1>6. InputSize(tiles) = SumOver(f, D)
  BY <1>1 DEF InputSize, Total, SumOver
<1> QED
  BY <1>4, <1>5, <1>6, FS_CardinalityType

LEMMA MarkedSent ==
  ASSUME NEW q, NEW p
  PROVE  {<<q, Tile(Window(e)), e[1]>> : e \in Read(p)} = Marked(q, SentInto(p))
<1> PICK R, S : R = {<<q, Tile(Window(e)), e[1]>> : e \in Read(p)} /\ S = SentInto(p)
  OBVIOUS
<1>1. \A x : x \in R <=> \E e \in Read(p) : x = <<q, Tile(Window(e)), e[1]>>
  OBVIOUS
<1>2. \A y : y \in S <=> \E e \in Read(p) : y = <<Tile(Window(e)), e[1]>>
  BY DEF SentInto
<1>3. ASSUME NEW x \in Marked(q, S) PROVE x \in R
  <2>1. PICK y \in S : x = <<q, y[1], y[2]>>
    BY <1>3 DEF Marked
  <2>2. PICK e \in Read(p) : y = <<Tile(Window(e)), e[1]>>
    BY <1>2
  <2>3. y[1] = Tile(Window(e)) /\ y[2] = e[1]
    BY <2>2
  <2>4. x = <<q, Tile(Window(e)), e[1]>>
    BY <2>1, <2>3
  <2> QED
    BY <1>1, <2>4
<1>4. ASSUME NEW x \in R PROVE x \in Marked(q, S)
  <2>1. PICK e \in Read(p) : x = <<q, Tile(Window(e)), e[1]>>
    BY <1>1
  <2>2. PICK y \in S : y = <<Tile(Window(e)), e[1]>>
    BY <1>2
  <2>3. x = <<q, y[1], y[2]>>
    BY <2>1, <2>2
  <2> QED
    BY <2>3 DEF Marked
<1> QED
  BY <1>3, <1>4

LEMMA RowsSentByPlan ==
  ASSUME Placed, NEW q, NEW tiles, TilesOf(tiles, PatternOf(q))
  PROVE  IsFiniteSet(RowsSent(q)) /\ Cardinality(RowsSent(q)) = InputSize(tiles)
<1> PICK S : S = SentInto(PatternOf(q))
  OBVIOUS
<1>1. RowsSent(q) = Marked(q, S)
  BY MarkedSent DEF RowsSent
<1>2. \A x \in S : x = <<x[1], x[2]>>
  BY DEF SentInto
<1>3. IsFiniteSet(S) /\ Cardinality(S) = InputSize(tiles)
  BY RowsAreSentOnce
<1> QED
  BY <1>1, <1>2, <1>3, MarkedAreAsMany

-----------------------------------------------------------------------------
(* The invariant of the sizes and totals.                                   *)
PlacesOK ==
  AllRead =>
    /\ n = next
    /\ \A q \in 1 .. Len(planned) :
         /\ input_vector_size[q] = InputSize(query_tile_size_per_pattern[q])
         /\ ~ cost_model =>
              range_query_size[q] = <<PatternRows(workload[q]), PatternColumns(workload[q])>>

SInv == TypeOK /\ CommunicationIsSum /\ TotalsMatchPlans /\ PlacesOK

(* The lists and totals of the plans; the rest is what every pattern        *)
(* changes.                                                                 *)
SizesOK ==
  /\ next \in 1 .. Len(workload) + 1
  /\ n \in 1 .. next
  /\ Len(input_vector_size) = next - 1 /\ Len(output_vector_size) = next - 1
  /\ Len(range_query_size) = n - 1
  /\ input_vector_size \in Seq(Nat) /\ output_vector_size \in Seq(Int)
  /\ range_query_size \in Seq(Int \X Int)
  /\ total_communication_data_size \in Int

CountsOK ==
  /\ planned \in Seq(1 .. Len(workload))
  /\ num_accessed_PEs \in Nat /\ num_accessed_tiles \in Nat
  /\ num_accessed_PEs = Total([q \in Plans |-> Cardinality(accessed_PEs_list[q])])
  /\ num_accessed_tiles = Total([q \in Plans |-> Cardinality(DOMAIN query_tile_size_per_pattern[q])])

SentOK == Total(input_vector_size) = Cardinality(UNION {RowsSent(q) : q \in Plans})

LEMMA PartsOfSInv ==
  ASSUME Placed
  PROVE  SInv <=> SizesOK /\ CountsOK /\ SentOK /\ CommunicationIsSum /\ PlacesOK
  BY Zenon DEF SInv, TypeOK, TotalsMatchPlans, SizesOK, CountsOK, SentOK, Placed

LEMMA TotalIs == ASSUME NEW f PROVE Total(f) = SumOver(f, DOMAIN f)
  BY Zenon DEF Total, SumOver

LEMMA TotalType == ASSUME NEW s \in Seq(Int) PROVE Total(s) \in Int
<1>1. PICK m \in Nat : m = Len(s) /\ DOMAIN s = 1 .. m
  OBVIOUS
<1>2. IsFiniteSet(1 .. m)
  BY FS_Interval
<1>3. IsFiniteSet(DOMAIN s) /\ \A i \in DOMAIN s : s[i] \in Int
  BY <1>1, <1>2
<1> QED
  BY <1>3, SumType, TotalIs

(* A query's size is a pair of numbers, negative ones perhaps.              *)
LEMMA QuerySizeType ==
  ASSUME IInv, next \in 1 .. Len(workload), NEW p, p = workload[next],
         NEW zeros \in 0 .. (IF cost_model THEN OutsideColumns(p) ELSE 0)
  PROVE  QuerySize(p, zeros) \in Int \X Int /\ Sent(QuerySize(p, zeros)) \in Int
<1>1. next \in DOMAIN workload
  BY WorkloadsAssumption DEF IInv
<1>2. PatternRows(p) \in Int /\ PatternColumns(p) \in Int
  <2>1. CASE p.type = "Range"
    <3>1. p.l0 \in Nat /\ p.u0 \in Int /\ p.l1 \in Nat /\ p.u1 \in Int
      BY <1>1, <2>1, WorkloadsAssumption DEF IInv
    <3> QED
      BY <2>1, <3>1 DEF PatternRows, PatternColumns
  <2>2. CASE p.type # "Range"
    <3>1. IsFiniteSet(p.rows) /\ IsFiniteSet(p.columns)
      BY <1>1, <2>2, WorkloadsAssumption DEF IInv
    <3>2. Cardinality(p.rows) \in Int /\ Cardinality(p.columns) \in Int
      BY <3>1, FS_CardinalityType
    <3> QED
      BY <2>2, <3>2 DEF PatternRows, PatternColumns
  <2> QED
    BY <2>1, <2>2
<1>3. IsFiniteSet(RowIds) /\ IsFiniteSet(ColumnIds)
  BY FiniteIds
<1>4. Cardinality(ZeroRows(p)) \in Int /\ Cardinality(ZeroColumns(p)) \in Int
  <2>1. CASE p.type = "Range"
    <3>1. ZeroRows(p) \in SUBSET RowIds /\ ZeroColumns(p) \in SUBSET ColumnIds
      BY <2>1 DEF ZeroRows, ZeroColumns
    <3>2. IsFiniteSet(ZeroRows(p)) /\ IsFiniteSet(ZeroColumns(p))
      BY <1>3, <3>1, FS_Subset
    <3> QED
      BY <3>2, FS_CardinalityType
  <2>2. CASE p.type # "Range"
    <3>1. IsFiniteSet(p.rows) /\ IsFiniteSet(p.columns)
      BY <1>1, <2>2, WorkloadsAssumption DEF IInv
    <3>2. ZeroRows(p) \in SUBSET p.rows /\ ZeroColumns(p) \in SUBSET p.columns
      BY <2>2 DEF ZeroRows, ZeroColumns
    <3>3. IsFiniteSet(ZeroRows(p)) /\ IsFiniteSet(ZeroColumns(p))
      BY <3>1, <3>2, FS_Subset
    <3> QED
      BY <3>3, FS_CardinalityType
  <2> QED
    BY <2>1, <2>2
<1>5. zeros \in Int
  OBVIOUS
<1>6. QuerySize(p, zeros) \in Int \X Int
  BY <1>2, <1>4, <1>5 DEF QuerySize
<1> QED
  BY <1>6 DEF Sent

(* What recording the size of a query does.                                 *)
LEMMA SizeIsRecorded ==
  ASSUME SizesOK, next <= Len(workload), Len(workload) \in Nat,
         NEW size \in Int \X Int, NEW c \in Int, RecordSize(size, c)
  PROVE  /\ next' \in 1 .. Len(workload)' + 1 /\ n' \in 1 .. next'
         /\ next' = next + 1 /\ n' = n + 1
         /\ output_vector_size' \in Seq(Int) /\ Len(output_vector_size)' = next' - 1
         /\ Total(output_vector_size)' = Total(output_vector_size) + c
         /\ Total(output_vector_size) \in Int
         /\ range_query_size' \in Seq(Int \X Int) /\ Len(range_query_size)' = n' - 1
         /\ range_query_size'[n] = size
         /\ \A q \in 1 .. n - 1 : range_query_size'[q] = range_query_size[q]
<1>1. /\ next' = next + 1 /\ n' = n + 1 /\ workload' = workload
      /\ range_query_size' = Append(range_query_size, size)
      /\ output_vector_size' = [Append(output_vector_size, 0) EXCEPT ![n] = @ + c]
  BY DEF RecordSize
<1>2. /\ next' \in 1 .. Len(workload)' + 1 /\ n' \in 1 .. next'
  BY <1>1 DEF SizesOK
<1>3. PICK s, t, i : s = output_vector_size /\ t = output_vector_size' /\ i = n
  OBVIOUS
<1>4. /\ s \in Seq(Int) /\ Len(s) + 1 = next /\ i \in 1 .. Len(s) + 1
      /\ t = [Append(s, 0) EXCEPT ![i] = @ + c]
  BY <1>1, <1>3 DEF SizesOK
<1>5. /\ t \in Seq(Int) /\ Len(t) = Len(s) + 1
      /\ SumOver(t, DOMAIN t) = SumOver(s, DOMAIN s) + c
      /\ SumOver(s, DOMAIN s) \in Int
  <2>1. GrownAt(t, s, i, c)
    BY <1>4, SumRaised
  <2> QED
    BY <2>1 DEF GrownAt
<1>6. Total(t) = Total(s) + c /\ Total(s) \in Int
  BY <1>5, TotalIs
<1>7. /\ output_vector_size' \in Seq(Int) /\ Len(output_vector_size)' = next' - 1
      /\ Total(output_vector_size)' = Total(output_vector_size) + c
      /\ Total(output_vector_size) \in Int
  <2>1. Len(t) = next' - 1
    BY <1>1, <1>4, <1>5 DEF SizesOK
  <2>2. Total(output_vector_size)' = Total(output_vector_size')
    OBVIOUS
  <2> QED
    BY <1>3, <1>5, <1>6, <2>1, <2>2
<1>8. /\ range_query_size' \in Seq(Int \X Int) /\ Len(range_query_size)' = n' - 1
      /\ range_query_size'[n] = size
      /\ \A q \in 1 .. n - 1 : range_query_size'[q] = range_query_size[q]
  <2>1. range_query_size \in Seq(Int \X Int) /\ Len(range_query_size) = n - 1 /\ n \in Int
    BY DEF SizesOK
  <2> QED
    BY <1>1, <2>1
<1> QED
  BY <1>1, <1>2, <1>7, <1>8

(* Two ways the sizes of the inputs grow.                                   *)
LEMMA InputIsRaised ==
  ASSUME SizesOK, next <= Len(workload), Len(workload) \in Nat, NEW d \in Nat,
         input_vector_size' = [Append(input_vector_size, 0) EXCEPT ![n] = @ + d]
  PROVE  /\ input_vector_size' \in Seq(Nat) /\ Len(input_vector_size') = next
         /\ Total(input_vector_size') = Total(input_vector_size) + d
         /\ Total(input_vector_size) \in Int
         /\ n = next => input_vector_size'[n] = d
         /\ \A q \in 1 .. next - 1 : q # n => input_vector_size'[q] = input_vector_size[q]
<1>3. PICK s, t, i : s = input_vector_size /\ t = input_vector_size' /\ i = n
  OBVIOUS
<1>4. /\ s \in Seq(Nat) /\ s \in Seq(Int) /\ Len(s) + 1 = next /\ i \in 1 .. Len(s) + 1
      /\ t = [Append(s, 0) EXCEPT ![i] = @ + d]
  BY <1>3 DEF SizesOK
<1>5. /\ t \in Seq(Int) /\ Len(t) = Len(s) + 1
      /\ SumOver(t, DOMAIN t) = SumOver(s, DOMAIN s) + d
      /\ SumOver(s, DOMAIN s) \in Int
      /\ \A j \in 1 .. Len(s) + 1 :
           t[j] = (IF j = Len(s) + 1 THEN 0 ELSE s[j]) + (IF j = i THEN d ELSE 0)
  <2>1. d \in Int
    OBVIOUS
  <2>2. GrownAt(t, s, i, d)
    BY <1>4, <2>1, SumRaised
  <2> QED
    BY <2>2 DEF GrownAt
<1>6. Total(t) = Total(s) + d /\ Total(s) \in Int
  BY <1>5, TotalIs
<1>7. t \in Seq(Nat)
  <2>1. ASSUME NEW j \in 1 .. Len(s) + 1 PROVE t[j] \in Nat
    <3>1. j # Len(s) + 1 => s[j] \in Nat
      BY <1>4
    <3> QED
      BY <1>5, <3>1
  <2> QED
    BY <1>5, <2>1
<1>8. i = Len(s) + 1 => t[i] = d
  BY <1>4, <1>5
<1>9. \A j \in 1 .. Len(s) : j # i => t[j] = s[j]
  <2> SUFFICES ASSUME NEW j \in 1 .. Len(s), j # i PROVE t[j] = s[j]
    OBVIOUS
  <2>1. s[j] \in Nat /\ Len(s) \in Nat
    BY <1>4
  <2>2. j \in 1 .. Len(s) + 1 /\ j # Len(s) + 1
    BY <2>1
  <2>3. t[j] = s[j] + 0
    BY <1>5, <2>2
  <2> QED
    BY <2>1, <2>3
<1>10. Len(s) = next - 1
  BY <1>4 DEF SizesOK
<1> QED
  BY <1>3, <1>4, <1>5, <1>6, <1>7, <1>8, <1>9, <1>10

LEMMA InputIsZero ==
  ASSUME NEW S \in {Nat, Int}, NEW s \in Seq(S)
  PROVE  /\ Append(s, 0) \in Seq(S) /\ Len(Append(s, 0)) = Len(s) + 1
         /\ Total(Append(s, 0)) = Total(s)
<1>1. s \in Seq(Int) /\ Append(s, 0) \in Seq(S)
  OBVIOUS
<1>2. /\ Len(Append(s, 0)) = Len(s) + 1
      /\ SumOver(Append(s, 0), DOMAIN Append(s, 0)) = SumOver(s, DOMAIN s)
  BY <1>1, ZeroAppended
<1> QED
  BY <1>1, <1>2, TotalIs

-----------------------------------------------------------------------------
(* Steps that make no plan.                                                 *)
LEMMA AllReadStays ==
  ASSUME UNCHANGED <<storage, workload>>
  PROVE  /\ \A q : UNCHANGED planned => /\ PatternOf(q)' = PatternOf(q)
                                        /\ RowsSent(q)' = RowsSent(q)
         /\ \A p : Read(p)' = Read(p)
<1>1. \A e : Window(e)' = Window(e)
  BY DEF Window, storage
<1>2. \A p : Read(p)' = Read(p)
  BY DEF Read, storage
<1>3. \A q : UNCHANGED planned => PatternOf(q)' = PatternOf(q)
  BY DEF PatternOf
<1> QED
  BY <1>1, <1>2, <1>3 DEF RowsSent

LEMMA SentStays ==
  ASSUME SentOK, UNCHANGED <<storage, workload, plans>>,
         Total(input_vector_size') = Total(input_vector_size)
  PROVE  SentOK'
<1>1. Plans' = Plans /\ planned' = planned
  BY DEF plans, Plans
<1>2. \A q : RowsSent(q)' = RowsSent(q)
  BY <1>1, AllReadStays
<1>3. (UNION {RowsSent(q) : q \in Plans})' = UNION {RowsSent(q) : q \in Plans}
  BY <1>1, <1>2
<1>4. SentOK' <=> Total(input_vector_size') = Cardinality((UNION {RowsSent(q) : q \in Plans})')
  BY DEF SentOK
<1> QED
  BY <1>3, <1>4 DEF SentOK

LEMMA CountsStay ==
  ASSUME CountsOK, UNCHANGED <<workload, plans>>
  PROVE  CountsOK'
  BY DEF CountsOK, plans, Plans

(* Whatever was not read leaves the numbers of the plans behind.            *)
LEMMA PlacesLost ==
  ASSUME next \in Nat \ {0}, next' = next + 1, UNCHANGED <<storage, workload>>,
         Read(workload[next]) = {}
  PROVE  PlacesOK'
<1>1. ~ AllRead'
  BY AllReadBefore
<1> QED
  BY <1>1 DEF PlacesOK

LEMMA SkipKeepsSizes ==
  ASSUME IInv, SInv, SkipEmptyPattern
  PROVE  SInv'
<1>1. /\ SizesOK /\ CountsOK /\ SentOK /\ CommunicationIsSum /\ Placed
      /\ Placed' /\ next \in Nat \ {0} /\ Len(workload) \in Nat
  <2>1. Placed /\ Placed'
    BY DEF IInv, Placed, SkipEmptyPattern, storage
  <2> QED
    BY <2>1, PartsOfSInv, WorkloadsAssumption DEF IInv
<1>2. /\ next <= Len(workload) /\ next' = next + 1 /\ n' = n
      /\ UNCHANGED <<storage, workload, plans>>
      /\ input_vector_size' = Append(input_vector_size, 0)
      /\ output_vector_size' = Append(output_vector_size, 0)
      /\ range_query_size' = range_query_size
      /\ total_communication_data_size' = total_communication_data_size
      /\ workload' = workload
  BY DEF SkipEmptyPattern, plans
<1>3. /\ input_vector_size' \in Seq(Nat) /\ Len(input_vector_size') = Len(input_vector_size) + 1
      /\ Total(input_vector_size') = Total(input_vector_size)
      /\ output_vector_size' \in Seq(Int) /\ Len(output_vector_size') = Len(output_vector_size) + 1
      /\ Total(output_vector_size') = Total(output_vector_size)
  BY <1>1, <1>2, InputIsZero DEF SizesOK
<1>4. SizesOK'
  BY <1>1, <1>2, <1>3 DEF SizesOK
<1>5. CountsOK'
  BY <1>1, <1>2, CountsStay
<1>6. SentOK'
  BY <1>1, <1>2, <1>3, SentStays
<1>7. CommunicationIsSum'
  BY <1>1, <1>2, <1>3 DEF CommunicationIsSum
<1>8. PlacesOK'
  <2>1. Read(workload[next]) = {}
    BY EmptyReadsNothing DEF SkipEmptyPattern
  <2> QED
    BY <1>1, <1>2, <2>1, PlacesLost
<1>9. Placed' => (SInv' <=> SizesOK' /\ CountsOK' /\ SentOK' /\ CommunicationIsSum' /\ PlacesOK')
  BY Zenon DEF SInv, TypeOK, TotalsMatchPlans, SizesOK, CountsOK, SentOK, Placed
<1> QED
  BY <1>1, <1>4, <1>5, <1>6, <1>7, <1>8, <1>9

LEMMA InvalidKeepsSizes ==
  ASSUME IInv, SInv, next <= Len(workload), Len(workload) \in Nat,
         NEW size \in Int \X Int, Sent(size) \in Int, PassInvalidPattern(workload[next], size)
  PROVE  SInv'
<1>1. /\ SizesOK /\ CountsOK /\ SentOK /\ CommunicationIsSum /\ Placed
      /\ Placed' /\ next \in Nat \ {0}
  <2>1. Placed /\ Placed'
    BY DEF IInv, Placed, PassInvalidPattern, RecordSize, storage
  <2> QED
    BY <2>1, PartsOfSInv DEF IInv
<1>2. /\ UNCHANGED <<storage, workload, plans>> /\ workload' = workload
      /\ input_vector_size' = Append(input_vector_size, 0)
      /\ total_communication_data_size' = total_communication_data_size + Sent(size)
      /\ RecordSize(size, Sent(size))
  BY DEF PassInvalidPattern, RecordSize, plans
<1>3. /\ input_vector_size' \in Seq(Nat) /\ Len(input_vector_size') = Len(input_vector_size) + 1
      /\ Total(input_vector_size') = Total(input_vector_size)
  BY <1>1, <1>2, InputIsZero DEF SizesOK
<1>4. /\ next' \in 1 .. Len(workload)' + 1 /\ n' \in 1 .. next'
      /\ next' = next + 1 /\ n' = n + 1
      /\ output_vector_size' \in Seq(Int) /\ Len(output_vector_size)' = next' - 1
      /\ Total(output_vector_size)' = Total(output_vector_size) + Sent(size)
      /\ Total(output_vector_size) \in Int
      /\ range_query_size' \in Seq(Int \X Int) /\ Len(range_query_size)' = n' - 1
  BY <1>1, <1>2, SizeIsRecorded
<1>5. SizesOK'
  BY <1>1, <1>2, <1>3, <1>4 DEF SizesOK
<1>6. CountsOK'
  BY <1>1, <1>2, CountsStay
<1>7. SentOK'
  BY <1>1, <1>2, <1>3, SentStays
<1>8. CommunicationIsSum'
  <2>1. PICK i, o, c, x : /\ i = Total(input_vector_size) /\ o = Total(output_vector_size)
                          /\ c = Sent(size) /\ x = total_communication_data_size
    OBVIOUS
  <2>2. x = i + o /\ i \in Int /\ o \in Int /\ c \in Int
    <3>1. Total(input_vector_size) \in Int
      BY <1>1, <1>3, TotalType DEF SizesOK
    <3> QED
      BY <1>1, <1>4, <2>1, <3>1 DEF CommunicationIsSum
  <2>3. x + c = i + (o + c)
    BY <2>2
  <2>4. total_communication_data_size' = Total(input_vector_size') + Total(output_vector_size')
    BY <1>2, <1>3, <1>4, <2>1, <2>3
  <2> QED
    BY <2>4 DEF CommunicationIsSum
<1>9. PlacesOK'
  <2>1. AccessedPEs(workload[next]) = {}
    BY DEF PassInvalidPattern
  <2>2. AccessedPEs(workload[next]) = {Window(e) : e \in Read(workload[next])}
    BY <1>1, PEsAreRead
  <2>3. Read(workload[next]) = {}
    BY <2>1, <2>2
  <2> QED
    BY <1>1, <1>2, <1>4, <2>3, PlacesLost
<1>10. Placed' => (SInv' <=> SizesOK' /\ CountsOK' /\ SentOK' /\ CommunicationIsSum' /\ PlacesOK')
  BY Zenon DEF SInv, TypeOK, TotalsMatchPlans, SizesOK, CountsOK, SentOK, Placed
<1> QED
  BY <1>1, <1>5, <1>6, <1>7, <1>8, <1>9, <1>10

(* The counts of a plan that is added.                                      *)
LEMMA CountIsAdded ==
  ASSUME NEW m, NEW f, NEW g, NEW total, m \in Nat, total \in Nat,
         DOMAIN f = 1 .. m, DOMAIN g = 1 .. m + 1, total = Total(f),
         \A q \in 1 .. m : f[q] \in Int /\ g[q] = f[q], g[m + 1] \in Nat
  PROVE  total + g[m + 1] \in Nat /\ total + g[m + 1] = Total(g)
<1>1. Total(f) = SumOver(f, 1 .. m) /\ Total(g) = SumOver(g, 1 .. m + 1)
  BY TotalIs
<1>2. SumOver(g, 1 .. m + 1) = SumOver(f, 1 .. m) + g[m + 1]
  <2>1. m \in Nat /\ (\A q \in 1 .. m : f[q] \in Int /\ g[q] = f[q]) /\ g[m + 1] \in Int
    OBVIOUS
  <2> QED
    BY <2>1, SumAppended
<1> QED
  BY <1>1, <1>2

LEMMA PlanIsAdded ==
  ASSUME IInv, NEW size, PlanPattern(workload[next], size),
         NEW p, NEW q, p = workload[next], q = Len(planned) + 1
  PROVE  /\ UNCHANGED <<storage, workload, cost_model>> /\ next' = next + 1
         /\ q \in Nat \ {0} /\ q - 1 \in Nat /\ Len(planned) = q - 1
         /\ Plans = 1 .. q - 1 /\ Plans' = 1 .. q
         /\ planned' = Append(planned, next) /\ planned'[q] = next
         /\ accessed_PEs_list'[q] = AccessedPEs(p)
         /\ query_tile_size_per_pattern'[q] = TileQuerySize(p)
         /\ \A i \in 1 .. q - 1 :
              /\ planned'[i] = planned[i] /\ accessed_PEs_list'[i] = accessed_PEs_list[i]
              /\ query_tile_size_per_pattern'[i] = query_tile_size_per_pattern[i]
<1>1. /\ UNCHANGED <<storage, workload, cost_model>> /\ next' = next + 1
      /\ accessed_PEs_list' = Append(accessed_PEs_list, AccessedPEs(p))
      /\ query_tile_size_per_pattern' = Append(query_tile_size_per_pattern, TileQuerySize(p))
      /\ planned' = Append(planned, next)
  BY DEF PlanPattern, RecordPlan, RecordSize
<1>2. /\ Len(planned) \in Nat /\ q \in Nat \ {0} /\ q - 1 = Len(planned)
      /\ planned'[q] = next /\ accessed_PEs_list'[q] = AccessedPEs(p)
      /\ query_tile_size_per_pattern'[q] = TileQuerySize(p)
      /\ \A i \in 1 .. Len(planned) :
           /\ planned'[i] = planned[i] /\ accessed_PEs_list'[i] = accessed_PEs_list[i]
           /\ query_tile_size_per_pattern'[i] = query_tile_size_per_pattern[i]
  BY <1>1, Appended DEF IInv, ListsOK
<1>3. Plans = 1 .. Len(planned) /\ Plans' = 1 .. Len(planned) + 1
  <2>1. IsSequence(accessed_PEs_list) /\ Len(accessed_PEs_list) = Len(planned)
    BY DEF IInv, ListsOK
  <2>2. IsSequence(accessed_PEs_list') /\ Len(accessed_PEs_list') = Len(planned) + 1
    BY <1>1, <2>1, Appended
  <2> QED
    BY <2>1, <2>2 DEF Plans, IsSequence
<1> QED
  BY <1>1, <1>2, <1>3

LEMMA PlanKeepsCounts ==
  ASSUME IInv, CountsOK, next \in 1 .. Len(workload), NEW size, PlanPattern(workload[next], size)
  PROVE  CountsOK'
<1> PICK p, q : p = workload[next] /\ q = Len(planned) + 1
  OBVIOUS
<1>1. /\ UNCHANGED <<storage, workload, cost_model>> /\ next' = next + 1
      /\ q \in Nat \ {0} /\ q - 1 \in Nat /\ Len(planned) = q - 1
      /\ Plans = 1 .. q - 1 /\ Plans' = 1 .. q
      /\ planned' = Append(planned, next)
      /\ accessed_PEs_list'[q] = AccessedPEs(p)
      /\ query_tile_size_per_pattern'[q] = TileQuerySize(p)
      /\ \A i \in 1 .. q - 1 :
           /\ accessed_PEs_list'[i] = accessed_PEs_list[i]
           /\ query_tile_size_per_pattern'[i] = query_tile_size_per_pattern[i]
  BY PlanIsAdded
<1>2. planned' \in Seq(1 .. Len(workload)')
  BY <1>1 DEF CountsOK
<1>3. /\ IsFiniteSet(AccessedPEs(p)) /\ IsFiniteSet(AccessedTiles(p))
  BY FiniteRead DEF IInv
<1>4. /\ num_accessed_PEs' = num_accessed_PEs + Cardinality(AccessedPEs(p))
      /\ num_accessed_tiles' = num_accessed_tiles + Cardinality(AccessedTiles(p))
  BY DEF PlanPattern, RecordPlan, CountTiles, AccessedTiles
<1>5. \A i \in 1 .. q - 1 : /\ IsFiniteSet(accessed_PEs_list[i])
                            /\ IsFiniteSet(DOMAIN query_tile_size_per_pattern[i])
  <2> SUFFICES ASSUME NEW i \in 1 .. q - 1
               PROVE  /\ IsFiniteSet(accessed_PEs_list[i])
                      /\ IsFiniteSet(DOMAIN query_tile_size_per_pattern[i])
    OBVIOUS
  <2>1. PlanOK(i) /\ Placed
    BY <1>1 DEF IInv
  <2> QED
    BY <2>1, FiniteRead DEF PlanOK, TilesOf
<1>6. /\ num_accessed_PEs' \in Nat
      /\ num_accessed_PEs' = Total([i \in Plans |-> Cardinality(accessed_PEs_list[i])]')
  <2>1. PICK f, g, m : /\ f = [i \in Plans |-> Cardinality(accessed_PEs_list[i])]
                       /\ g = [i \in Plans |-> Cardinality(accessed_PEs_list[i])]'
                       /\ m = q - 1
    OBVIOUS
  <2>2. /\ DOMAIN f = 1 .. m /\ DOMAIN g = 1 .. m + 1 /\ m \in Nat /\ m + 1 = q
        /\ g[m + 1] = Cardinality(AccessedPEs(p)) /\ g[m + 1] \in Nat
    BY <1>1, <1>3, <2>1, FS_CardinalityType
  <2>3. \A i \in 1 .. m : f[i] \in Int /\ g[i] = f[i]
    BY <1>1, <1>5, <2>1, FS_CardinalityType
  <2>4. num_accessed_PEs \in Nat /\ num_accessed_PEs = Total(f)
    BY <2>1 DEF CountsOK
  <2>5. num_accessed_PEs + g[m + 1] \in Nat /\ num_accessed_PEs + g[m + 1] = Total(g)
    BY <2>2, <2>3, <2>4, CountIsAdded
  <2> QED
    BY <1>4, <2>1, <2>2, <2>5
<1>7. /\ num_accessed_tiles' \in Nat
      /\ num_accessed_tiles'
           = Total([i \in Plans |-> Cardinality(DOMAIN query_tile_size_per_pattern[i])]')
  <2>1. PICK f, g, m : /\ f = [i \in Plans |-> Cardinality(DOMAIN query_tile_size_per_pattern[i])]
                       /\ g = [i \in Plans |-> Cardinality(DOMAIN query_tile_size_per_pattern[i])]'
                       /\ m = q - 1
    OBVIOUS
  <2>2. /\ DOMAIN f = 1 .. m /\ DOMAIN g = 1 .. m + 1 /\ m \in Nat /\ m + 1 = q
        /\ g[m + 1] = Cardinality(AccessedTiles(p)) /\ g[m + 1] \in Nat
    BY <1>1, <1>3, <2>1, FS_CardinalityType DEF TileQuerySize
  <2>3. \A i \in 1 .. m : f[i] \in Int /\ g[i] = f[i]
    BY <1>1, <1>5, <2>1, FS_CardinalityType
  <2>4. num_accessed_tiles \in Nat /\ num_accessed_tiles = Total(f)
    BY <2>1 DEF CountsOK
  <2>5. num_accessed_tiles + g[m + 1] \in Nat /\ num_accessed_tiles + g[m + 1] = Total(g)
    BY <2>2, <2>3, <2>4, CountIsAdded
  <2> QED
    BY <1>4, <2>1, <2>2, <2>5
<1> QED
  BY <1>2, <1>6, <1>7, Zenon DEF CountsOK

(* The rows of a plan that is added are sent besides those of the others.   *)
LEMMA PlanSendsMore ==
  ASSUME IInv, IInv', SentOK, NEW size, PlanPattern(workload[next], size),
         NEW tiles, tiles = TileQuerySize(workload[next]),
         Total(input_vector_size') = Total(input_vector_size) + InputSize(tiles)
  PROVE  SentOK'
<1> PICK p, q : p = workload[next] /\ q = Len(planned) + 1
  OBVIOUS
<1>1. /\ UNCHANGED <<storage, workload, cost_model>> /\ next' = next + 1
      /\ q \in Nat \ {0} /\ q - 1 \in Nat /\ Len(planned) = q - 1
      /\ Plans = 1 .. q - 1 /\ Plans' = 1 .. q
      /\ planned'[q] = next
      /\ \A i \in 1 .. q - 1 : planned'[i] = planned[i]
  BY PlanIsAdded
<1>2. Placed /\ TilesOf(tiles, p)
  BY TilesAreRead DEF IInv
<1>3. \A i : RowsSent(i)' = {<<i, Tile(Window(e)), e[1]>> : e \in Read(workload[planned'[i]])}
  <2>1. \A e : Window(e)' = Window(e)
    BY <1>1 DEF Window, storage
  <2>2. \A i : Read(PatternOf(i))' = Read(workload[planned'[i]])
    BY <1>1 DEF PatternOf, Read, storage
  <2> QED
    BY <2>1, <2>2 DEF RowsSent
<1>4. \A i \in 1 .. q - 1 : RowsSent(i)' = RowsSent(i)
  BY <1>1, <1>3 DEF RowsSent, PatternOf
<1>5. RowsSent(q)' = {<<q, Tile(Window(e)), e[1]>> : e \in Read(p)}
  BY <1>1, <1>3
<1>6. IsFiniteSet(RowsSent(q)') /\ Cardinality(RowsSent(q)') = InputSize(tiles)
  <2>1. PICK S : S = SentInto(p)
    OBVIOUS
  <2>2. RowsSent(q)' = Marked(q, S)
    BY <1>5, <2>1, MarkedSent
  <2>3. \A x \in S : x = <<x[1], x[2]>>
    BY <2>1 DEF SentInto
  <2>4. IsFiniteSet(S) /\ Cardinality(S) = InputSize(tiles)
    BY <1>2, <2>1, RowsAreSentOnce
  <2> QED
    BY <2>2, <2>3, <2>4, MarkedAreAsMany
<1>7. PICK U, V : U = UNION {RowsSent(i) : i \in Plans} /\ V = RowsSent(q)'
  OBVIOUS
<1>8. IsFiniteSet(U)
  <2>1. \A i \in Plans : IsFiniteSet(RowsSent(i))
    BY <1>1, RowsSentByPlan DEF IInv, PlanOK
  <2>2. PICK f : f = [i \in Plans |-> RowsSent(i)]
    OBVIOUS
  <2>3. IsFiniteSet({f[i] : i \in Plans})
    <3>1. IsFiniteSet(1 .. q - 1)
      BY <1>1, FS_Interval
    <3> QED
      BY <1>1, <3>1, ImageIsFinite
  <2>4. U = UNION {f[i] : i \in Plans} /\ \A T \in {f[i] : i \in Plans} : IsFiniteSet(T)
    BY <1>7, <2>1, <2>2
  <2> QED
    BY <2>3, <2>4, FS_UNION
<1>9. (UNION {RowsSent(i) : i \in Plans})' = U \cup V
  <2>1. \A x : x \in (UNION {RowsSent(i) : i \in Plans})' <=> \E i \in 1 .. q : x \in RowsSent(i)'
    BY <1>1
  <2>2. \A x : x \in U <=> \E i \in 1 .. q - 1 : x \in RowsSent(i)
    BY <1>1, <1>7
  <2>3. \A i : i \in 1 .. q <=> i \in 1 .. q - 1 \/ i = q
    BY <1>1
  <2>4. \A x : x \in (UNION {RowsSent(i) : i \in Plans})' <=> x \in U \/ x \in V
    BY <1>4, <1>7, <2>1, <2>2, <2>3
  <2> QED
    BY <2>4
<1>10. U \cap V = {}
  <2>1. \A x \in V : x[1] = q
    BY <1>5, <1>7
  <2>2. \A i \in 1 .. q - 1 : \A x \in RowsSent(i) : x[1] = i
    BY DEF RowsSent
  <2>3. \A x \in U : x[1] \in 1 .. q - 1
    BY <1>1, <1>7, <2>2
  <2> QED
    BY <1>1, <2>1, <2>3
<1>11. Cardinality(U \cup V) = Cardinality(U) + InputSize(tiles)
  <2>1. Cardinality(U \cup V) = Cardinality(U) + Cardinality(V) - Cardinality(U \cap V)
    BY <1>6, <1>7, <1>8, FS_Union
  <2>2. Cardinality(U \cap V) = 0 /\ Cardinality(V) = InputSize(tiles)
    BY <1>6, <1>7, <1>10, FS_EmptySet
  <2>3. PICK a \in Nat, b \in Nat : a = Cardinality(U) /\ b = Cardinality(V)
    BY <1>6, <1>7, <1>8, FS_CardinalityType
  <2>4. Cardinality(U \cup V) = a + b - 0
    BY <2>1, <2>2, <2>3
  <2> QED
    BY <2>2, <2>3, <2>4
<1>12. SentOK' <=> Total(input_vector_size') = Cardinality((UNION {RowsSent(i) : i \in Plans})')
  BY DEF SentOK
<1>13. Total(input_vector_size) = Cardinality(U)
  BY <1>7 DEF SentOK
<1> QED
  BY <1>9, <1>11, <1>12, <1>13

LEMMA PlanKeepsSizes ==
  ASSUME IInv, IInv', SInv, next <= Len(workload), Len(workload) \in Nat,
         NEW size \in Int \X Int, Sent(size) \in Int, PlanPattern(workload[next], size),
         ~ cost_model => size = <<PatternRows(workload[next]), PatternColumns(workload[next])>>
  PROVE  SInv'
<1> PICK p, q, tiles, d : /\ p = workload[next] /\ q = Len(planned) + 1
                          /\ tiles = TileQuerySize(p) /\ d = InputSize(tiles)
  OBVIOUS
<1>1. /\ SizesOK /\ CountsOK /\ SentOK /\ CommunicationIsSum /\ PlacesOK
      /\ Placed /\ next \in Nat \ {0}
  BY PartsOfSInv DEF IInv
<1>2. /\ UNCHANGED <<storage, workload, cost_model>>
      /\ input_vector_size' = [Append(input_vector_size, 0) EXCEPT ![n] = @ + d]
      /\ total_communication_data_size' = total_communication_data_size + Sent(size) + d
      /\ RecordSize(size, Sent(size))
  BY DEF PlanPattern, RecordPlan, RecordSize, AddCommunication
<1>3. d \in Nat
  BY <1>1, TilesAreRead, RowsAreSentOnce
<1>4. /\ input_vector_size' \in Seq(Nat) /\ Len(input_vector_size') = next
      /\ Total(input_vector_size') = Total(input_vector_size) + d
      /\ Total(input_vector_size) \in Int
      /\ n = next => input_vector_size'[n] = d
      /\ \A i \in 1 .. next - 1 : i # n => input_vector_size'[i] = input_vector_size[i]
  BY <1>1, <1>2, <1>3, InputIsRaised
<1>5. /\ next' \in 1 .. Len(workload)' + 1 /\ n' \in 1 .. next'
      /\ next' = next + 1 /\ n' = n + 1
      /\ output_vector_size' \in Seq(Int) /\ Len(output_vector_size)' = next' - 1
      /\ Total(output_vector_size)' = Total(output_vector_size) + Sent(size)
      /\ Total(output_vector_size) \in Int
      /\ range_query_size' \in Seq(Int \X Int) /\ Len(range_query_size)' = n' - 1
      /\ range_query_size'[n] = size
      /\ \A i \in 1 .. n - 1 : range_query_size'[i] = range_query_size[i]
  BY <1>1, <1>2, SizeIsRecorded
<1>6. SizesOK'
  <2>1. Len(input_vector_size') = next' - 1
    BY <1>1, <1>4, <1>5
  <2>2. total_communication_data_size' \in Int
    <3>1. total_communication_data_size \in Int
      BY <1>1 DEF SizesOK
    <3> QED
      BY <1>2, <1>3, <3>1
  <2> QED
    BY <1>4, <1>5, <2>1, <2>2 DEF SizesOK
<1>7. CountsOK'
  <2>1. next \in 1 .. Len(workload)
    BY <1>1
  <2> QED
    BY <1>1, <2>1, PlanKeepsCounts
<1>8. SentOK'
  BY <1>1, <1>4, PlanSendsMore
<1>9. CommunicationIsSum'
  <2>1. PICK i, o, c, x : /\ i = Total(input_vector_size) /\ o = Total(output_vector_size)
                          /\ c = Sent(size) /\ x = total_communication_data_size
    OBVIOUS
  <2>2. x = i + o /\ i \in Int /\ o \in Int /\ c \in Int /\ d \in Int
    BY <1>1, <1>3, <1>4, <1>5, <2>1 DEF CommunicationIsSum
  <2>3. x + c + d = (i + d) + (o + c)
    BY <2>2
  <2>4. total_communication_data_size' = Total(input_vector_size') + Total(output_vector_size')
    BY <1>2, <1>4, <1>5, <2>1, <2>3
  <2> QED
    BY <2>4 DEF CommunicationIsSum
<1>10. PlacesOK'
  <2> SUFFICES ASSUME AllRead'
               PROVE  /\ n' = next'
                      /\ \A i \in 1 .. Len(planned)' :
                           /\ input_vector_size'[i] = InputSize(query_tile_size_per_pattern'[i])
                           /\ ~ cost_model' => range_query_size'[i]
                                = <<PatternRows(workload'[i]), PatternColumns(workload'[i])>>
    BY DEF PlacesOK
  <2>1. AllRead
    BY <1>1, <1>2, <1>5, AllReadBefore
  <2>2. n = next /\ Len(planned) = next - 1
    BY <1>1, <2>1 DEF PlacesOK, IInv, NumbersOK
  <2>3. /\ q = next /\ query_tile_size_per_pattern'[q] = tiles
        /\ \A i \in 1 .. q - 1 : query_tile_size_per_pattern'[i] = query_tile_size_per_pattern[i]
    <3>1. q = next
      BY <1>1, <2>2
    <3> QED
      BY <3>1, PlanIsAdded
  <2>4. Len(planned)' = q
    BY <1>5, <2>3 DEF IInv, NumbersOK
  <2>5. workload' = workload /\ cost_model' = cost_model
    BY <1>2
  <2>6. ASSUME NEW i \in 1 .. q - 1
        PROVE  /\ input_vector_size'[i] = InputSize(query_tile_size_per_pattern'[i])
               /\ ~ cost_model' => range_query_size'[i]
                    = <<PatternRows(workload'[i]), PatternColumns(workload'[i])>>
    <3>1. /\ input_vector_size[i] = InputSize(query_tile_size_per_pattern[i])
          /\ ~ cost_model => range_query_size[i]
                    = <<PatternRows(workload[i]), PatternColumns(workload[i])>>
      BY <1>1, <2>1, <2>2, <2>3 DEF PlacesOK
    <3>2. i \in 1 .. next - 1 /\ i # n /\ i \in 1 .. n - 1
      BY <1>1, <2>2, <2>3
    <3> QED
      BY <1>4, <1>5, <2>3, <2>5, <3>1, <3>2
  <2>7. /\ input_vector_size'[q] = InputSize(query_tile_size_per_pattern'[q])
        /\ ~ cost_model' => range_query_size'[q]
             = <<PatternRows(workload'[q]), PatternColumns(workload'[q])>>
    BY <1>4, <1>5, <2>2, <2>3, <2>5
  <2>8. \A i \in 1 .. q : i \in 1 .. q - 1 \/ i = q
    BY <1>1, <2>3
  <2> QED
    BY <1>5, <2>2, <2>4, <2>6, <2>7, <2>8
<1>11. Placed'
  BY DEF IInv
<1>12. Placed' => (SInv' <=> SizesOK' /\ CountsOK' /\ SentOK' /\ CommunicationIsSum' /\ PlacesOK')
  BY Zenon DEF SInv, TypeOK, TotalsMatchPlans, SizesOK, CountsOK, SentOK, Placed
<1> QED
  BY <1>6, <1>7, <1>8, <1>9, <1>10, <1>11, <1>12

LEMMA VarsStay == ASSUME SInv, IInv, UNCHANGED vars PROVE SInv'
<1>1. /\ UNCHANGED <<storage, workload, plans>>
      /\ next' = next /\ n' = n /\ cost_model' = cost_model /\ workload' = workload
      /\ input_vector_size' = input_vector_size /\ output_vector_size' = output_vector_size
      /\ range_query_size' = range_query_size /\ planned' = planned
      /\ query_tile_size_per_pattern' = query_tile_size_per_pattern
      /\ total_communication_data_size' = total_communication_data_size
  BY DEF vars, plans
<1>2. Placed /\ Placed'
  BY <1>1 DEF IInv, Placed, storage
<1>3. SizesOK /\ CountsOK /\ SentOK /\ CommunicationIsSum /\ PlacesOK
  BY <1>2, PartsOfSInv
<1>4. SizesOK'
  BY <1>1, <1>3 DEF SizesOK
<1>5. CountsOK'
  BY <1>1, <1>3, CountsStay
<1>6. SentOK'
  BY <1>1, <1>3, SentStays
<1>7. CommunicationIsSum'
  BY <1>1, <1>3 DEF CommunicationIsSum
<1>8. PlacesOK'
  <2>1. AllRead' <=> AllRead
    BY <1>1, AllReadStays DEF AllRead
  <2> QED
    BY <1>1, <1>3, <2>1 DEF PlacesOK, PatternRows, PatternColumns
<1>9. Placed' => (SInv' <=> SizesOK' /\ CountsOK' /\ SentOK' /\ CommunicationIsSum' /\ PlacesOK')
  BY Zenon DEF SInv, TypeOK, TotalsMatchPlans, SizesOK, CountsOK, SentOK, Placed
<1> QED
  BY <1>2, <1>4, <1>5, <1>6, <1>7, <1>8, <1>9

LEMMA SInvInit == Init => SInv
<1> SUFFICES ASSUME Init PROVE SInv
  OBVIOUS
<1>1. /\ Placed /\ Len(workload) \in Nat
  BY MatricesAssumption, WorkloadsAssumption DEF Init, Placed
<1>2. /\ <<>> \in Seq(Nat) /\ <<>> \in Seq(Int) /\ <<>> \in Seq(Int \X Int)
      /\ <<>> \in Seq(1 .. Len(workload)) /\ Len(<<>>) = 0 /\ DOMAIN <<>> = {}
  OBVIOUS
<1>3. Plans = {}
  BY <1>2 DEF Init, Plans
<1>4. \A f : DOMAIN f = {} => Total(f) = 0
  BY TotalIs, SumEmpty
<1>5. SizesOK
  BY <1>1, <1>2 DEF Init, SizesOK
<1>6. CountsOK
  <2>1. /\ Total([q \in Plans |-> Cardinality(accessed_PEs_list[q])]) = 0
        /\ Total([q \in Plans |-> Cardinality(DOMAIN query_tile_size_per_pattern[q])]) = 0
    BY <1>3, <1>4
  <2> QED
    BY <1>2, <2>1 DEF Init, CountsOK
<1>7. SentOK
  <2>1. UNION {RowsSent(q) : q \in Plans} = {}
    BY <1>3
  <2> QED
    BY <1>2, <1>4, <2>1, FS_EmptySet DEF Init, SentOK
<1>8. CommunicationIsSum
  <2>1. Total(<<>>) = 0
    BY <1>2, <1>4
  <2> QED
    BY <2>1 DEF Init, CommunicationIsSum
<1>9. PlacesOK
  BY <1>2 DEF Init, PlacesOK
<1> QED
  BY <1>1, <1>5, <1>6, <1>7, <1>8, <1>9, PartsOfSInv

LEMMA SInvCorrect == Spec => []SInv
<1>1. IInv /\ IInv' /\ SInv /\ [Next]_vars => SInv'
  <2> SUFFICES ASSUME IInv, IInv', SInv, [Next]_vars PROVE SInv'
    OBVIOUS
  <2>1. CASE SkipEmptyPattern
    BY <2>1, SkipKeepsSizes
  <2>2. CASE HandlePattern
    <3>1. next \in 1 .. Len(workload) /\ next <= Len(workload) /\ Len(workload) \in Nat
      BY <2>2, WorkloadsAssumption DEF HandlePattern, IInv
    <3>2. PICK zeros \in 0 .. (IF cost_model THEN OutsideColumns(workload[next]) ELSE 0) :
            \/ PlanPattern(workload[next], QuerySize(workload[next], zeros))
            \/ PassInvalidPattern(workload[next], QuerySize(workload[next], zeros))
      BY <2>2 DEF HandlePattern
    <3>3. PICK size : size = QuerySize(workload[next], zeros)
      OBVIOUS
    <3>4. size \in Int \X Int /\ Sent(size) \in Int
      BY <3>1, <3>3, QuerySizeType
    <3>5. ~ cost_model => size = <<PatternRows(workload[next]), PatternColumns(workload[next])>>
      BY <3>3 DEF QuerySize
    <3> QED
      BY <3>1, <3>2, <3>3, <3>4, <3>5, PlanKeepsSizes, InvalidKeepsSizes
  <2>3. CASE UNCHANGED vars
    BY <2>3, VarsStay
  <2> QED
    BY <2>1, <2>2, <2>3 DEF Next
<1> QED
  BY <1>1, SInvInit, IInvCorrect, PTL DEF Spec

(* Every plan is exact: its PEs are those that hold a nonzero its pattern   *)
(* reads, with the rows and columns it reads there, for every placement of  *)
(* every matrix in PEs and every workload.                                  *)
THEOREM PlansCorrect == Spec => []PlansAreExact
<1>1. IInv => PlansAreExact
  <2> SUFFICES ASSUME IInv, NEW q \in Plans
               PROVE  LET read == Read(PatternOf(q))
                          of(PE) == {e \in read : Window(e) = PE}
                      IN  /\ read # {}
                          /\ accessed_PEs_list[q] = {Window(e) : e \in read}
                          /\ accessed_PE_size[q] =
                               [PE \in {Window(e) : e \in read} |->
                                  <<Cardinality({e[1] : e \in of(PE)}),
                                    Cardinality({e[2] : e \in of(PE)})>>]
    BY DEF PlansAreExact
  <2>1. PlanOK(q)
    BY DEF IInv, ListsOK, IsSequence, Plans
  <2>2. /\ AccessedPEs(PatternOf(q)) = {Window(e) : e \in Read(PatternOf(q))}
        /\ accessed_PE_size[q] = PEQuerySize(PatternOf(q))
    BY <2>1, PEsAreRead DEF IInv, PlanOK
  <2> QED
    BY <2>1, <2>2, SizesAreRead DEF IInv, PlanOK, ReadIn
<1> QED
  BY <1>1, IInvCorrect, PTL

(* The numbers reported of a plan are those of what its pattern reads: each *)
(* tile has its rows and columns once however many of its PEs they run      *)
(* through, and the communication is the sum of the vectors' sizes, also    *)
(* when skipped patterns have shifted the places they are written at.       *)
THEOREM CostsCorrect == Spec => []CostsAreExact
<1>1. IInv /\ SInv => CostsAreExact
  <2> SUFFICES ASSUME IInv, SInv, NEW q \in Plans
               PROVE  LET of(t) == {e \in Read(PatternOf(q)) : Tile(Window(e)) = t}
                          tiles == query_tile_size_per_pattern[q]
                      IN  /\ DOMAIN tiles = {Tile(PE) : PE \in accessed_PEs_list[q]}
                          /\ \A t \in DOMAIN tiles :
                               /\ tiles[t].accessed_rows = {e[1] : e \in of(t)}
                               /\ tiles[t].accessed_columns = {e[2] : e \in of(t)}
                               /\ tiles[t].input_vector_size >= Cardinality(tiles[t].accessed_rows)
    BY DEF CostsAreExact, TilesAreExact, SInv
  <2>1. PlanOK(q)
    BY DEF IInv, ListsOK, IsSequence, Plans
  <2> QED
    BY <2>1 DEF PlanOK, TilesOf, AccessedTiles, ReadInTile
<1> QED
  BY <1>1, IInvCorrect, SInvCorrect, PTL

(* The totals reported are those of the plans made: accessed PEs, accessed  *)
(* tiles, and one row sent per tile and row that a plan reads.              *)
THEOREM TotalsCorrect == Spec => []TotalsMatchPlans
<1>1. SInv => TotalsMatchPlans
  BY DEF SInv
<1> QED
  BY <1>1, SInvCorrect, PTL

(* As long as every pattern reads a nonzero, the number of a plan is its    *)
(* pattern's place in every list that the cost model and the simulation     *)
(* look up by it.                                                           *)
THEOREM AlignmentCorrect == Spec => []AlignedWhileAllRead
<1>1. IInv /\ SInv => AlignedWhileAllRead
  BY DEF IInv, SInv, NumbersOK, PlacesOK, ListsOK, IsSequence, Plans, AlignedWhileAllRead
<1> QED
  BY <1>1, IInvCorrect, SInvCorrect, PTL
=============================================================================
