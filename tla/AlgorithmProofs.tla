-------------------------- MODULE AlgorithmProofs ---------------------------
(***************************************************************************)
(* Proofs about Grid, for images, cells and areas of any size, and about   *)
(* JsonValue, for integers of any width and arrays of any elements.        *)
(***************************************************************************)
EXTENDS Grid, JsonValue, FiniteSetTheorems, TLAPS

-----------------------------------------------------------------------------
(* GridService.split. *)

\* The cell that AddCell appends: its place, its size and its type.
LEMMA NewCellParts ==
  ASSUME TypeOK, x < sizeX, y < sizeY
  PROVE  /\ NewCell \in Cell
         /\ NewCell.x = x /\ NewCell.y = y
         /\ NewCell.sizeX = CellSizeX /\ NewCell.sizeY = CellSizeY
<1> USE GridAssumption DEF TypeOK
<1> DEFINE g == GetGeoTransform(sizeX, sizeY, aoi)
           o == ToGeo(x, y, g)
<1>1. sizeX \in Nat \ {0} /\ sizeY \in Nat \ {0}
  OBVIOUS
<1>2. \A a \in Int, b \in Nat \ {0} : a \div b \in Int
  OBVIOUS
<1>3. g \in GeoTransform
  <2>1. /\ aoi.upperRight.x - aoi.upperLeft.x \in Int
        /\ aoi.lowerLeft.y - aoi.upperLeft.y \in Int
        /\ aoi.upperLeft.x \in Int /\ aoi.upperLeft.y \in Int
    BY DEF Point
  <2>2. /\ (aoi.upperRight.x - aoi.upperLeft.x) \div sizeX \in Int
        /\ (aoi.lowerLeft.y - aoi.upperLeft.y) \div sizeY \in Int
    BY <1>1, <1>2, <2>1
  <2>3. QED
    BY <2>1, <2>2 DEF GetGeoTransform, GeoTransform
<1> HIDE DEF g
<1>4. \A a, b \in Int : a * b \in Int
  OBVIOUS
<1>5. o.x \in Int /\ o.y \in Int
  <2>1. /\ g.oriX \in Int /\ g.oriY \in Int /\ g.resX \in Int /\ g.resY \in Int
        /\ g.skewX \in Int /\ g.skewY \in Int /\ x \in Int /\ y \in Int
    BY <1>3 DEF GeoTransform
  <2>2. x * g.resX \in Int /\ y * g.skewX \in Int /\ x * g.skewY \in Int /\ y * g.resY \in Int
    BY <1>4, <2>1
  <2>3. /\ o.x = g.oriX + x * g.resX + y * g.skewX
        /\ o.y = g.oriY + x * g.skewY + y * g.resY
    BY DEF ToGeo
  <2>4. \A a, b, c \in Int : a + b + c \in Int
    OBVIOUS
  <2>5. g.oriX + x * g.resX + y * g.skewX \in Int
    BY <2>1, <2>2, <2>4, ZenonT(30)
  <2>6. g.oriY + x * g.skewY + y * g.resY \in Int
    BY <2>1, <2>2, <2>4, ZenonT(30)
  <2> HIDE DEF o
  <2>7. QED
    BY <2>3, <2>5, <2>6
<1> HIDE DEF o
<1>6. [g EXCEPT !.oriX = o.x, !.oriY = o.y] \in GeoTransform
  BY <1>3, <1>5 DEF GeoTransform
<1>7. NewCell = [x |-> x, y |-> y, sizeX |-> CellSizeX, sizeY |-> CellSizeY,
                 geoTransform |-> [g EXCEPT !.oriX = o.x, !.oriY = o.y]]
  BY DEF NewCell, g, o
<1>8. QED
  BY <1>6, <1>7 DEF Cell

\* AddCell relies on the test of the outer loop.
InColumn == phase = "rows" => x < sizeX

\* Each step of the loops keeps the types.
LEMMA GridTypeStep == TypeOK /\ InColumn /\ [Next]_vars => TypeOK' /\ InColumn'
<1> SUFFICES ASSUME TypeOK, InColumn, [Next]_vars PROVE TypeOK' /\ InColumn'
  OBVIOUS
<1>1. CASE AddCell
  <2>1. NewCell \in Cell
    BY <1>1, NewCellParts DEF AddCell, InColumn
  <2>2. QED
    BY <1>1, <2>1, GridAssumption DEF TypeOK, InColumn, AddCell, request
<1>2. CASE StartColumn \/ EndColumn \/ EndColumns \/ ThrowEmptyGrid \/ ReturnGrid
  BY <1>2, GridAssumption
     DEF TypeOK, InColumn, StartColumn, EndColumn, EndColumns, ThrowEmptyGrid, ReturnGrid,
         request, Phase
<1>3. CASE UNCHANGED vars
  BY <1>3 DEF TypeOK, InColumn, vars, request
<1>4. QED
  BY <1>1, <1>2, <1>3 DEF Next, Finished

LEMMA GridTypeInvariance == Spec => [](TypeOK /\ InColumn)
<1>1. Init => TypeOK /\ InColumn
  BY DEF Init, TypeOK, InColumn, Phase
<1>2. QED
  BY <1>1, GridTypeStep, PTL DEF Spec

\* The types of the loop variables and of the cells are right in every state.
THEOREM GridTypeCorrect == Spec => []TypeOK
  BY GridTypeInvariance, PTL

-----------------------------------------------------------------------------
(* The invariant of the two loops. *)

\* Pixels the loops have passed: full columns, and in the current one the rows above y.
Passed(px, py) == px < x \/ (phase = "rows" /\ px < x + CellSizeX /\ py < y)

\* Every pixel passed is held by a cell.
PassedIsHeld ==
  \A px, py \in Int : InImage(px, py) /\ Passed(px, py) =>
    \E i \in DOMAIN cells : Holds(cells[i], px, py)

\* The cells of columns that are full, or of the current one above y, are whole.
CellIsPassed(c) ==
  /\ c.sizeX = CellSizeX /\ c.sizeY = CellSizeY
  /\ InImage(c.x, c.y)
  /\ \/ c.x + CellSizeX <= x
     \/ phase = "rows" /\ c.x = x /\ c.y + CellSizeY <= y

CellsArePassed == \A i \in DOMAIN cells : CellIsPassed(cells[i])

\* A later cell lies to the right of an earlier one, or below it in the same column.
Before(c, d) == c.x + CellSizeX <= d.x \/ (c.x = d.x /\ c.y + CellSizeY <= d.y)

CellsAreInOrder == \A i, j \in DOMAIN cells : i < j => Before(cells[i], cells[j])

AllIsPassed == phase \in {"check", "returned", "thrown"} => x >= sizeX

EndsByItsCells ==
  /\ phase = "returned" => cells # <<>>
  /\ phase = "thrown" => cells = <<>>

LoopInv ==
  PassedIsHeld /\ CellsArePassed /\ CellsAreInOrder /\ AllIsPassed /\ EndsByItsCells

\* The fields that the loops compare are numbers.
LEMMA CellFields ==
  ASSUME TypeOK, NEW i \in DOMAIN cells
  PROVE  /\ cells[i] \in Cell
         /\ cells[i].x \in Nat /\ cells[i].y \in Nat
         /\ cells[i].sizeX \in Nat /\ cells[i].sizeY \in Nat
<1>1. cells[i] \in Cell
  BY DEF TypeOK
<1>2. QED
  BY <1>1 DEF Cell

LEMMA LoopStep == TypeOK /\ InColumn /\ LoopInv /\ [Next]_vars => LoopInv'
<1> SUFFICES ASSUME TypeOK, InColumn, LoopInv, [Next]_vars PROVE LoopInv'
  OBVIOUS
<1> USE GridAssumption DEF TypeOK
<1>1. CASE StartColumn
  BY <1>1 DEF StartColumn, request, LoopInv, PassedIsHeld, CellsArePassed, CellIsPassed,
              CellsAreInOrder, AllIsPassed, EndsByItsCells, Passed, InImage, Holds, Before
<1>2. CASE AddCell
  <2>0. PICK n \in Nat : n = Len(cells) + 1
    OBVIOUS
  <2>1. /\ cells' = Append(cells, NewCell) /\ y' = y + CellSizeY /\ x' = x
        /\ phase = "rows" /\ phase' = "rows" /\ y < sizeY /\ sizeX' = sizeX /\ sizeY' = sizeY
    BY <1>2 DEF AddCell, request
  <2>2. x < sizeX
    BY <2>1 DEF InColumn
  <2>3. /\ NewCell \in Cell /\ NewCell.x = x /\ NewCell.y = y
        /\ NewCell.sizeX = CellSizeX /\ NewCell.sizeY = CellSizeY
    BY <2>1, <2>2, NewCellParts
  <2>4. /\ DOMAIN cells' = DOMAIN cells \cup {n} /\ n \notin DOMAIN cells
        /\ \A i \in DOMAIN cells : cells'[i] = cells[i] /\ cells[i] \in Cell /\ i \in 1..(n - 1)
        /\ cells'[n] = NewCell
    BY <2>0, <2>1, <2>3
  <2>5. PassedIsHeld'
    <3> SUFFICES ASSUME NEW px \in Int, NEW py \in Int, InImage(px, py)', Passed(px, py)'
                 PROVE  \E i \in DOMAIN cells' : Holds(cells'[i], px, py)
      BY DEF PassedIsHeld, Holds
    <3>1. CASE Passed(px, py)
      BY <2>1, <2>4, <3>1 DEF LoopInv, PassedIsHeld, InImage
    <3>2. CASE ~Passed(px, py)
      <4>1. x <= px /\ px < x + CellSizeX /\ y <= py /\ py < y + CellSizeY
        BY <2>1, <3>2 DEF Passed
      <4>2. Holds(NewCell, px, py)
        BY <2>3, <4>1 DEF Holds
      <4>3. QED
        BY <2>4, <4>2
    <3>3. QED
      BY <3>1, <3>2
  <2>6. CellsArePassed'
    <3>1. ASSUME NEW i \in DOMAIN cells PROVE CellIsPassed(cells[i])'
      <4>1. CellIsPassed(cells[i]) /\ cells'[i] = cells[i]
        BY <2>4 DEF LoopInv, CellsArePassed
      <4>2. cells[i].x \in Nat /\ cells[i].y \in Nat
        BY CellFields
      <4>3. QED
        BY <2>1, <4>1, <4>2 DEF CellIsPassed, InImage
    <3>2. CellIsPassed(cells[n])'
      <4>1. cells'[n] = NewCell
        BY <2>4
      <4>2. QED
        BY <2>1, <2>2, <2>3, <4>1 DEF CellIsPassed, InImage
    <3>3. QED
      BY <2>4, <3>1, <3>2 DEF CellsArePassed
  <2>7. CellsAreInOrder'
    <3>1. ASSUME NEW i \in DOMAIN cells PROVE Before(cells[i], NewCell)
      BY <2>1, <2>3 DEF LoopInv, CellsArePassed, CellIsPassed, Before
    <3>2. QED
      BY <2>1, <2>4, <3>1 DEF LoopInv, CellsAreInOrder, Before
  <2>8. AllIsPassed' /\ EndsByItsCells'
    BY <2>1, <2>2 DEF AllIsPassed, EndsByItsCells
  <2>9. QED
    BY <2>5, <2>6, <2>7, <2>8 DEF LoopInv
<1>3. CASE EndColumn
  <2>1. /\ x' = x + CellSizeX /\ phase = "rows" /\ phase' = "columns" /\ y >= sizeY
        /\ UNCHANGED <<cells, sizeX, sizeY, y>>
    BY <1>3 DEF EndColumn, request
  <2>2. PassedIsHeld'
    BY <2>1 DEF LoopInv, PassedIsHeld, Passed, InImage, Holds
  <2>3. CellsArePassed'
    <3>1. ASSUME NEW i \in DOMAIN cells PROVE CellIsPassed(cells[i])'
      <4>1. CellIsPassed(cells[i]) /\ cells'[i] = cells[i]
        BY <2>1 DEF LoopInv, CellsArePassed
      <4>2. cells[i].x \in Nat /\ cells[i].y \in Nat
        BY CellFields
      <4>3. QED
        BY <2>1, <4>1, <4>2 DEF CellIsPassed, InImage
    <3>2. QED
      BY <2>1, <3>1 DEF CellsArePassed
  <2>4. CellsAreInOrder' /\ AllIsPassed' /\ EndsByItsCells'
    BY <2>1 DEF LoopInv, CellsAreInOrder, Before, AllIsPassed, EndsByItsCells
  <2>5. QED
    BY <2>2, <2>3, <2>4 DEF LoopInv
<1>4. CASE EndColumns \/ ThrowEmptyGrid \/ ReturnGrid
  <2>1. /\ UNCHANGED <<cells, sizeX, sizeY, x, y>> /\ phase \in {"columns", "check"}
        /\ phase' \in {"check", "returned", "thrown"} /\ x >= sizeX
        /\ EndsByItsCells'
    BY <1>4 DEF EndColumns, ThrowEmptyGrid, ReturnGrid, request, LoopInv, AllIsPassed,
                EndsByItsCells
  <2>2. QED
    BY <2>1 DEF LoopInv, PassedIsHeld, CellsArePassed, CellIsPassed, CellsAreInOrder,
                AllIsPassed, EndsByItsCells, Passed, InImage, Holds, Before
<1>5. CASE UNCHANGED vars
  BY <1>5 DEF vars, request, LoopInv, PassedIsHeld, CellsArePassed, CellIsPassed,
              CellsAreInOrder, AllIsPassed, EndsByItsCells, Passed, InImage, Holds, Before
<1>6. QED
  BY <1>1, <1>2, <1>3, <1>4, <1>5 DEF Next, Finished

LEMMA LoopInvariance == Spec => [](TypeOK /\ LoopInv)
<1>1. Init => LoopInv
  BY GridAssumption
     DEF Init, LoopInv, PassedIsHeld, CellsArePassed, CellsAreInOrder, AllIsPassed,
         EndsByItsCells, Passed, InImage
<1>2. QED
  BY <1>1, LoopStep, GridTypeInvariance, PTL DEF Spec

-----------------------------------------------------------------------------
\* The tiles partition the image, for images and cells of any size.
THEOREM CellsPartitionTheImage == Spec => []EveryPixelInOneCell
<1>1. TypeOK /\ LoopInv => EveryPixelInOneCell
  <2> SUFFICES ASSUME TypeOK, LoopInv, phase = "returned",
                      NEW px \in 0..(sizeX - 1), NEW py \in 0..(sizeY - 1)
               PROVE  /\ \E i \in DOMAIN cells : Holds(cells[i], px, py)
                      /\ \A i, j \in DOMAIN cells :
                           Holds(cells[i], px, py) /\ Holds(cells[j], px, py) => i = j
    BY DEF EveryPixelInOneCell
  <2> USE GridAssumption DEF TypeOK, LoopInv
  <2>1. sizeX \in Int /\ sizeY \in Int /\ px \in Int /\ py \in Int
    OBVIOUS
  <2>2. InImage(px, py) /\ Passed(px, py)
    BY <2>1 DEF InImage, Passed, AllIsPassed
  <2>3. \E i \in DOMAIN cells : Holds(cells[i], px, py)
    BY <2>1, <2>2 DEF PassedIsHeld
  <2>4. ASSUME NEW i \in DOMAIN cells, NEW j \in DOMAIN cells, i < j,
               Holds(cells[i], px, py), Holds(cells[j], px, py)
        PROVE  FALSE
    <3>1. /\ cells[i].x \in Nat /\ cells[i].y \in Nat
          /\ cells[j].x \in Nat /\ cells[j].y \in Nat
      BY CellFields
    <3>2. Before(cells[i], cells[j]) /\ CellIsPassed(cells[i]) /\ CellIsPassed(cells[j])
      BY <2>4 DEF CellsAreInOrder, CellsArePassed
    <3>3. /\ cells[i].x <= px /\ px < cells[i].x + CellSizeX
          /\ cells[i].y <= py /\ py < cells[i].y + CellSizeY
          /\ cells[j].x <= px /\ cells[j].y <= py
      BY <2>4, <3>2 DEF CellIsPassed, Holds
    <3> HIDE DEF TypeOK, LoopInv
    <3>4. ~(cells[i].x + CellSizeX <= cells[j].x) /\ ~(cells[i].y + CellSizeY <= cells[j].y)
      BY <2>1, <3>1, <3>3
    <3>5. QED
      BY <3>2, <3>4 DEF Before
  <2>5. \A i, j \in DOMAIN cells : i \in Int /\ j \in Int
    OBVIOUS
  <2>6. QED
    BY <2>3, <2>4, <2>5
<1>2. QED
  BY <1>1, LoopInvariance, PTL

\* No worker is started for a cell outside of the image.
THEOREM NoWorkerForNothing == Spec => []NoCellWithoutPixel
<1>1. LoopInv => NoCellWithoutPixel
  BY DEF LoopInv, CellsArePassed, CellIsPassed, NoCellWithoutPixel
<1>2. QED
  BY <1>1, LoopInvariance, PTL

\* split throws exactly for images without a pixel.
THEOREM ThrowsForEmptyImages == Spec => []EmptyMeansNoPixel
<1>1. TypeOK /\ LoopInv => EmptyMeansNoPixel
  <2> SUFFICES ASSUME TypeOK, LoopInv PROVE EmptyMeansNoPixel
    OBVIOUS
  <2> USE GridAssumption DEF TypeOK, LoopInv
  <2>1. sizeX \in Int /\ sizeY \in Int
    OBVIOUS
  <2>2. ASSUME phase = "returned" PROVE sizeX > 0 /\ sizeY > 0 /\ cells # <<>>
    <3>1. cells # <<>>
      BY <2>2 DEF EndsByItsCells
    <3>2. 1 \in DOMAIN cells /\ cells[1] \in Cell
      BY <3>1
    <3>3. InImage(cells[1].x, cells[1].y)
      BY <3>2 DEF CellsArePassed, CellIsPassed
    <3>4. QED
      BY <2>1, <3>1, <3>2, <3>3 DEF InImage, Cell
  <2>3. ASSUME phase = "thrown", sizeX > 0, sizeY > 0 PROVE FALSE
    <3>1. cells = <<>> /\ x >= sizeX
      BY <2>3 DEF EndsByItsCells, AllIsPassed
    <3>2. InImage(0, 0) /\ Passed(0, 0)
      BY <2>1, <2>3, <3>1 DEF InImage, Passed
    <3>3. \E i \in DOMAIN cells : Holds(cells[i], 0, 0)
      BY <3>2 DEF PassedIsHeld
    <3>4. QED
      BY <3>1, <3>3
  <2>4. QED
    BY <2>1, <2>2, <2>3 DEF EmptyMeansNoPixel
<1>2. QED
  BY <1>1, LoopInvariance, PTL

-----------------------------------------------------------------------------
(* The transforms of the cells. *)

LEMMA DivisionUndoes == ASSUME NEW m \in Int, NEW n \in Nat \ {0} PROVE (m * n) \div n = m
  OBVIOUS

LEMMA ProductsAssociate ==
  ASSUME NEW m \in Int, NEW k \in Int, NEW n \in Int PROVE m * (k * n) = (m * k) * n
  OBVIOUS

LEMMA ProductsDistribute ==
  ASSUME NEW m \in Int, NEW a \in Int, NEW k \in Int PROVE (m + a) * k = m * k + a * k
  OBVIOUS

\* On an axis whose span the size divides, the pixel m + a of the image is the pixel a of a
\* cell that starts at m.
LEMMA AxisIsExact ==
  ASSUME NEW n \in Nat \ {0}, NEW k \in Int, NEW m \in Int, NEW a \in Int, NEW o \in Int,
         NEW span, span = k * n
  PROVE  o + m * (span \div n) + a * (span \div n) = o + ((m + a) * span) \div n
<1>1. span \div n = k
  BY DivisionUndoes
<1>2. m + a \in Int /\ (m + a) * k \in Int
  <2>1. \A i, j \in Int : i + j \in Int /\ i * j \in Int
    OBVIOUS
  <2>2. QED
    BY <2>1
<1>3. ((m + a) * span) \div n = (m + a) * k
  <2>1. (m + a) * span = ((m + a) * k) * n
    BY <1>2, ProductsAssociate
  <2>2. QED
    BY <1>2, <2>1, DivisionUndoes
<1>4. (m + a) * k = m * k + a * k
  BY ProductsDistribute
<1>5. m * k \in Int /\ a * k \in Int
  <2>1. \A i, j \in Int : i * j \in Int
    OBVIOUS
  <2>2. QED
    BY <2>1
<1>6. QED
  BY <1>1, <1>3, <1>4, <1>5

\* The spans of an area that the sizes of the image divide.
SpansDivide(a) ==
  \A n \in ImageSizes : n > 0 =>
    /\ \E k \in Int : a.upperRight.x - a.upperLeft.x = k * n
    /\ \E k \in Int : a.lowerLeft.y - a.upperLeft.y = k * n

\* A new cell lies where the area of interest has it.
LEMMA NewCellIsExact ==
  ASSUME TypeOK, x < sizeX, y < sizeY, SpansDivide(aoi), NEW a \in Int, NEW b \in Int
  PROVE  ToGeo(a, b, NewCell.geoTransform) = GeoOf(NewCell.x + a, NewCell.y + b)
<1> USE GridAssumption DEF TypeOK
<1> DEFINE w == aoi.upperRight.x - aoi.upperLeft.x
           h == aoi.lowerLeft.y - aoi.upperLeft.y
           ox == aoi.upperLeft.x
           oy == aoi.upperLeft.y
<1>1. /\ sizeX \in Nat \ {0} /\ sizeY \in Nat \ {0}
      /\ sizeX \in ImageSizes /\ sizeX > 0 /\ sizeY \in ImageSizes /\ sizeY > 0
      /\ x \in Int /\ y \in Int /\ ox \in Int /\ oy \in Int
  BY DEF Point
<1>2. PICK k \in Int : w = k * sizeX
  BY <1>1, ZenonT(30) DEF SpansDivide
<1>3. PICK l \in Int : h = l * sizeY
  BY <1>1, ZenonT(30) DEF SpansDivide
<1> DEFINE rx == w \div sizeX
           ry == h \div sizeY
<1>4. rx \in Int /\ ry \in Int
  <2>1. rx = k /\ ry = l
    BY <1>1, <1>2, <1>3, DivisionUndoes
  <2>2. QED
    BY <2>1
<1>5. ToGeo(a, b, NewCell.geoTransform) =
        [x |-> (ox + x * rx + y * 0) + a * rx + b * 0,
         y |-> (oy + x * 0 + y * ry) + a * 0 + b * ry]
  BY DEF ToGeo, NewCell, GetGeoTransform
<1>6. NewCell.x = x /\ NewCell.y = y
  BY DEF NewCell
<1>7. GeoOf(NewCell.x + a, NewCell.y + b) =
        [x |-> ox + ((x + a) * w) \div sizeX, y |-> oy + ((y + b) * h) \div sizeY]
  BY <1>6 DEF GeoOf
<1> HIDE DEF w, h, ox, oy
<1>8. /\ ox + x * rx + a * rx = ox + ((x + a) * w) \div sizeX
      /\ oy + y * ry + b * ry = oy + ((y + b) * h) \div sizeY
  <2>1. ox + x * rx + a * rx = ox + ((x + a) * w) \div sizeX
    BY <1>1, <1>2, AxisIsExact
  <2>2. oy + y * ry + b * ry = oy + ((y + b) * h) \div sizeY
    BY <1>1, <1>3, AxisIsExact
  <2>3. QED
    BY <2>1, <2>2
<1> HIDE DEF rx, ry
<1>9. /\ (ox + x * rx + y * 0) + a * rx + b * 0 = ox + x * rx + a * rx
      /\ (oy + x * 0 + y * ry) + a * 0 + b * ry = oy + y * ry + b * ry
  <2>1. /\ x * rx \in Int /\ a * rx \in Int /\ y * ry \in Int /\ b * ry \in Int
        /\ x * 0 = 0 /\ y * 0 = 0 /\ a * 0 = 0 /\ b * 0 = 0
    <3>1. \A i, j \in Int : i * j \in Int /\ i * 0 = 0
      OBVIOUS
    <3>2. QED
      BY <1>1, <1>4, <3>1
  <2>2. QED
    BY <1>1, <2>1
<1>10. QED
  BY <1>5, <1>7, <1>8, <1>9

\* A cell lies where the area of an image has it.
LiesIn(c, area, sx, sy) ==
  \A a \in {0, CellSizeX}, b \in {0, CellSizeY} :
    ToGeo(a, b, c.geoTransform) =
      [x |-> area.upperLeft.x + ((c.x + a) * (area.upperRight.x - area.upperLeft.x)) \div sx,
       y |-> area.upperLeft.y + ((c.y + b) * (area.lowerLeft.y - area.upperLeft.y)) \div sy]

\* The corners of every cell lie where the area of interest has them, for all images, cells
\* and areas whose spans the image sizes divide (GeoService over integers): tiles meet.
THEOREM TilesMeet ==
  ASSUME \A a \in Aoi : SpansDivide(a)
  PROVE  Spec => []CellsAreGeoreferenced
<1>1. TypeOK /\ InColumn /\ CellsAreGeoreferenced /\ [Next]_vars => CellsAreGeoreferenced'
  <2> SUFFICES ASSUME TypeOK, InColumn, CellsAreGeoreferenced, [Next]_vars
               PROVE  CellsAreGeoreferenced'
    OBVIOUS
  <2>1. UNCHANGED request
    BY DEF Next, StartColumn, AddCell, EndColumn, EndColumns, ThrowEmptyGrid, ReturnGrid,
           Finished, vars
  <2>2. \A i \in DOMAIN cells : LiesIn(cells[i], aoi, sizeX, sizeY)
    BY DEF CellsAreGeoreferenced, GeoOf, LiesIn
  <2>3. (\A i \in DOMAIN cells' : LiesIn(cells'[i], aoi, sizeX, sizeY)) => CellsAreGeoreferenced'
    BY <2>1 DEF CellsAreGeoreferenced, GeoOf, LiesIn, request
  <2>4. CASE AddCell
    <3>1. SpansDivide(aoi) /\ x < sizeX /\ y < sizeY
      BY <2>4 DEF AddCell, InColumn, TypeOK
    <3>2. cells \in Seq(Cell) /\ cells' = Append(cells, NewCell)
      BY <2>4 DEF AddCell, TypeOK
    <3>3. LiesIn(NewCell, aoi, sizeX, sizeY)
      <4>1. \A a \in {0, CellSizeX}, b \in {0, CellSizeY} : a \in Int /\ b \in Int
        BY GridAssumption
      <4>2. \A a \in {0, CellSizeX}, b \in {0, CellSizeY} :
              ToGeo(a, b, NewCell.geoTransform) = GeoOf(NewCell.x + a, NewCell.y + b)
        BY <3>1, <4>1, NewCellIsExact
      <4>3. QED
        BY <4>2, ZenonT(30) DEF LiesIn, GeoOf
    <3>4. NewCell \in Cell
      BY <3>1, NewCellParts
    <3>5. \A i \in DOMAIN cells' :
            cells'[i] = NewCell \/ (i \in DOMAIN cells /\ cells'[i] = cells[i])
      BY <3>2, <3>4
    <3>6. QED
      BY <2>2, <2>3, <3>3, <3>5
  <2>5. CASE UNCHANGED cells
    BY <2>2, <2>3, <2>5
  <2>6. QED
    BY <2>4, <2>5 DEF Next, StartColumn, EndColumn, EndColumns, ThrowEmptyGrid, ReturnGrid,
       Finished, vars
<1>2. Init => CellsAreGeoreferenced
  BY DEF Init, CellsAreGeoreferenced
<1>3. QED
  BY <1>1, <1>2, GridTypeInvariance, PTL DEF Spec

-----------------------------------------------------------------------------
(* Json::Value as an array. *)

\* The map a is the sequence s with gaps for some of its nulls, none of them at the end.
Denotes(a, s) ==
  /\ DOMAIN a \subseteq 0..(Len(s) - 1)
  /\ Len(s) > 0 => Len(s) - 1 \in DOMAIN a
  /\ \A i \in 1..Len(s) : ElementAt(a, i - 1) = s[i]

Values == Elements \cup {Null}

ArrayInv ==
  /\ items \in [ok : BOOLEAN, seq : Seq(Values)]
  /\ items.ok => Denotes(array, items.seq)

LEMMA GreatestIsMax ==
  ASSUME NEW S, S \subseteq Int, NEW m \in S, \A n \in S : n <= m
  PROVE  Max(S) = m
<1>1. \E k \in S : \A n \in S : k >= n
  OBVIOUS
<1>2. Max(S) \in S /\ \A n \in S : Max(S) >= n
  BY <1>1 DEF Max
<1>3. Max(S) \in Int /\ m \in Int /\ Max(S) >= m /\ Max(S) <= m
  BY <1>2
<1>4. QED
  BY <1>3

\* Value::size is the length of the sequence.
LEMMA SizeIsLength ==
  ASSUME NEW V, NEW s \in Seq(V), NEW a, Denotes(a, s)
  PROVE  Size(a) = Len(s)
<1>1. Len(s) \in Nat
  OBVIOUS
<1>2. CASE Len(s) = 0
  <2>1. DOMAIN a = {}
    BY <1>2 DEF Denotes
  <2>2. QED
    BY <1>2, <2>1 DEF Size
<1>3. CASE Len(s) > 0
  <2>1. DOMAIN a \subseteq Int /\ Len(s) - 1 \in DOMAIN a /\ \A n \in DOMAIN a : n <= Len(s) - 1
    BY <1>1, <1>3 DEF Denotes
  <2>2. Max(DOMAIN a) = Len(s) - 1
    BY <2>1, GreatestIsMax
  <2>3. QED
    BY <1>1, <2>1, <2>2 DEF Size
<1>4. QED
  BY <1>1, <1>2, <1>3

LEMMA PaddedParts ==
  ASSUME NEW s \in Seq(Values), NEW n \in Nat
  PROVE  /\ Padded(s, n) \in Seq(Values)
         /\ Len(Padded(s, n)) = IF n > Len(s) THEN n ELSE Len(s)
         /\ \A i \in 1..Len(Padded(s, n)) :
              Padded(s, n)[i] = IF i <= Len(s) THEN s[i] ELSE Null
<1> DEFINE k == IF n > Len(s) THEN n - Len(s) ELSE 0
           gap == [i \in 1..k |-> Null]
<1>1. k \in Nat /\ Len(s) \in Nat /\ 1..(n - Len(s)) = 1..k
  OBVIOUS
<1>2. gap \in Seq(Values) /\ Len(gap) = k /\ \A i \in 1..k : gap[i] = Null
  BY <1>1 DEF Values
<1>3. Padded(s, n) = s \o gap
  BY <1>1 DEF Padded
<1> HIDE DEF gap
<1>4. QED
  BY <1>1, <1>2, <1>3

\* Assigning and touching an element: the sequence is extended as far as it.
LEMMA StoreDenotes ==
  ASSUME NEW s \in Seq(Values), NEW a, Denotes(a, s), NEW i \in Nat, NEW v,
         NEW t \in Seq(Values), Len(t) = (IF i + 1 > Len(s) THEN i + 1 ELSE Len(s)),
         \A j \in 1..Len(t) :
           t[j] = IF j = i + 1 THEN v ELSE IF j <= Len(s) THEN s[j] ELSE Null
  PROVE  Denotes(Store(a, i, v), t)
<1> DEFINE b == Store(a, i, v)
<1>1. DOMAIN b = DOMAIN a \cup {i} /\ \A j \in DOMAIN b : b[j] = IF j = i THEN v ELSE a[j]
  BY DEF Store
<1> HIDE DEF b
<1>2. Len(s) \in Nat /\ Len(t) \in Nat /\ DOMAIN a \subseteq 0..(Len(s) - 1)
  BY DEF Denotes
<1>3. DOMAIN b \subseteq 0..(Len(t) - 1)
  BY <1>1, <1>2
<1>4. Len(t) > 0 => Len(t) - 1 \in DOMAIN b
  BY <1>1, <1>2 DEF Denotes
<1>5. ASSUME NEW j \in 1..Len(t) PROVE ElementAt(b, j - 1) = t[j]
  <2>1. CASE j = i + 1
    BY <1>1, <2>1 DEF ElementAt
  <2>2. CASE j # i + 1 /\ j <= Len(s)
    <3>1. ElementAt(a, j - 1) = s[j]
      BY <1>2, <2>2 DEF Denotes
    <3>2. j - 1 # i /\ (j - 1 \in DOMAIN b <=> j - 1 \in DOMAIN a)
      BY <1>1, <1>2, <2>2
    <3>3. QED
      BY <1>1, <2>2, <3>1, <3>2 DEF ElementAt
  <2>3. CASE j # i + 1 /\ j > Len(s)
    <3>1. j - 1 \notin DOMAIN b
      BY <1>1, <1>2, <2>3
    <3>2. QED
      BY <2>3, <3>1, <1>2 DEF ElementAt
  <2>4. QED
    BY <1>2, <2>1, <2>2, <2>3
<1>6. QED
  BY <1>3, <1>4, <1>5 DEF Denotes, b

LEMMA ResizeDenotes ==
  ASSUME NEW s \in Seq(Values), NEW a, Denotes(a, s), NEW n \in Nat,
         NEW t \in Seq(Values), Len(t) = n,
         \A j \in 1..n : t[j] = IF j <= Len(s) THEN s[j] ELSE Null,
         0 < n /\ n < Size(a) => n - 1 \in DOMAIN a
  PROVE  Denotes(Resize(a, n).array, t)
<1> DEFINE b == Resize(a, n).array
<1>1. Size(a) = Len(s) /\ Len(s) \in Nat
  BY SizeIsLength
<1>2. /\ DOMAIN b = IF n > Len(s) THEN DOMAIN a \cup Len(s)..(n - 1) ELSE {i \in DOMAIN a : i < n}
      /\ \A j \in DOMAIN b : b[j] = ElementAt(a, j)
  <2>1. CASE n = 0
    <3>1. b = EmptyArray
      BY <2>1 DEF Resize, Done
    <3>2. DOMAIN b = {}
      BY <3>1 DEF EmptyArray
    <3>3. {i \in DOMAIN a : i < n} = {}
      BY <2>1, <1>1 DEF Denotes
    <3> HIDE DEF b
    <3>4. ~(n > Len(s))
      BY <1>1, <2>1
    <3>5. QED
      BY <3>2, <3>3, <3>4
  <2>2. CASE n > Len(s)
    <3>1. b = [i \in DOMAIN a \cup Len(s)..(n - 1) |-> ElementAt(a, i)]
      BY <1>1, <2>2 DEF Resize, Done
    <3>2. QED
      BY <2>2, <3>1
  <2>3. CASE n # 0 /\ n <= Len(s)
    <3>1. b = [i \in {i \in DOMAIN a : i < n} |-> a[i]]
      BY <1>1, <2>3 DEF Resize, Done, Restrict
    <3>2. QED
      BY <1>1, <2>3, <3>1 DEF ElementAt
  <2>4. QED
    BY <1>1, <2>1, <2>2, <2>3
<1> HIDE DEF b
<1>3. DOMAIN a \subseteq 0..(Len(s) - 1)
  BY DEF Denotes
<1>4. DOMAIN b \subseteq 0..(n - 1) /\ (n > 0 => n - 1 \in DOMAIN b)
  BY <1>1, <1>2, <1>3 DEF Denotes
<1>5. ASSUME NEW j \in 1..n PROVE ElementAt(b, j - 1) = t[j]
  <2>1. j <= Len(s) => ElementAt(a, j - 1) = s[j]
    BY <1>1 DEF Denotes
  <2>2. j > Len(s) => ElementAt(a, j - 1) = Null
    BY <1>1, <1>3 DEF ElementAt
  <2>3. j - 1 \notin DOMAIN b => j <= Len(s) /\ j - 1 \notin DOMAIN a
    BY <1>1, <1>2
  <2>4. ElementAt(b, j - 1) = ElementAt(a, j - 1)
    BY <1>2, <2>3 DEF ElementAt
  <2>5. QED
    BY <1>1, <2>1, <2>2, <2>4
<1>6. QED
  BY <1>4, <1>5 DEF Denotes, b

LEMMA InsertDenotes ==
  ASSUME NEW s \in Seq(Values), NEW a, Denotes(a, s), NEW i \in 0..Len(s), NEW v \in Values
  PROVE  /\ Insert(a, i, v).result /\ ~Insert(a, i, v).threw
         /\ InsertAt(s, i + 1, v) \in Seq(Values)
         /\ Denotes(Insert(a, i, v).array, InsertAt(s, i + 1, v))
<1> DEFINE b == Insert(a, i, v).array
           t == InsertAt(s, i + 1, v)
<1>1. Size(a) = Len(s) /\ Len(s) \in Nat
  BY SizeIsLength
<1>2. /\ t \in Seq(Values) /\ Len(t) = Len(s) + 1
      /\ \A j \in 1..Len(t) : t[j] = IF j <= i THEN s[j] ELSE IF j = i + 1 THEN v ELSE s[j - 1]
  <2> DEFINE front == SubSeq(s, 1, i)
             back  == SubSeq(s, i + 1, Len(s))
  <2>1. front \in Seq(Values) /\ Len(front) = i /\ \A j \in 1..i : front[j] = s[j]
    BY <1>1
  <2>2. /\ back \in Seq(Values) /\ Len(back) = Len(s) - i
        /\ \A j \in 1..(Len(s) - i) : back[j] = s[j + i]
    BY <1>1
  <2>3. t = front \o <<v>> \o back
    <3>1. (i + 1) - 1 = i
      OBVIOUS
    <3>2. QED
      BY <3>1 DEF InsertAt
  <2> HIDE DEF front, back, t
  <2>4. /\ front \o <<v>> \in Seq(Values) /\ Len(front \o <<v>>) = i + 1
        /\ \A j \in 1..(i + 1) : (front \o <<v>>)[j] = IF j <= i THEN s[j] ELSE v
    BY <2>1
  <2>5. t \in Seq(Values) /\ Len(t) = Len(s) + 1
    BY <1>1, <2>2, <2>3, <2>4
  <2>6. ASSUME NEW j \in 1..Len(t)
        PROVE  t[j] = IF j <= i THEN s[j] ELSE IF j = i + 1 THEN v ELSE s[j - 1]
    <3>1. CASE j <= i + 1
      BY <1>1, <2>2, <2>3, <2>4, <2>5, <3>1
    <3>2. CASE j > i + 1
      <4>1. t[j] = back[j - (i + 1)]
        BY <1>1, <2>2, <2>3, <2>4, <2>5, <3>2
      <4>2. back[j - (i + 1)] = s[j - 1]
        <5>1. j - (i + 1) \in 1..(Len(s) - i) /\ (j - (i + 1)) + i = j - 1
          BY <1>1, <2>5, <3>2
        <5>2. QED
          BY <2>2, <5>1
      <4>3. QED
        BY <1>1, <3>2, <4>1, <4>2
    <3>3. QED
      BY <1>1, <3>1, <3>2
  <2>7. QED
    BY <2>5, <2>6
<1>3. /\ Insert(a, i, v).result /\ ~Insert(a, i, v).threw
      /\ b = [j \in DOMAIN a \cup i..Len(s) |->
                IF j = i THEN v ELSE IF j > i THEN ElementAt(a, j - 1) ELSE a[j]]
  BY <1>1 DEF Insert, Done
<1> HIDE DEF b, t
<1>4. DOMAIN a \subseteq 0..(Len(s) - 1)
  BY DEF Denotes
<1>5. DOMAIN b \subseteq 0..(Len(t) - 1) /\ Len(t) - 1 \in DOMAIN b
  BY <1>1, <1>2, <1>3, <1>4
<1>6. ASSUME NEW j \in 1..Len(t) PROVE ElementAt(b, j - 1) = t[j]
  <2>0. \A k \in 1..Len(s) : ElementAt(a, k - 1) = s[k]
    BY DEF Denotes
  <2>1. CASE j = i + 1
    BY <1>1, <1>2, <1>3, <2>1 DEF ElementAt
  <2>2. CASE j > i + 1
    <3>1. j - 1 \in DOMAIN b /\ b[j - 1] = ElementAt(a, (j - 1) - 1)
      BY <1>1, <1>2, <1>3, <2>2
    <3>2. ElementAt(a, (j - 1) - 1) = s[j - 1]
      BY <1>1, <1>2, <2>0, <2>2
    <3>3. QED
      BY <1>1, <1>2, <2>2, <3>1, <3>2 DEF ElementAt
  <2>3. CASE j <= i
    <3>1. ElementAt(a, j - 1) = s[j] /\ t[j] = s[j]
      BY <1>1, <1>2, <2>0, <2>3
    <3>2. j - 1 \in DOMAIN b <=> j - 1 \in DOMAIN a
      BY <1>1, <1>3, <2>3
    <3>3. j - 1 \in DOMAIN b => b[j - 1] = a[j - 1]
      BY <1>1, <1>3, <2>3
    <3>4. QED
      BY <3>1, <3>2, <3>3 DEF ElementAt
  <2>4. QED
    BY <1>1, <1>2, <2>1, <2>2, <2>3
<1>7. QED
  BY <1>2, <1>3, <1>5, <1>6 DEF Denotes, b, t

LEMMA RemoveParts ==
  ASSUME NEW s \in Seq(Values), NEW i \in Nat, i < Len(s)
  PROVE  /\ RemoveAt(s, i + 1) \in Seq(Values) /\ Len(RemoveAt(s, i + 1)) = Len(s) - 1
         /\ \A j \in 1..(Len(s) - 1) :
              RemoveAt(s, i + 1)[j] = IF j <= i THEN s[j] ELSE s[j + 1]
<1> DEFINE t == RemoveAt(s, i + 1)
           front == SubSeq(s, 1, i)
           back  == SubSeq(s, i + 2, Len(s))
<1>0. Len(s) \in Nat
  OBVIOUS
<1>1. front \in Seq(Values) /\ Len(front) = i /\ \A j \in 1..i : front[j] = s[j]
  BY <1>0
<1>2. /\ back \in Seq(Values) /\ Len(back) = Len(s) - (i + 1)
      /\ \A j \in 1..(Len(s) - (i + 1)) : back[j] = s[j + (i + 1)]
  BY <1>0
<1>3. t = front \o back
  <2>1. (i + 1) - 1 = i /\ (i + 1) + 1 = i + 2
    OBVIOUS
  <2>2. QED
    BY <2>1 DEF RemoveAt
<1> HIDE DEF front, back, t
<1>4. t \in Seq(Values) /\ Len(t) = Len(s) - 1
  BY <1>0, <1>1, <1>2, <1>3
<1>5. ASSUME NEW j \in 1..(Len(s) - 1) PROVE t[j] = IF j <= i THEN s[j] ELSE s[j + 1]
  <2>1. CASE j <= i
    BY <1>0, <1>1, <1>2, <1>3, <1>4, <2>1
  <2>2. CASE j > i
    <3>1. t[j] = back[j - i]
      BY <1>0, <1>1, <1>2, <1>3, <1>4, <2>2
    <3>2. j - i \in 1..(Len(s) - (i + 1)) /\ (j - i) + (i + 1) = j + 1
      BY <1>0, <2>2
    <3>3. back[j - i] = s[j + 1]
      BY <1>2, <3>2
    <3>4. QED
      BY <1>0, <2>2, <3>1, <3>3
  <2>3. QED
    BY <1>0, <2>1, <2>2
<1>6. QED
  BY <1>4, <1>5 DEF t

LEMMA RemoveDenotes ==
  ASSUME NEW s \in Seq(Values), NEW a, Denotes(a, s), NEW i \in Nat, i \in DOMAIN a,
         0 < Len(s) - 1 /\ Len(s) - 1 < Size(a) => Len(s) - 2 \in DOMAIN a
  PROVE  /\ RemoveAt(s, i + 1) \in Seq(Values)
         /\ Denotes(RemoveIndex(a, i).array, RemoveAt(s, i + 1))
<1> DEFINE b == RemoveIndex(a, i).array
           t == RemoveAt(s, i + 1)
<1>1. Size(a) = Len(s) /\ Len(s) \in Nat
  BY SizeIsLength
<1>2. DOMAIN a \subseteq 0..(Len(s) - 1) /\ i < Len(s)
  BY <1>1 DEF Denotes
<1>3. /\ t \in Seq(Values) /\ Len(t) = Len(s) - 1
      /\ \A j \in 1..Len(t) : t[j] = IF j <= i THEN s[j] ELSE s[j + 1]
  BY <1>1, <1>2, RemoveParts
<1>4. b = [j \in (DOMAIN a \cup i..(Len(s) - 1)) \ {Len(s) - 1} |->
             IF j >= i THEN ElementAt(a, j + 1) ELSE a[j]]
  BY <1>1 DEF RemoveIndex, Done
<1> HIDE DEF b, t
<1>5. DOMAIN b \subseteq 0..(Len(t) - 1) /\ (Len(t) > 0 => Len(t) - 1 \in DOMAIN b)
  BY <1>1, <1>2, <1>3, <1>4
<1>6. ASSUME NEW j \in 1..Len(t) PROVE ElementAt(b, j - 1) = t[j]
  <2>0. \A k \in 1..Len(s) : ElementAt(a, k - 1) = s[k]
    BY DEF Denotes
  <2>1. CASE j > i
    <3>1. j - 1 \in DOMAIN b /\ b[j - 1] = ElementAt(a, (j - 1) + 1)
      BY <1>1, <1>2, <1>3, <1>4, <2>1
    <3>2. ElementAt(a, (j + 1) - 1) = s[j + 1] /\ (j - 1) + 1 = (j + 1) - 1
      BY <1>1, <1>3, <2>0
    <3>3. QED
      BY <1>1, <1>3, <2>1, <3>1, <3>2 DEF ElementAt
  <2>2. CASE j <= i
    <3>1. ElementAt(a, j - 1) = s[j] /\ t[j] = s[j]
      BY <1>1, <1>2, <1>3, <2>0, <2>2
    <3>2. j - 1 \in DOMAIN b <=> j - 1 \in DOMAIN a
      BY <1>1, <1>2, <1>4, <2>2
    <3>3. j - 1 \in DOMAIN b => b[j - 1] = a[j - 1]
      BY <1>1, <1>4, <2>2
    <3>4. QED
      BY <3>1, <3>2, <3>3 DEF ElementAt
  <2>3. QED
    BY <1>1, <1>3, <2>1, <2>2
<1>7. QED
  BY <1>3, <1>5, <1>6 DEF Denotes, b, t

\* An operation keeps the invariant if it does to the array what it does to the sequence
\* unless it refuses, throws, or leaves a gap at the end.
LEMMA OperateKeeps ==
  ASSUME NEW done, NEW seq, ArrayInv, Operate(done, seq),
         done.result => seq \in Seq(Values),
         ~done.result => done.array = array,
         done.result /\ ~done.threw /\ ~EndsInGap(Len(seq)) => Denotes(done.array, seq)
  PROVE  ArrayInv'
<1>1. /\ array' = done.array
      /\ items' = [ok  |-> ~(done.threw \/ (done.result /\ EndsInGap(Len(seq)))),
                   seq |-> IF done.result THEN seq ELSE items.seq]
      /\ items \in [ok : BOOLEAN, seq : Seq(Values)] /\ Denotes(array, items.seq)
  BY DEF Operate, ArrayInv
<1>2. items' \in [ok : BOOLEAN, seq : Seq(Values)]
  BY <1>1
<1>3. ASSUME items'.ok PROVE Denotes(array', items'.seq)
  <2>1. CASE done.result
    BY <1>1, <1>3, <2>1
  <2>2. CASE ~done.result
    BY <1>1, <2>2
  <2>3. QED
    BY <2>1, <2>2
<1>4. (items.ok => Denotes(array, items.seq))' = (items'.ok => Denotes(array', items'.seq))
  BY DEF Denotes
<1>5. QED
  BY <1>2, <1>3, <1>4 DEF ArrayInv, Values

LEMMA ArrayStep == ArrayInv /\ [ArrayNext]_valueVars => ArrayInv'
<1> SUFFICES ASSUME ArrayInv, [ArrayNext]_valueVars PROVE ArrayInv'
  OBVIOUS
<1> USE ValueAssumption
<1> DEFINE s == items.seq
<1>0. items.ok => s \in Seq(Values) /\ Denotes(array, s) /\ Len(s) \in Nat /\ Size(array) = Len(s)
  <2>1. items.ok => s \in Seq(Values) /\ Denotes(array, s)
    BY DEF ArrayInv
  <2>2. QED
    BY <2>1, SizeIsLength
<1>1. CASE DoAssign
  <2>1. PICK i \in 0..(MaxElements - 1), v \in Elements :
          Operate(Assign(array, i, v), [Padded(s, i + 1) EXCEPT ![i + 1] = v])
    BY <1>1 DEF DoAssign
  <2> DEFINE t == [Padded(s, i + 1) EXCEPT ![i + 1] = v]
  <2>2. i \in Nat /\ i + 1 \in Nat /\ v \in Values /\ s \in Seq(Values) /\ Denotes(array, s)
    BY <1>0, <2>1 DEF Operate, Values
  <2>3. /\ t \in Seq(Values) /\ Len(t) = (IF i + 1 > Len(s) THEN i + 1 ELSE Len(s))
        /\ \A j \in 1..Len(t) :
             t[j] = IF j = i + 1 THEN v ELSE IF j <= Len(s) THEN s[j] ELSE Null
    <3> DEFINE q == Padded(s, i + 1)
    <3>1. /\ q \in Seq(Values) /\ Len(q) = (IF i + 1 > Len(s) THEN i + 1 ELSE Len(s))
          /\ \A j \in 1..Len(q) : q[j] = IF j <= Len(s) THEN s[j] ELSE Null
      BY <2>2, PaddedParts
    <3> HIDE DEF q
    <3>2. [q EXCEPT ![i + 1] = v] \in Seq(Values) /\ Len([q EXCEPT ![i + 1] = v]) = Len(q)
      BY <2>2, <3>1
    <3>3. \A j \in 1..Len(q) : [q EXCEPT ![i + 1] = v][j] = IF j = i + 1 THEN v ELSE q[j]
      BY <2>2, <3>1
    <3>4. QED
      BY <3>1, <3>2, <3>3 DEF q
  <2> HIDE DEF t
  <2>4. Denotes(Store(array, i, v), t)
    BY <2>2, <2>3, StoreDenotes
  <2>5. QED
    BY <2>1, <2>3, <2>4, OperateKeeps DEF Assign, Done, t
<1>2. CASE DoTouch
  <2>1. PICK i \in 0..(MaxElements - 1) : Operate(Done(Touch(array, i)), Padded(s, i + 1))
    BY <1>2 DEF DoTouch
  <2> DEFINE t == Padded(s, i + 1)
  <2>2. i \in Nat /\ i + 1 \in Nat /\ s \in Seq(Values) /\ Denotes(array, s) /\ Len(s) \in Nat
    BY <1>0, <2>1 DEF Operate
  <2>3. /\ t \in Seq(Values) /\ Len(t) = (IF i + 1 > Len(s) THEN i + 1 ELSE Len(s))
        /\ \A j \in 1..Len(t) : t[j] = IF j <= Len(s) THEN s[j] ELSE Null
    BY <2>2, PaddedParts
  <2> HIDE DEF t
  <2>4. ElementAt(array, i) = IF i + 1 <= Len(s) THEN s[i + 1] ELSE Null
    <3>1. CASE i + 1 <= Len(s)
      <4>1. i + 1 \in 1..Len(s) /\ (i + 1) - 1 = i
        BY <2>2, <3>1
      <4>2. QED
        BY <2>2, <3>1, <4>1 DEF Denotes
    <3>2. CASE ~(i + 1 <= Len(s))
      <4>1. i \notin DOMAIN array
        BY <2>2, <3>2 DEF Denotes
      <4>2. QED
        BY <3>2, <4>1 DEF ElementAt
    <3>3. QED
      BY <3>1, <3>2
  <2>5. \A j \in 1..Len(t) :
          t[j] = IF j = i + 1 THEN ElementAt(array, i) ELSE IF j <= Len(s) THEN s[j] ELSE Null
    BY <2>2, <2>3, <2>4
  <2>6. Denotes(Touch(array, i), t)
    BY <2>2, <2>3, <2>5, StoreDenotes DEF Touch
  <2>7. QED
    BY <2>1, <2>3, <2>6, OperateKeeps DEF Done, t
<1>3. CASE DoAppend
  <2>1. PICK v \in Elements : Operate(AppendTo(array, v), Append(s, v))
    BY <1>3 DEF DoAppend
  <2> DEFINE t == Append(s, v)
  <2>2. /\ v \in Values /\ s \in Seq(Values) /\ Denotes(array, s) /\ Len(s) \in Nat
        /\ Size(array) = Len(s)
    BY <1>0, <2>1 DEF Operate, Values
  <2>3. /\ t \in Seq(Values) /\ Len(t) = Len(s) + 1
        /\ \A j \in 1..Len(t) : t[j] = IF j = Len(s) + 1 THEN v ELSE s[j]
    BY <2>2
  <2> HIDE DEF t
  <2>4. Denotes(Store(array, Len(s), v), t)
    <3>1. Len(t) = (IF Len(s) + 1 > Len(s) THEN Len(s) + 1 ELSE Len(s))
      BY <2>2, <2>3
    <3>2. \A j \in 1..Len(t) :
            t[j] = IF j = Len(s) + 1 THEN v ELSE IF j <= Len(s) THEN s[j] ELSE Null
      BY <2>2, <2>3
    <3>3. QED
      BY <2>2, <2>3, <3>1, <3>2, StoreDenotes
  <2>5. QED
    BY <2>1, <2>2, <2>3, <2>4, OperateKeeps DEF AppendTo, Done, t
<1>4. CASE DoInsert
  <2>1. PICK i \in 0..MaxElements, v \in Elements :
          Operate(Insert(array, i, v), IF i <= Len(s) THEN InsertAt(s, i + 1, v) ELSE <<>>)
    BY <1>4 DEF DoInsert
  <2>2. /\ v \in Values /\ s \in Seq(Values) /\ Denotes(array, s) /\ Len(s) \in Nat
        /\ Size(array) = Len(s)
    BY <1>0, <2>1 DEF Operate, Values
  <2>3. CASE i <= Len(s)
    <3>1. i \in 0..Len(s)
      BY <2>2, <2>3
    <3>2. /\ InsertAt(s, i + 1, v) \in Seq(Values)
          /\ Denotes(Insert(array, i, v).array, InsertAt(s, i + 1, v))
          /\ Insert(array, i, v).result
      BY <2>2, <3>1, InsertDenotes
    <3>3. Operate(Insert(array, i, v), InsertAt(s, i + 1, v))
      BY <2>1, <2>3
    <3>4. QED
      BY <3>2, <3>3, OperateKeeps
  <2>4. CASE ~(i <= Len(s))
    <3>1. Insert(array, i, v) = Refused(array)
      BY <2>2, <2>4 DEF Insert
    <3>2. Operate(Refused(array), <<>>)
      BY <2>1, <2>4, <3>1
    <3>3. QED
      BY <3>2, OperateKeeps DEF Refused
  <2>5. QED
    BY <2>3, <2>4
<1>5. CASE DoRemove
  <2>1. PICK i \in 0..MaxElements :
          Operate(RemoveIndex(array, i), IF i < Len(s) THEN RemoveAt(s, i + 1) ELSE <<>>)
    BY <1>5 DEF DoRemove
  <2>2. /\ s \in Seq(Values) /\ Denotes(array, s) /\ Len(s) \in Nat /\ Size(array) = Len(s)
        /\ i \in Nat
    BY <1>0, <2>1 DEF Operate
  <2>3. CASE i \in DOMAIN array
    <3>1. i < Len(s)
      BY <2>2, <2>3 DEF Denotes
    <3>2. Operate(RemoveIndex(array, i), RemoveAt(s, i + 1))
      BY <2>1, <3>1
    <3>3. RemoveAt(s, i + 1) \in Seq(Values) /\ Len(RemoveAt(s, i + 1)) = Len(s) - 1
      BY <2>2, <3>1, RemoveParts
    <3>4. ASSUME ~EndsInGap(Len(RemoveAt(s, i + 1)))
          PROVE  Denotes(RemoveIndex(array, i).array, RemoveAt(s, i + 1))
      <4>1. 0 < Len(s) - 1 /\ Len(s) - 1 < Size(array) => Len(s) - 2 \in DOMAIN array
        <5>1. (Len(s) - 1) - 1 = Len(s) - 2
          BY <2>2
        <5>2. QED
          BY <3>3, <3>4, <5>1 DEF EndsInGap
      <4>2. QED
        BY <2>2, <2>3, <4>1, RemoveDenotes
    <3>5. RemoveIndex(array, i).result
      BY <2>3 DEF RemoveIndex, Done
    <3>6. QED
      BY <3>2, <3>3, <3>4, <3>5, OperateKeeps
  <2>4. CASE i \notin DOMAIN array
    <3>1. RemoveIndex(array, i) = Refused(array)
      BY <2>4 DEF RemoveIndex
    <3>2. PICK q : Operate(Refused(array), q)
      BY <2>1, <3>1
    <3>3. QED
      BY <3>2, OperateKeeps DEF Refused
  <2>5. QED
    BY <2>3, <2>4
<1>6. CASE DoResize
  <2>1. PICK n \in 0..MaxElements :
          Operate(Resize(array, n), IF n <= Len(s) THEN SubSeq(s, 1, n) ELSE Padded(s, n))
    BY <1>6 DEF DoResize
  <2> DEFINE t == IF n <= Len(s) THEN SubSeq(s, 1, n) ELSE Padded(s, n)
  <2>2. /\ s \in Seq(Values) /\ Denotes(array, s) /\ Len(s) \in Nat /\ Size(array) = Len(s)
        /\ n \in Nat
    BY <1>0, <2>1 DEF Operate
  <2>3. /\ t \in Seq(Values) /\ Len(t) = n
        /\ \A j \in 1..n : t[j] = IF j <= Len(s) THEN s[j] ELSE Null
    <3>1. CASE n <= Len(s)
      BY <2>2, <3>1
    <3>2. CASE ~(n <= Len(s))
      BY <2>2, <3>2, PaddedParts
    <3>3. QED
      BY <3>1, <3>2
  <2> HIDE DEF t
  <2>4. ASSUME ~EndsInGap(Len(t)) PROVE Denotes(Resize(array, n).array, t)
    <3>1. 0 < n /\ n < Size(array) => n - 1 \in DOMAIN array
      BY <2>3, <2>4 DEF EndsInGap
    <3>2. QED
      BY <2>2, <2>3, <3>1, ResizeDenotes
  <2>5. Resize(array, n).result
    BY DEF Resize, Done
  <2>6. QED
    BY <2>1, <2>3, <2>4, <2>5, OperateKeeps DEF t
<1>7. CASE UNCHANGED valueVars
  BY <1>7 DEF valueVars, ArrayInv, Denotes, ElementAt, Values
<1>8. QED
  BY <1>1, <1>2, <1>3, <1>4, <1>5, <1>6, <1>7 DEF ArrayNext

\* An array is the sequence it stands for, under any operations, until one leaves a gap at its
\* end (Value::operator[], append, insert, removeIndex, resize).
THEOREM ArraysAreSequences == ValueSpec => []ArrayIsASequence
<1>1. ValueInit => ArrayInv
  <2> SUFFICES ASSUME ValueInit PROVE ArrayInv
    OBVIOUS
  <2>1. items = [ok |-> TRUE, seq |-> <<>>] /\ DOMAIN array = {}
    BY DEF ValueInit, EmptyArray
  <2>2. Denotes(array, <<>>)
    BY <2>1 DEF Denotes
  <2>3. QED
    BY <2>1, <2>2 DEF ArrayInv
<1>2. ArrayInv => ArrayIsASequence
  <2> SUFFICES ASSUME ArrayInv, items.ok PROVE ArrayIsASequence
    BY DEF ArrayIsASequence
  <2>1. items.seq \in Seq(Values) /\ Denotes(array, items.seq)
    BY DEF ArrayInv
  <2>2. Size(array) = Len(items.seq) /\ DOMAIN items.seq = 1..Len(items.seq)
    BY <2>1, SizeIsLength
  <2>3. QED
    BY <2>1, <2>2 DEF ArrayIsASequence, Denotes
<1>3. QED
  BY <1>1, <1>2, ArrayStep, PTL DEF ValueSpec

-----------------------------------------------------------------------------
(* Json::Value as a scalar. *)

\* The limits of the types, and what they become as doubles.
LEMMA Limits ==
  /\ MinInt \in Int /\ ValueMaxInt \in Int /\ MaxUInt \in Int
  /\ MinInt64 \in Int /\ ValueMaxLargestInt \in Int /\ MaxUInt64 \in Int
  /\ MinInt64 < MinInt /\ MinInt < 0 /\ 0 <= ValueMaxInt /\ ValueMaxInt < MaxUInt
  /\ MaxUInt < ValueMaxLargestInt /\ ValueMaxLargestInt < MaxUInt64
  /\ ToDouble(MinInt) = MinInt /\ ToDouble(ValueMaxInt) = ValueMaxInt /\ ToDouble(0) = 0
  /\ ToDouble(MaxUInt) = MaxUInt /\ ToDouble(MinInt64) = MinInt64
  /\ ToDouble(ValueMaxLargestInt) = ValueMaxLargestInt + 1
  /\ ToDouble(MaxUInt64) = MaxUInt64 + 1
<1>1. /\ MinInt \in Int /\ ValueMaxInt \in Int /\ MaxUInt \in Int
      /\ MinInt64 \in Int /\ ValueMaxLargestInt \in Int /\ MaxUInt64 \in Int
      /\ MinInt64 < MinInt /\ MinInt < 0 /\ 0 <= ValueMaxInt /\ ValueMaxInt < MaxUInt
      /\ MaxUInt < ValueMaxLargestInt /\ ValueMaxLargestInt < MaxUInt64
  BY ValueAssumption DEF MinInt, MaxUInt, MinInt64, MaxUInt64
<1>2. QED
  BY <1>1 DEF ToDouble

\* Cutting off the half of a double, for doubles that are whole and for all.
LEMMA Halves ==
  ASSUME NEW v, v.kind = "real", v.n \in Int
  PROVE  /\ Truncate(v) \in Int
         /\ IsIntegral(v) => 2 * Truncate(v) = v.n
         /\ \A low, high \in Int :
              low <= 0 /\ 0 <= high /\ 2 * low <= v.n /\ v.n < 2 * high + 2 =>
                Truncate(v) \in low..high
<1>1. PICK n \in Int : n = v.n
  OBVIOUS
<1>2. Truncate(v) = IF n >= 0 THEN n \div 2 ELSE -((-n) \div 2)
  BY <1>1 DEF Truncate
<1>3. IsIntegral(v) <=> n % 2 = 0
  BY <1>1 DEF IsIntegral
<1>4. QED
  BY <1>1, <1>2, <1>3

\* A real that is in range is cast to one value, if the type holds what is left of its halves.
LEMMA CastIsExact ==
  ASSUME NEW v, v.kind = "real", v.n \in Int, NEW low \in Int, NEW high \in Int,
         low <= 0, 0 <= high, 2 * low <= v.n, v.n < 2 * high + 2
  PROVE  Cast(v, low, high) = {Truncate(v)}
  BY Halves DEF Cast

\* What a scalar is, by its kind.
LEMMA ScalarParts ==
  ASSUME NEW v \in Scalars
  PROVE  /\ v.n \in Int
         /\ v.kind \in {"int", "uint", "real", "bool", "null", "string"}
         /\ v.kind = "int" => MinInt64 <= v.n /\ v.n <= ValueMaxLargestInt
         /\ v.kind = "uint" => 0 <= v.n /\ v.n <= MaxUInt64
         /\ v.kind = "null" => v.n = 0
  BY Limits, ValueAssumption DEF Scalars, Scalar

\* One conversion, of any type whose answers "isX" are sound for the scalar.
LEMMA ConversionAgrees ==
  ASSUME NEW v \in Scalars, NEW whole \in BOOLEAN, NEW low \in Int, NEW high \in Int,
         low <= 0, 0 <= high, ToDouble(low) = low, ToDouble(high) \in {high, high + 1},
         whole => Numeric(v),
         whole /\ v.kind = "real" =>
           InRange(v, low, high) /\ IsIntegral(v) /\ v.n < 2 * high + 2
  PROVE  LET as == Converted(v, whole, low, high)
         IN  /\ whole => as # {} /\ \A n \in as : 2 * n = Twice(v)
             /\ (v.kind = "real" /\ v.n = 2 * high + 2) \/ Cardinality(as) < 2
             /\ as # {} <=> \/ whole \/ v.kind \in {"bool", "null"}
                            \/ v.kind = "real" /\ InRange(v, low, high)
<1> DEFINE as == Converted(v, whole, low, high)
<1>0. v.n \in Int /\ v.kind \in {"int", "uint", "real", "bool", "null", "string"}
  BY ScalarParts
<1>1. \A S : S = {} \/ (\E n : S = {n}) => Cardinality(S) < 2
  <2> SUFFICES ASSUME NEW S, S = {} \/ \E n : S = {n} PROVE Cardinality(S) < 2
    OBVIOUS
  <2>1. CASE S = {}
    BY <2>1, FS_EmptySet
  <2>2. CASE \E n : S = {n}
    <3>1. Cardinality(S) = 1
      BY <2>2, FS_Singleton
    <3>2. QED
      BY <3>1
  <2>3. QED
    BY <2>1, <2>2
<1>2. CASE v.kind \in {"int", "uint"}
  <2>1. as = IF whole THEN {v.n} ELSE {}
    BY <1>2 DEF Converted
  <2>2. Twice(v) = 2 * v.n
    BY <1>2 DEF Twice
  <2> HIDE DEF as
  <2>3. Cardinality(as) < 2
    <3>1. CASE whole
      BY <1>1, <2>1, <3>1
    <3>2. CASE ~whole
      BY <1>1, <2>1, <3>2
    <3>3. QED
      BY <3>1, <3>2
  <2>4. whole => as # {} /\ \A n \in as : 2 * n = Twice(v)
    BY <2>1, <2>2
  <2>5. as # {} <=> whole
    BY <2>1
  <2>6. QED
    BY <1>2, <2>3, <2>4, <2>5 DEF as
<1>3. CASE v.kind = "real"
  <2>1. as = IF InRange(v, low, high) THEN Cast(v, low, high) ELSE {}
    BY <1>3 DEF Converted
  <2>2. Twice(v) = v.n
    BY <1>3 DEF Twice
  <2>3. Cast(v, low, high) # {}
    BY DEF Cast
  <2>4. ASSUME InRange(v, low, high), v.n # 2 * high + 2
        PROVE  as = {Truncate(v)}
    <3>1. 2 * low <= v.n /\ v.n < 2 * high + 2
      BY <1>0, <2>4 DEF InRange
    <3>2. QED
      BY <1>0, <1>3, <2>1, <2>4, <3>1, CastIsExact
  <2> HIDE DEF as
  <2>5. v.n = 2 * high + 2 \/ Cardinality(as) < 2
    <3>1. CASE InRange(v, low, high) /\ v.n # 2 * high + 2
      BY <1>1, <2>4, <3>1
    <3>2. CASE ~InRange(v, low, high)
      BY <1>1, <2>1, <3>2
    <3>3. QED
      BY <3>1, <3>2
  <2>6. ASSUME whole PROVE as # {} /\ \A n \in as : 2 * n = Twice(v)
    <3>1. InRange(v, low, high) /\ IsIntegral(v) /\ v.n # 2 * high + 2
      BY <1>0, <1>3, <2>6
    <3>2. 2 * Truncate(v) = v.n
      BY <1>0, <1>3, <3>1, Halves
    <3>3. QED
      BY <2>2, <2>4, <3>1, <3>2
  <2>7. as # {} <=> InRange(v, low, high)
    BY <2>1, <2>3
  <2>8. QED
    BY <1>3, <2>5, <2>6, <2>7 DEF as
<1>4. CASE v.kind \in {"bool", "null"}
  <2>1. PICK n : as = {n}
    BY <1>4 DEF Converted
  <2>2. ~whole
    BY <1>4 DEF Numeric
  <2> HIDE DEF as
  <2>3. Cardinality(as) < 2
    BY <1>1, <2>1
  <2>4. QED
    BY <1>4, <2>1, <2>2, <2>3 DEF as
<1>5. CASE v.kind = "string"
  <2>1. as = {} /\ ~whole
    BY <1>5 DEF Converted, Numeric
  <2> HIDE DEF as
  <2>2. Cardinality(as) < 2
    BY <1>1, <2>1
  <2>3. QED
    BY <1>5, <2>1, <2>2 DEF as
<1>6. QED
  BY <1>0, <1>2, <1>3, <1>4, <1>5

LEMMA ScalarsAgree == scalar \in Scalars => ConversionsAgree
<1> SUFFICES ASSUME scalar \in Scalars PROVE ConversionsAgree
  OBVIOUS
<1> DEFINE v == scalar
<1>0. v.n \in Int /\ v.kind \in {"int", "uint", "real", "bool", "null", "string"}
  BY ScalarParts
<1>1. /\ IsInt(v) \in BOOLEAN /\ (IsInt(v) => Numeric(v))
      /\ IsInt(v) /\ v.kind = "real" =>
           InRange(v, MinInt, ValueMaxInt) /\ IsIntegral(v) /\ v.n < 2 * ValueMaxInt + 2
  <2>1. CASE v.kind = "real"
    <3>1. /\ IsInt(v) \in BOOLEAN
          /\ IsInt(v) =>
               InRange(v, MinInt, ValueMaxInt) /\ IsIntegral(v) /\ v.n < 2 * ValueMaxInt + 2
      BY <1>0, <2>1, Limits DEF IsInt, InRange
    <3>2. QED
      BY <2>1, <3>1 DEF Numeric
  <2>2. CASE v.kind \in {"int", "uint"}
    BY <2>2 DEF IsInt, Numeric
  <2>3. CASE v.kind \notin {"int", "uint", "real"}
    BY <2>3 DEF IsInt
  <2>4. QED
    BY <2>1, <2>2, <2>3
<1>2. /\ IsUInt(v) \in BOOLEAN /\ (IsUInt(v) => Numeric(v))
      /\ IsUInt(v) /\ v.kind = "real" =>
           InRange(v, 0, MaxUInt) /\ IsIntegral(v) /\ v.n < 2 * MaxUInt + 2
  <2>1. CASE v.kind = "real"
    <3>1. /\ IsUInt(v) \in BOOLEAN
          /\ IsUInt(v) =>
               InRange(v, 0, MaxUInt) /\ IsIntegral(v) /\ v.n < 2 * MaxUInt + 2
      BY <1>0, <2>1, Limits DEF IsUInt, InRange
    <3>2. QED
      BY <2>1, <3>1 DEF Numeric
  <2>2. CASE v.kind \in {"int", "uint"}
    BY <2>2 DEF IsUInt, Numeric
  <2>3. CASE v.kind \notin {"int", "uint", "real"}
    BY <2>3 DEF IsUInt
  <2>4. QED
    BY <2>1, <2>2, <2>3
<1>3. /\ IsInt64(v) \in BOOLEAN /\ (IsInt64(v) => Numeric(v))
      /\ IsInt64(v) /\ v.kind = "real" =>
           InRange(v, MinInt64, ValueMaxLargestInt) /\ IsIntegral(v)
           /\ v.n < 2 * ValueMaxLargestInt + 2
  <2>1. CASE v.kind = "real"
    <3>1. /\ IsInt64(v) \in BOOLEAN
          /\ IsInt64(v) =>
               InRange(v, MinInt64, ValueMaxLargestInt) /\ IsIntegral(v)
           /\ v.n < 2 * ValueMaxLargestInt + 2
      BY <1>0, <2>1, Limits DEF IsInt64, InRange
    <3>2. QED
      BY <2>1, <3>1 DEF Numeric
  <2>2. CASE v.kind \in {"int", "uint"}
    <3>1. IsInt64(v) \in BOOLEAN
      <4>1. CASE v.kind = "int"
        <5>1. IsInt64(v) = (TRUE)
          BY <4>1 DEF IsInt64
        <5>2. QED
          BY <5>1
      <4>2. CASE v.kind = "uint"
        <5>1. IsInt64(v) = (v.n <= ValueMaxLargestInt)
          BY <4>2 DEF IsInt64
        <5>2. QED
          BY <5>1
      <4>3. QED
        BY <2>2, <4>1, <4>2
    <3>2. QED
      BY <2>2, <3>1 DEF Numeric
  <2>3. CASE v.kind \notin {"int", "uint", "real"}
    BY <2>3 DEF IsInt64
  <2>4. QED
    BY <2>1, <2>2, <2>3
<1>4. /\ IsUInt64(v) \in BOOLEAN /\ (IsUInt64(v) => Numeric(v))
      /\ IsUInt64(v) /\ v.kind = "real" =>
           InRange(v, 0, MaxUInt64) /\ IsIntegral(v) /\ v.n < 2 * MaxUInt64 + 2
  <2>1. CASE v.kind = "real"
    <3>1. /\ IsUInt64(v) \in BOOLEAN
          /\ IsUInt64(v) =>
               InRange(v, 0, MaxUInt64) /\ IsIntegral(v) /\ v.n < 2 * MaxUInt64 + 2
      BY <1>0, <2>1, Limits DEF IsUInt64, InRange
    <3>2. QED
      BY <2>1, <3>1 DEF Numeric
  <2>2. CASE v.kind \in {"int", "uint"}
    <3>1. IsUInt64(v) \in BOOLEAN
      <4>1. CASE v.kind = "int"
        <5>1. IsUInt64(v) = (v.n >= 0)
          BY <4>1 DEF IsUInt64
        <5>2. QED
          BY <5>1
      <4>2. CASE v.kind = "uint"
        <5>1. IsUInt64(v) = (TRUE)
          BY <4>2 DEF IsUInt64
        <5>2. QED
          BY <5>1
      <4>3. QED
        BY <2>2, <4>1, <4>2
    <3>2. QED
      BY <2>2, <3>1 DEF Numeric
  <2>3. CASE v.kind \notin {"int", "uint", "real"}
    BY <2>3 DEF IsUInt64
  <2>4. QED
    BY <2>1, <2>2, <2>3
<1> DEFINE Agrees(whole, as, low, high) ==
             /\ whole => as # {} /\ \A n \in as : 2 * n = Twice(v)
             /\ (v.kind = "real" /\ v.n = 2 * high + 2) \/ Cardinality(as) < 2
             /\ as # {} <=> \/ whole \/ v.kind \in {"bool", "null"}
                            \/ v.kind = "real" /\ InRange(v, low, high)
<1>5. Agrees(IsInt(v), AsInt(v), MinInt, ValueMaxInt)
  BY <1>1, Limits, ConversionAgrees DEF AsInt
<1>6. Agrees(IsUInt(v), AsUInt(v), 0, MaxUInt)
  BY <1>2, Limits, ConversionAgrees DEF AsUInt
<1>7. Agrees(IsInt64(v), AsInt64(v), MinInt64, ValueMaxLargestInt)
  BY <1>3, Limits, ConversionAgrees DEF AsInt64
<1>8. Agrees(IsUInt64(v), AsUInt64(v), 0, MaxUInt64)
  BY <1>4, Limits, ConversionAgrees DEF AsUInt64
\* The 32-bit limits are whole doubles: nothing lies just beyond them and in range.
<1>9. Cardinality(AsInt(v)) < 2 /\ Cardinality(AsUInt(v)) < 2
  <2>1. ASSUME v.kind = "real", v.n = 2 * ValueMaxInt + 2 PROVE AsInt(v) = {}
    <3>1. ~InRange(v, MinInt, ValueMaxInt)
      BY <2>1, Limits DEF InRange
    <3>2. QED
      BY <2>1, <3>1 DEF AsInt, Converted
  <2>2. ASSUME v.kind = "real", v.n = 2 * MaxUInt + 2 PROVE AsUInt(v) = {}
    <3>1. ~InRange(v, 0, MaxUInt)
      BY <2>2, Limits DEF InRange
    <3>2. QED
      BY <2>2, <3>1 DEF AsUInt, Converted
  <2>3. Cardinality({}) = 0
    BY FS_EmptySet
  <2>4. QED
    BY <1>5, <1>6, <2>1, <2>2, <2>3
<1>10. \/ v.kind = "real" /\ v.n \in {2 * ToDouble(ValueMaxLargestInt), 2 * ToDouble(MaxUInt64)}
       \/ Cardinality(AsInt64(v)) < 2 /\ Cardinality(AsUInt64(v)) < 2
  <2>1. /\ 2 * ToDouble(ValueMaxLargestInt) = 2 * ValueMaxLargestInt + 2
        /\ 2 * ToDouble(MaxUInt64) = 2 * MaxUInt64 + 2
    BY Limits
  <2>2. QED
    BY <1>7, <1>8, <2>1
<1>11. /\ IsConvertibleTo(v, "int") <=> AsInt(v) # {}
       /\ IsConvertibleTo(v, "uint") <=> AsUInt(v) # {}
  BY <1>5, <1>6 DEF IsConvertibleTo
<1>12. /\ IsConvertibleTo(v, "bool") <=> AsBool(v) # {}
       /\ IsConvertibleTo(v, "null") /\ v.kind # "string" => AsBool(v) = {FALSE}
  <2>1. AsBool(v) = IF Numeric(v) \/ v.kind \in {"bool", "null"} THEN {v.n # 0} ELSE {}
    BY DEF AsBool
  <2>2. IsConvertibleTo(v, "bool") <=> Numeric(v) \/ v.kind \in {"bool", "null"}
    BY DEF IsConvertibleTo
  <2>3. IsConvertibleTo(v, "null") /\ v.kind # "string" =>
          v.n = 0 /\ (Numeric(v) \/ v.kind \in {"bool", "null"})
    BY ScalarParts DEF IsConvertibleTo
  <2>4. QED
    BY <2>1, <2>2, <2>3
<1>13. QED
  BY <1>5, <1>6, <1>7, <1>8, <1>9, <1>10, <1>11, <1>12 DEF ConversionsAgree

\* Where isX answers yes, asX returns the very value, and asX casts no double that its type
\* cannot hold but the two just beyond the 64-bit types, for integers of any width and any
\* doubles (Value::isInt to isUInt64, asInt to asUInt64, asBool, isConvertibleTo).
THEOREM ConversionsAreExact == ValueSpec => []ConversionsAgree
<1> DEFINE Known == scalar \in Scalars
<1>1. ValueInit => Known
  BY DEF ValueInit
<1>2. Known /\ [ArrayNext]_valueVars => Known'
  <2> SUFFICES ASSUME Known, [ArrayNext]_valueVars PROVE Known'
    OBVIOUS
  <2>1. scalar' = scalar
    BY DEF ArrayNext, DoAssign, DoTouch, DoAppend, DoInsert, DoRemove, DoResize, Operate, valueVars
  <2>2. QED
    BY <2>1 DEF Scalars
<1>3. Known => ConversionsAgree
  BY ScalarsAgree
<1>4. QED
  BY <1>1, <1>2, <1>3, PTL DEF ValueSpec

=============================================================================
