-------------------------------- MODULE Grid --------------------------------
(***************************************************************************)
(* GridService.split and GeoService: the cells an image is cut into, one   *)
(* worker each.  The loop runs over doubles that hold integers; here they  *)
(* are integers, and so are the coordinates of the area of interest, for   *)
(* which the instances choose spans that the image sizes divide.           *)
(*                                                                         *)
(* A cell is not clipped at the border of the image.                       *)
(***************************************************************************)
EXTENDS Integers, Sequences

CONSTANTS
  CellSizeX, CellSizeY,  \* CELL_WIDTH, CELL_HEIGHT
  ImageSizes,            \* image sizes in requests; nothing forbids zero or less
  Aoi                    \* areas of interest in requests

Point == [x : Int, y : Int]

ASSUME GridAssumption ==
  /\ CellSizeX \in Nat \ {0} /\ CellSizeY \in Nat \ {0}
  /\ ImageSizes \subseteq Int
  /\ \A aoi \in Aoi :
       aoi.upperLeft \in Point /\ aoi.upperRight \in Point /\ aoi.lowerLeft \in Point

VARIABLES
  sizeX, sizeY, aoi,  \* the request
  x, y,               \* loop variables of split
  cells,
  phase

request == <<sizeX, sizeY, aoi>>
vars    == <<request, x, y, cells, phase>>

Phase == {"columns", "rows", "check", "returned", "thrown"}

GeoTransform == [oriX : Int, oriY : Int, resX : Int, resY : Int, skewX : Int, skewY : Int]

\* x and y are the cell's first pixel in the image, which the code does not keep (oriX and
\* oriY of its Cell are never set).
Cell == [x : Nat, y : Nat, sizeX : Nat, sizeY : Nat, geoTransform : GeoTransform]

-----------------------------------------------------------------------------
(* GeoService. *)

GetGeoTransform(sx, sy, a) ==
  [oriX |-> a.upperLeft.x, oriY |-> a.upperLeft.y,
   resX |-> (a.upperRight.x - a.upperLeft.x) \div sx,
   resY |-> (a.lowerLeft.y - a.upperLeft.y) \div sy,
   skewX |-> 0, skewY |-> 0]

\* Mutant: the resolutions are swapped.
ToGeoSwapped(px, py, g) ==
  [x |-> g.oriX + px * g.resY + py * g.skewX,
   y |-> g.oriY + px * g.skewY + py * g.resX]

ToGeo(px, py, g) ==
  [x |-> g.oriX + px * g.resX + py * g.skewX,
   y |-> g.oriY + px * g.skewY + py * g.resY]

-----------------------------------------------------------------------------
(* GridService.split, for one request. *)

Init ==
  /\ sizeX \in ImageSizes /\ sizeY \in ImageSizes /\ aoi \in Aoi
  /\ x = 0 /\ y = 0
  /\ cells = <<>>
  /\ phase = "columns"

\* Mutant: y is declared outside of the loop over x.
StartColumnWithoutReset ==
  /\ phase = "columns" /\ x < sizeX
  /\ phase' = "rows"
  /\ UNCHANGED <<request, x, y, cells>>

StartColumn ==
  /\ phase = "columns" /\ x < sizeX
  /\ y' = 0
  /\ phase' = "rows"
  /\ UNCHANGED <<request, x, cells>>

NewCell ==
  LET g      == GetGeoTransform(sizeX, sizeY, aoi)
      origin == ToGeo(x, y, g)
  IN  [x |-> x, y |-> y, sizeX |-> CellSizeX, sizeY |-> CellSizeY,
       geoTransform |-> [g EXCEPT !.oriX = origin.x, !.oriY = origin.y]]

AddCell ==
  /\ phase = "rows" /\ y < sizeY
  /\ cells' = Append(cells, NewCell)
  /\ y' = y + CellSizeY
  /\ UNCHANGED <<request, x, phase>>

EndColumn ==
  /\ phase = "rows" /\ y >= sizeY
  /\ x' = x + CellSizeX
  /\ phase' = "columns"
  /\ UNCHANGED <<request, y, cells>>

EndColumns ==
  /\ phase = "columns" /\ x >= sizeX
  /\ phase' = "check"
  /\ UNCHANGED <<request, x, y, cells>>

ThrowEmptyGrid ==
  /\ phase = "check" /\ cells = <<>>
  /\ phase' = "thrown"
  /\ UNCHANGED <<request, x, y, cells>>

ReturnGrid ==
  /\ phase = "check" /\ cells # <<>>
  /\ phase' = "returned"
  /\ UNCHANGED <<request, x, y, cells>>

Finished == phase \in {"returned", "thrown"} /\ UNCHANGED vars

Next ==
  \/ StartColumn \/ AddCell \/ EndColumn \/ EndColumns
  \/ ThrowEmptyGrid \/ ReturnGrid
  \/ Finished

Spec == Init /\ [][Next]_vars

-----------------------------------------------------------------------------
(* Properties. *)

TypeOK ==
  /\ sizeX \in ImageSizes /\ sizeY \in ImageSizes /\ aoi \in Aoi
  /\ x \in Nat /\ y \in Nat
  /\ cells \in Seq(Cell)
  /\ phase \in Phase

InImage(px, py) == 0 <= px /\ px < sizeX /\ 0 <= py /\ py < sizeY

Holds(c, px, py) ==
  /\ c.x <= px /\ px < c.x + c.sizeX
  /\ c.y <= py /\ py < c.y + c.sizeY

\* The tiles cover the image and do not overlap: each pixel is the work of exactly one
\* worker, whether or not the cell sizes divide the image sizes.
EveryPixelInOneCell ==
  phase = "returned" =>
    \A px \in 0..(sizeX - 1), py \in 0..(sizeY - 1) :
      /\ \E i \in DOMAIN cells : Holds(cells[i], px, py)
      /\ \A i, j \in DOMAIN cells :
           Holds(cells[i], px, py) /\ Holds(cells[j], px, py) => i = j

\* No worker is started for nothing: every cell has a pixel of the image.
NoCellWithoutPixel ==
  \A i \in DOMAIN cells : InImage(cells[i].x, cells[i].y)

\* split throws exactly for the images that have no pixel, and a grid that is returned has a
\* cell: the division by the number of workers in the tracker is safe.
EmptyMeansNoPixel ==
  /\ phase = "returned" => sizeX > 0 /\ sizeY > 0 /\ cells # <<>>
  /\ phase = "thrown" => sizeX <= 0 \/ sizeY <= 0

\* Where a pixel of the image lies, read off the area of interest.
GeoOf(px, py) ==
  [x |-> aoi.upperLeft.x + (px * (aoi.upperRight.x - aoi.upperLeft.x)) \div sizeX,
   y |-> aoi.upperLeft.y + (py * (aoi.lowerLeft.y - aoi.upperLeft.y)) \div sizeY]

\* The transform of a cell puts its corners (what the worker warps to) where the area of
\* interest has them: neighbouring tiles meet and the grid fills the area.
CellsAreGeoreferenced ==
  \A i \in DOMAIN cells : \A a \in {0, CellSizeX}, b \in {0, CellSizeY} :
    ToGeo(a, b, cells[i].geoTransform) = GeoOf(cells[i].x + a, cells[i].y + b)

=============================================================================
