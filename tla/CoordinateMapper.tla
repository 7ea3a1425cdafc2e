---------------------------- MODULE CoordinateMapper ----------------------------
(***************************************************************************)
(* The mapper that a control session keeps for its device and its viewer   *)
(* (remote_control/coordinate_mapper.py, ControlSession in manager.py):    *)
(* the display may turn and the canvas may be resized at any time, and     *)
(* clicks are mapped with the projection that was computed last.           *)
(*                                                                         *)
(* The offsets and sizes of a projection are functions of the display and  *)
(* the canvas that it was computed for, and stand for them here.           *)
(***************************************************************************)
EXTENDS Gestures

CONSTANTS Screens, Views   \* displays and canvases, of sizes that may be wrong

ASSUME MapperAssumption ==
    /\ Screens \subseteq [width : Int, height : Int, rotation : Int, bar : Nat]
    /\ Views \subseteq [width : Int, height : Int]

VARIABLES
    display,    \* _device
    viewport,   \* _viewport
    projection  \* what _compute_projection found in them

mapperVars == <<display, viewport, projection>>

Projection(dev, view) == [display |-> dev, viewport |-> view]

MapperInit ==
    /\ display \in Screens
    /\ viewport \in Views
    /\ projection = Projection(display, viewport)

\* Mutant of UpdateDevice: the projection is that of the old display.
MutUpdateDevice(dev) ==
    /\ display' = dev
    /\ UNCHANGED <<viewport, projection>>

UpdateDevice(dev) ==
    /\ display' = dev
    /\ projection' = Projection(dev, viewport)
    /\ UNCHANGED viewport

UpdateViewport(view) ==
    /\ viewport' = view
    /\ projection' = Projection(display, view)
    /\ UNCHANGED display

MapperNext ==
    \/ \E dev \in Screens : UpdateDevice(dev)
    \/ \E view \in Views : UpdateViewport(view)

MapperSpec == MapperInit /\ [][MapperNext]_mapperVars

\* map, of a point in the units of Magnified: it is valid on the projection,
\* and is turned and scaled to the display.
Projected == Magnified(display, projection.viewport)
Reaches(p) == Valid(projection.display, Projected, p)
Lands(p) == Pixel(display, Normalised(projection.display, Projected, p))

-----------------------------------------------------------------------------
\* coordinate_mapper.py:3-25: after any rotations and resizes, a click on the
\* middle of a pixel, as the viewer sees it, is mapped to that pixel, below the
\* status bar if there is one, whatever the sizes of the display and the canvas;
\* of a display on its side only if it is square, as the mapper fits the others
\* with their sides unswapped and may miss.
RoundTrip ==
    ~Flat(display, viewport) /\ KeepsShape(display) =>
        \A p \in (0..(display.width - 1)) \X (0..(display.height - 1)) :
            LET seen == Seen(display, viewport, p)
            IN  /\ Reaches(seen)
                /\ Lands(seen) = <<p[1], Clamped(p[2] + display.bar, display.height)>>
================================================================================
