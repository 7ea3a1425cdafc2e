-------------------------------- MODULE Gestures --------------------------------
(***************************************************************************)
(* From a click on a viewer's canvas to the inputs the agent is sent:      *)
(* coordinates (remote_control/coordinate_mapper.py), gestures             *)
(* (gesture_router.py) and the events made of them (manager.py), as pure   *)
(* operators.                                                              *)
(*                                                                         *)
(* A normalised coordinate is a fraction <<n, d>> with d > 0; the floats   *)
(* that the code rounds are exact here.  Canvas coordinates are integers   *)
(* of any unit, which is also that of the canvas.  Durations are left out. *)
(***************************************************************************)
EXTENDS Integers, Sequences

\* A display is [width, height, rotation, bar], where bar is the height of
\* the status bar; a canvas is [width, height]; a point is <<x, y>>.
Directions == {"swipe_up", "swipe_down", "swipe_left", "swipe_right"}
Scrolls == {"scroll_up", "scroll_down"}
KeyGestures == {"back", "home", "recents", "power", "volume_up", "volume_down", "screenshot"}
Panels == {"open_notifications", "open_quick_settings"}
Names == Directions \cup Scrolls \cup KeyGestures \cup Panels
            \cup {"tap", "double_tap", "long_press", "swipe", "text", "unknown"}

Larger(a, b) == IF a > b THEN a ELSE b
Smaller(a, b) == IF a < b THEN a ELSE b
Clamped(n, size) == Larger(0, Smaller(size - 1, n))
\* int() of a fraction: towards zero.
Truncated(n, d) == IF n >= 0 THEN n \div d ELSE -((-n) \div d)

-----------------------------------------------------------------------------
(* Coordinates. *)

Flat(dev, view) == \E n \in {view.width, view.height, dev.width, dev.height} : n <= 0
Wider(dev, view) == dev.width * view.height > view.width * dev.height

Along(n, size) == IF size > 0 THEN <<n, size>> ELSE <<0, 1>>

\* Mutant of Normalised: the bars are not halved.
MutNormalised(dev, view, p) ==
    IF Wider(dev, view)
    THEN <<Along(p[1], view.width),
           <<p[2] * dev.width - view.height * dev.width + view.width * dev.height,
             view.width * dev.height>>>>
    ELSE <<<<p[1] * dev.height - view.width * dev.height + view.height * dev.width,
             view.height * dev.width>>,
           Along(p[2], view.height)>>

\* The picture fills the canvas in one direction; in the other it leaves two
\* bars of the same width.  Sizes that are not positive leave no bars.
Normalised(dev, view, p) ==
    IF Flat(dev, view) THEN <<Along(p[1], view.width), Along(p[2], view.height)>>
    ELSE IF Wider(dev, view)
    THEN <<<<p[1], view.width>>,
           <<2 * p[2] * dev.width - view.height * dev.width + view.width * dev.height,
             2 * view.width * dev.height>>>>
    ELSE <<<<2 * p[1] * dev.height - view.width * dev.height + view.height * dev.width,
             2 * view.height * dev.width>>,
           <<p[2], view.height>>>>

Inside(f) == 0 <= f[1] /\ f[1] <= f[2]

\* On the picture.
Valid(dev, view, p) ==
    IF Flat(dev, view)
    THEN /\ 0 <= p[1] /\ p[1] <= view.width
         /\ 0 <= p[2] /\ p[2] <= view.height
    ELSE Inside(Normalised(dev, view, p)[1]) /\ Inside(Normalised(dev, view, p)[2])

FromEnd(f) == <<f[2] - f[1], f[2]>>

Rotated(rotation, p) ==
    CASE rotation = 90 -> <<p[2], FromEnd(p[1])>>
      [] rotation = 180 -> <<FromEnd(p[1]), FromEnd(p[2])>>
      [] rotation = 270 -> <<FromEnd(p[2]), p[1]>>
      [] rotation \notin {90, 180, 270} -> p

\* The pixel of a normalised point.
Pixel(dev, n) ==
    LET r == Rotated(dev.rotation, n)
    IN  <<Clamped((r[1][1] * dev.width) \div r[1][2], dev.width),
          Clamped(((r[2][1] * dev.height) \div r[2][2]) + dev.bar, dev.height)>>

\* map, for a valid click.
Map(dev, view, p) == Pixel(dev, Normalised(dev, view, p))

-----------------------------------------------------------------------------
(* Gestures.  A step that needs no place has none; delay says whether the    *)
(* step waits before it is sent.                                             *)

Place == {"tap", "swipe"}
Tap(p) == [action |-> "tap", from |-> p, to |-> p, delay |-> "no"]
Swipe(p, q) == [action |-> "swipe", from |-> p, to |-> q, delay |-> "no"]
Press(key) == [action |-> "keyevent", key |-> key, delay |-> "no"]
Type(text) == [action |-> "text", text |-> text, delay |-> "no"]
Later(step) == [step EXCEPT !.delay = "yes"]

Done(steps) == [success |-> TRUE, steps |-> steps]
Refused == [success |-> FALSE, steps |-> <<>>]

KeySteps(gesture) ==
    IF gesture = "screenshot" THEN <<Press("power"), Later(Press("volume_down"))>>
    ELSE <<Press(gesture)>>

\* Down from the middle of the upper edge.
PanelStep(dev, gesture) ==
    Swipe(<<dev.width \div 2, 0>>,
          <<dev.width \div 2, dev.height \div (IF gesture = "open_notifications" THEN 3 ELSE 2)>>)

\* distance is in hundredths of the longer side.
DirectionalEnd(dev, direction, p, distance) ==
    LET dist == Truncated(distance * Larger(dev.width, dev.height), 100)
        toward(back, on) == IF direction = back THEN -dist ELSE IF direction = on THEN dist ELSE 0
        dx == toward("swipe_left", "swipe_right")
        dy == toward("swipe_up", "swipe_down")
    IN  <<Clamped(p[1] + dx, dev.width), Clamped(p[2] + dy, dev.height)>>

\* scroll_down drags the picture up.
ScrollEnd(dev, direction, p) ==
    <<p[1], IF direction = "scroll_down" THEN Larger(0, p[2] - (dev.height \div 6))
            ELSE Smaller(dev.height - 1, p[2] + (dev.height \div 6))>>

ScrollSteps(dev, direction, p, count) ==
    [i \in 1..count |-> IF i = 1 THEN Swipe(p, ScrollEnd(dev, direction, p))
                        ELSE Later(Swipe(p, ScrollEnd(dev, direction, p)))]

\* The gestures that begin at a pixel.
RouteFrom(gesture, dev, view, p, click2, params) ==
    CASE gesture = "tap" -> Done(<<Tap(p)>>)
      [] gesture = "double_tap" -> Done(<<Tap(p), Later(Tap(p))>>)
      [] gesture = "long_press" -> Done(<<Swipe(p, p)>>)
      [] gesture = "swipe" ->
            IF Valid(dev, view, click2) THEN Done(<<Swipe(p, Map(dev, view, click2))>>)
            ELSE Refused
      [] gesture \in Directions ->
            Done(<<Swipe(p, DirectionalEnd(dev, gesture, p, params.distance))>>)
      [] gesture \in Scrolls -> Done(ScrollSteps(dev, gesture, p, params.count))
      [] gesture = "text" -> IF params.text = "" THEN Refused ELSE Done(<<Type(params.text)>>)
      [] gesture = "unknown" -> Refused

Route(gesture, dev, view, click, click2, params) ==
    CASE gesture \in KeyGestures -> Done(KeySteps(gesture))
      [] gesture \in Panels -> Done(<<PanelStep(dev, gesture)>>)
      [] gesture \notin KeyGestures \cup Panels ->
            IF Valid(dev, view, click)
            THEN RouteFrom(gesture, dev, view, Map(dev, view, click), click2, params)
            ELSE Refused

\* _step_to_event divides pixels by these, whatever the display.
EventWidth == 1920
EventHeight == 1080

-----------------------------------------------------------------------------
(* What a step and a mapping should be. *)

OnScreen(dev, p) == p[1] \in 0..(dev.width - 1) /\ p[2] \in 0..(dev.height - 1)

StepOnScreen(dev, step) ==
    step.action \in Place => OnScreen(dev, step.from) /\ OnScreen(dev, step.to)

\* The event of a pixel is a fraction of the screen, as the agent expects.
InUnit(p) == p[1] < EventWidth /\ p[2] < EventHeight

\* A quarter turn swaps the sides of the picture that a viewer sees.
OnItsSide(dev) == dev.rotation \in {90, 270}
Picture(dev) == IF OnItsSide(dev) THEN [width |-> dev.height, height |-> dev.width]
                ELSE [width |-> dev.width, height |-> dev.height]

\* The mapper fits the display as it is, and does not swap its sides.
KeepsShape(dev) == OnItsSide(dev) => dev.width = dev.height

\* Where a viewer sees the middle of pixel p, when the unit is 1/(2wwhh) of
\* the canvas's: the picture turned by its rotation, then fitted with the sides
\* it has then, and centred.  The direction of the turn is the mapper's.
Seen(dev, view, p) ==
    LET w == dev.width
        h == dev.height
        unit == 2 * w * w * h * h
        u == (2 * p[1] + 1) * w * h * h
        v == (2 * p[2] + 1) * w * w * h
        at == CASE dev.rotation = 90 -> <<unit - v, u>>
                [] dev.rotation = 180 -> <<unit - u, unit - v>>
                [] dev.rotation = 270 -> <<v, unit - u>>
                [] OTHER -> <<u, v>>
        sw == Picture(dev).width
        sh == Picture(dev).height
        fitsWidth == view.width * sh <= view.height * sw
        pictureW == IF fitsWidth THEN view.width * unit ELSE view.height * 2 * sw * sw * sw * sh
        pictureH == IF fitsWidth THEN view.width * 2 * sw * sh * sh * sh ELSE view.height * unit
    IN  <<((view.width * unit - pictureW) \div 2) + ((at[1] * pictureW) \div unit),
          ((view.height * unit - pictureH) \div 2) + ((at[2] * pictureH) \div unit)>>

Magnified(dev, view) ==
    LET n == 2 * dev.width * dev.width * dev.height * dev.height
    IN  [width |-> view.width * n, height |-> view.height * n]

\* A click on the middle of a pixel, as the viewer sees it, is on the picture
\* and is mapped to that pixel, further down by the height of the status bar.
HitsPixels(dev, view) ==
    LET canvas == Magnified(dev, view)
    IN  \A p \in (0..(dev.width - 1)) \X (0..(dev.height - 1)) :
            /\ Valid(dev, canvas, Seen(dev, view, p))
            /\ Map(dev, canvas, Seen(dev, view, p)) = <<p[1], Clamped(p[2] + dev.bar, dev.height)>>
================================================================================
