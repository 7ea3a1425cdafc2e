------------------------------- MODULE MCRecords -------------------------------
(* Eight parts of the server that share no state: pairs of two devices,       *)
(* graphs of three, streams, keys, tokens, screenshots, lists and clicks.      *)
(* Each behaviour runs one of them, so that the states are the sum of theirs, *)
(* not the product.  A graph is left as it was loaded, and a list when it has *)
(* been read.                                                                 *)
EXTENDS Pairing, Streams, Registration, Tokens, Screenshots, Lists, CoordinateMapper

CONSTANTS d1, d2, d3, t1, p1, p2, p3, q1, q2, x1, x2, x3, c1, c2, k1, k2, k3, g1, g2,
          r1, r2, h1, i1, i2, u1, u2, a1, a2, o1

VARIABLE part

MCDevices == {d1, d2, d3}
MCStreamDevices == {d1, d2}
MCTypes == {t1}
MCIds == {p1, p2, p3}
MCCalls == {q1, q2}
MCAsked == {d1, d2} \X {d1, d2} \X MCTypes
MCStreams == {x1, x2, x3}
MCEnders == {c1, c2}
MCKeys == {k1, k2, k3}
MCTags == {g1, g2}
MCRequests == {r1, r2}
MCShots == {h1}
MCImages == {i1, i2}
MCUploads == {u1, u2}
MCSerials == {a1, a2}
MCResolvers == {o1}
MCTokenRequests == {r1, r2}

MCScreens == [width : 1..3, height : 1..3, rotation : {0, 90, 180, 270}, bar : {0, 1}]
MCViews == [width : 0..4, height : 1..4]

Parts == {"pairs", "graph", "streams", "keys", "tokens", "screenshots", "lists", "clicks"}

\* The one mapper of the other parts.
StillDisplay == [width |-> 1, height |-> 1, rotation |-> 0, bar |-> 0]
StillView == [width |-> 1, height |-> 1]

\* Only the part that is run starts in all of its states; each restriction
\* follows its variables at once, so that TLC never builds the product.
MCInit ==
    /\ part \in Parts
    /\ MapperInit /\ (part # "clicks" => display = StillDisplay /\ viewport = StillView)
    /\ PairInit
    /\ part # "graph" =>
          \A p \in Ids : row[p] = NoRow \/ (part = "pairs" /\ row[p].key \in Asked)
    /\ StreamInit /\ (part # "streams" => \A s, r \in Streams : stream[s] = stream[r])
    /\ RegInit /\ (part # "keys" => device = NoRowYet)
    /\ TokenInit /\ ShotInit
    /\ ListInit /\ (part # "lists" => list = "logs") /\ query.serial # a2

MCNext ==
    /\ UNCHANGED part
    /\ IF part = "clicks" THEN MapperNext ELSE UNCHANGED mapperVars
    /\ IF part = "pairs" THEN PairNext ELSE UNCHANGED pairVars
    /\ IF part = "streams" THEN StreamNext ELSE UNCHANGED streamVars
    /\ IF part = "keys" THEN RegNext ELSE UNCHANGED regVars
    /\ IF part = "tokens" THEN TokenNext ELSE UNCHANGED tokenVars
    /\ IF part = "screenshots" THEN ShotNext ELSE UNCHANGED shotVars
    /\ IF part = "lists" /\ walk.state = "on" THEN ListNext ELSE UNCHANGED listVars

MCSpec ==
    MCInit /\ [][MCNext]_<<part, pairVars, streamVars, regVars, tokenVars, shotVars, listVars, mapperVars>>
================================================================================
