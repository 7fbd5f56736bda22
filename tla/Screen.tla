------------------------------- MODULE Screen -------------------------------
(***************************************************************************)
(* What SurfaceDemo and SoftwareRendererDemo promise their audience,       *)
(* without buffers: the pictures of the file come to the screen in order,  *)
(* each once, and what is on its way is not changed any more, until the    *)
(* layer goes.  Before the first picture, and instead of empty ones, there *)
(* is 0.                                                                   *)
(***************************************************************************)
EXTENDS Naturals, Sequences

VARIABLES file,        \* the number of pictures in the file
          lost,        \* may pictures have been dropped on the way?
          way,         \* the pictures on their way to the screen
          screen,      \* the picture on the screen
          open         \* is the layer there?

vars == <<file, lost, way, screen, open>>

Last == IF way = <<>> THEN screen ELSE way[Len(way)]

Init == file \in Nat /\ lost = FALSE /\ way = <<>> /\ screen = 0 /\ open = TRUE

Lose == open /\ lost' = TRUE /\ UNCHANGED <<file, way, screen, open>>

Bring(p) ==
    /\ open
    /\ \/ p = Last + 1
       \/ p = 0 /\ Last = 0
       \/ lost /\ p > Last
    /\ way' = Append(way, p)
    /\ UNCHANGED <<file, lost, screen, open>>

Show ==
    /\ open /\ way # <<>> /\ screen' = Head(way) /\ way' = Tail(way)
    /\ UNCHANGED <<file, lost, open>>

Close ==
    /\ open /\ open' = FALSE /\ way' = <<>> /\ screen' = 0
    /\ UNCHANGED <<file, lost>>

Next == Lose \/ Show \/ Close \/ \E p \in 0 .. file : Bring(p)

Spec == Init /\ [][Next]_vars
=============================================================================
