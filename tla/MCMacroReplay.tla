--------------------------- MODULE MCMacroReplay ---------------------------
(* A small instance of MacroReplay for TLC: a form with two buttons, one   *)
(* before the other and a label between them, and a screen of another size *)
(* with a keyboard.  One name matches the button behind and the label, the *)
(* other the label alone.                                                  *)
EXTENDS MacroReplay, TLC

CONSTANTS x, y, z, k, form, typing

LayoutOfThese == (form :> <<x, z, y>>) @@ (typing :> <<k, x>>)
BoundsOfThese ==
  (form :> ((x :> <<0, 0, 4, 2>>) @@ (y :> <<1, 0, 4, 3>>) @@ (z :> <<0, 1, 4, 3>>)))
    @@ (typing :> ((k :> <<0, 2, 6, 4>>) @@ (x :> <<0, 0, 6, 3>>)))
FitsOfThese == ("search" :> {x, z}) @@ ("results" :> {z})
SizeOfThese == (form :> "tall") @@ (typing :> "wide")
=============================================================================
