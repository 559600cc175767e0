----------------------------- MODULE MCSpiFlash -----------------------------
(* Two kinds of text of every interesting length; three sectors of two pages. *)
EXTENDS SpiFlash

Zero == {}
Ones == Bits

MCTexts ==
  UNION {{[i \in 1..n |-> Zero], [i \in 1..n |-> IF i % 2 = 0 THEN Zero ELSE Ones]} :
           n \in {0, 1, 3, 6, 9}}

=============================================================================
