------------------------------- MODULE MCDeck -------------------------------
EXTENDS Deck

(* A pack of two types with three cards each, as the file lays it out. *)
SmallFile == <<RangeOf(0, 2, Club), RangeOf(3, 5, Diamond)>>
NoFile == <<>>
=============================================================================
