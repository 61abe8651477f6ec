--------------------------- MODULE MCSearchLadder ---------------------------
(***************************************************************************)
(* Words for SearchLadder: the tables' own kinds of them.                  *)
(***************************************************************************)
EXTENDS SearchLadder

CONSTANTS laptops, laptop, phones, samsung, tv, Laptops, Phones

\* A plural with a literal form, two words that are categories, a name and a
\* word too short for a search of its own.
MCWord == {laptops, laptop, phones, samsung, tv}
MCCategory == {Laptops, Phones}

MCLetters == [w \in MCWord |->
    CASE w = laptops -> 7
      [] w = laptop -> 6
      [] w = phones -> 6
      [] w = samsung -> 7
      [] w = tv -> 2]

MCCanon == [w \in MCWord |-> IF w = laptops THEN laptop ELSE w]

MCCategoryOf == [w \in MCWord |->
    CASE w = laptop -> Laptops
      [] w = phones -> Phones
      [] OTHER -> None]

=============================================================================
