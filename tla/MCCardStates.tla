----------------------------- MODULE MCCardStates -----------------------------
(* An instance of CardStates for TLC: two home decks, one with steps on both  *)
(* sides of a day boundary and one without any.                              *)
EXTENDS CardStates

Steps == [d \in Homes |-> IF d = "home" THEN <<1, 1>> ELSE <<>>]
Resteps == [d \in Homes |-> IF d = "home" THEN <<1>> ELSE <<>>]
Start == -100000
Delays == [r \in {"again", "hard", "good"} |-> IF r = "good" THEN 0 ELSE 1]

\* Nothing is said of a card once a number of it was misread.
Trusted == ~misread
=============================================================================
