------------------------------ MODULE CookiesMC ------------------------------
(* Two cookies of one name and domain from different servers, so that one   *)
(* replaces the other, and a third of another domain.                       *)
EXTENDS Cookies

MCKinds == {[name |-> "a", domain |-> "d", server |-> "s"],
            [name |-> "a", domain |-> "d", server |-> "t"],
            [name |-> "a", domain |-> "e", server |-> "s"]}

DatesOnly == {"expires"}
=============================================================================
