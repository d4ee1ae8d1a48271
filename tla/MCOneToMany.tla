---------------------------- MODULE MCOneToMany ----------------------------
(* Instance of OneToMany for TLC.                                           *)
EXTENDS OneToMany

Rr(s) == [kind |-> "rr", source |-> s, from |-> 7, rate |-> 0]
Remb == [kind |-> "remb", source |-> 0, from |-> 7, rate |-> 2]
EmptyRr == [kind |-> "emptyRr", source |-> 0, from |-> 7, rate |-> 0]

SomeFeedback == {<<Rr(2), Rr(1)>>, <<Rr(9)>>, <<Remb>>, <<EmptyRr>>}

\* One transport; two of them and no SSRC in the description; video alone.
SomeDescriptions ==
  {[bundle |-> TRUE, sections |-> Media, named |-> Media],
   [bundle |-> FALSE, sections |-> Media, named |-> {}],
   [bundle |-> FALSE, sections |-> {"video"}, named |-> {"video"}]}
=============================================================================
