-------------------------- MODULE MCRegionFailover --------------------------
EXTENDS RegionFailover

\* Endpoint "b" is preferred, "a" has no priority, "c" comes after "b".
Preferred == [ep \in Endpoints |-> IF ep = "b" THEN 1 ELSE IF ep = "a" THEN 0 ELSE 2]

\* The whole fleet; a boundary that shrank; another order and no home.
TheLists == {[eps |-> <<"a", "b", "c">>, home |-> "a"],
             [eps |-> <<"b", "c">>, home |-> "b"],
             [eps |-> <<"c", "a">>, home |-> None]}

TheSeed == [eps |-> <<"a", "b">>, home |-> "a"]

\* The agents, without and with the terminal fail-open, and the Edge.
ThePostures ==
  {[agent |-> TRUE,  deny |-> TRUE,  instant |-> TRUE,  open |-> FALSE],
   [agent |-> TRUE,  deny |-> TRUE,  instant |-> TRUE,  open |-> TRUE],
   [agent |-> FALSE, deny |-> FALSE, instant |-> FALSE, open |-> FALSE]}
==============================================================================
