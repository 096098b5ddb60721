--------------------------- MODULE MCMemoryService ---------------------------
EXTENDS MemoryService

MCMembers == [s \in Sessions |-> <<"a1", "a2">>]
MCProjectOf == [s \in Sessions |-> "p1"]
MCStable == [a \in Agents |-> IF a = "a1" THEN 1 ELSE 0]
MCMaxMessages == [s \in Sessions |-> 2]
MCRequests ==
  {[agent |-> a, project |-> p, query |-> q, topK |-> t[1], depth |-> t[2]] :
     a \in Agents, p \in Projects \cup {""}, q \in BOOLEAN,
     t \in {<<0, "principles">>, <<1, "episodes">>, <<3, "full">>}}
==============================================================================
