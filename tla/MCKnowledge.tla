----------------------------- MODULE MCKnowledge -----------------------------
EXTENDS Knowledge

MCGroupOf == [p \in {"p1", "default"} |-> IF p = "p1" THEN "g1" ELSE "g0"]
MCDocuments == {[project |-> "p1", text |-> TRUE, parses |-> TRUE],
                [project |-> "p1", text |-> FALSE, parses |-> TRUE],
                [project |-> "", text |-> TRUE, parses |-> TRUE],
                [project |-> "", text |-> TRUE, parses |-> FALSE]}
MCExtractions == {{<<1, 2>>, <<2, 2>>}, {<<3, 2>>}}
MCRequests ==
  {[project |-> "p1", seeds |-> {0}, depth |-> 1, cap |-> 2],
   [project |-> "p1", seeds |-> {1, 9}, depth |-> 0, cap |-> 0],
   [project |-> "", seeds |-> {}, depth |-> 0, cap |-> 0]}
==============================================================================
