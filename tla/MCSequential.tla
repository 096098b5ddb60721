---------------------------- MODULE MCSequential ----------------------------
(* The parts that one process goes through alone, for TLC in one run: a    *)
(* round with a model, the tools of an agent, the memory benchmark.  Each  *)
(* behaviour is one part's; the others stay as they begin.                 *)
EXTENDS Benchmark, Completion, Toolbox

VARIABLE part   \* the part that runs

(* The benchmark. *)

Turn(id, norms, rels) == [id |-> id, norms |-> norms, rels |-> rels]
MCSamples ==
  <<[sessions |-> <<[number |-> 10, turns |-> <<Turn("d3", {"z"}, {})>>],
                    [number |-> 2, turns |-> <<Turn("d1", {"x", "y"}, {<<"x", "y">>}),
                                               Turn("d2", {"y"}, {})>>]>>,
     qa |-> <<[category |-> 1, evidence |-> {"d1", "d3"}], [category |-> 5, evidence |-> {"d1"}],
              [category |-> 2, evidence |-> {"d9"}]>>],
    [sessions |-> <<[number |-> 1, turns |-> <<Turn("d1", {"x"}, {}), Turn("d2", {"x", "z"}, {})>>]>>,
     qa |-> <<[category |-> 4, evidence |-> {"d2"}]>>]>>
MCSystems == <<"graph_kuzu", "kuzu_memory", "poincare">>
MCIdf == <<144, 91, 72, 62>>

(* The model: texts with calls in every form they come in, and settings. *)
Tok(kind, name) == [kind |-> kind, name |-> name]
MCAnswers ==
  {[text |-> <<>>, calls |-> <<>>],
   [text |-> <<Tok("words", "a")>>, calls |-> <<[name |-> "kg", pieces |-> 2, id |-> 2], [name |-> "web", pieces |-> 2, id |-> 1]>>],
   [text |-> <<Tok("words", "a"), Tok("json", "kg"), Tok("dsml", "web"), Tok("dsml", "odd"), Tok("wrapper", "")>>, calls |-> <<>>],
   [text |-> <<Tok("think", ""), Tok("json", "kg"), Tok("/think", ""), Tok("words", "a"), Tok("at", "c1"), Tok("at", "c1")>>, calls |-> <<>>],
   [text |-> <<Tok("words", "a"), Tok("think", "")>>, calls |-> <<>>]}
Form(index, id, both) == [index |-> index, id |-> id, both |-> both]
MCForms ==
  {Form(TRUE, "first", FALSE), Form(TRUE, "first", TRUE), Form(FALSE, "always", FALSE),
   Form(FALSE, "first", FALSE), Form(FALSE, "never", FALSE)}
MCRoster == <<"c1","c2">>
MCSettings ==
  {[provider |-> p, keys |-> k, cloud |-> c] :
     p \in {"", "deepseek", "nebius", "odd"}, k \in {{}, {"nvidia", "deepseek"}}, c \in BOOLEAN}

(* The tools: a call or more of each, and calls that the tool rejects. *)
Does(name, args) == [name |-> name, args |-> args]
MCMembers ==
  {[kind |-> "ORCHESTRATOR", listed |-> {}, team |-> TRUE, skills |-> {}],
   [kind |-> "WORKER", listed |-> {"ledger", "kg"}, team |-> TRUE, skills |-> {"filings"}]}
MCSearchKeys ==
  {[provider |-> "", tavily |-> FALSE, brave |-> TRUE], [provider |-> "brave", tavily |-> TRUE, brave |-> FALSE]}
MCResults == {<<>>, <<[url |-> "u1", titled |-> TRUE], [url |-> "u9", titled |-> FALSE]>>}
Line(heading, word, links) == [heading |-> heading, word |-> word, links |-> links]
MCPages ==
  [u1 |-> [kind |-> "html", lines |-> <<Line(FALSE, "x", {"u2"})>>],
   u2 |-> [kind |-> "arxiv",
           lines |-> <<Line(FALSE, "x", {}), Line(TRUE, "Data", {}), Line(FALSE, "y", {"u1"}),
                       Line(TRUE, "End", {}), Line(FALSE, "z", {})>>],
   u3 |-> [kind |-> "gone", lines |-> <<>>]]
MCFilers ==
  <<[ticker |-> "tk", title |-> {"acme"}, forms |-> <<[wanted |-> FALSE, url |-> "u8"], [wanted |-> TRUE, url |-> "u3"]>>],
    [ticker |-> "acme", title |-> {"other"}, forms |-> <<>>]>>
MCCoworkers == <<[id |-> "c1", display |-> <<"ana", "lyst">>], [id |-> "c2", display |-> <<"ana">>]>>
MCSpec ==
  [sections |-> <<[heading |-> "H1", min |-> 1, cite |-> TRUE], [heading |-> "H2", min |-> 0, cite |-> FALSE]>>, min |-> 2]
MCFiles == {[id |-> "f1", title |-> "notes", text |-> TRUE, upload |-> TRUE],
            [id |-> "f2", title |-> "", text |-> FALSE, upload |-> FALSE]}
MCSteps == <<[id |-> "s1", label |-> {"read", "papers"}], [id |-> "s2", label |-> {"write"}]>>
Part(heading, len, links) == [heading |-> heading, len |-> len, links |-> links]
MCCalls ==
  {Does("web_search", [query |-> TRUE]), Does("search", [query |-> FALSE]), Does("utc_time", <<>>),
   Does("fetch", [url |-> "u1", section |-> ""]), Does("fetch_url", [url |-> "ftp", section |-> ""]),
   Does("edgar", [company |-> "acme"]), Does("edgar", [company |-> "tk"]),
   Does("save", [path |-> <<"d">>, text |-> {"u7"}]), Does("write_file", [path |-> <<"d">>, text |-> {}]),
   Does("write_file", [path |-> <<"var", "d">>, text |-> {}]), Does("write_file", [path |-> <<"..", "d">>, text |-> {}]),
   Does("read_file", [path |-> <<"d">>]), Does("read_file", [path |-> <<"var", "d">>]),
   Does("read_file", [path |-> <<"..", "notes">>]),
   Does("kg", [action |-> "read", title |-> "notes"]), Does("kg", [action |-> "query", title |-> ""]),
   Does("kg", [action |-> "write", title |-> "t"]),
   Does("advance", [label |-> {"s2"}, state |-> "failed"]), Does("advance", [label |-> {"read"}, state |-> "done"]),
   Does("plan", [label |-> {"write", "up"}, state |-> "done"]), Does("advance", [label |-> {"sing"}, state |-> "done"]),
   Does("write_report", [file |-> "r", body |-> <<Part("H1", 1, {"u1"}), Part("H2", 0, {}), Part("H1", 2, {"u1"})>>]),
   Does("write_report", [file |-> "r", body |-> <<Part("H1", 1, {"u1"}), Part("H2", 0, {}), Part("H1", 2, {"u7"})>>]),
   Does("write_deck", [file |-> "k", slides |-> <<[titled |-> TRUE, bullets |-> 1]>>]),
   Does("delegate", [coworker |-> "ana", task |-> TRUE])}
  \cup {Does("fetch_url", [url |-> u, section |-> s]) : u \in {"u2", "u3"}, s \in {"", "End", "y"}}

(* A part that does not run begins in one way. *)
QuietModel == form = Form(TRUE, "first", FALSE) /\ settings.keys = {} /\ settings.provider = "" /\ ~settings.cloud
              /\ ask = [provider |-> "", tools |-> FALSE, lead |-> FALSE]
QuietTools == who.kind = "WORKER" /\ keys.provider = "" /\ world.seeds = <<>>
SInit ==
  /\ part \in {"model", "tools", "benchmark"}
  /\ CInit /\ (part = "model" \/ QuietModel)
  /\ TInit /\ (part = "tools" \/ QuietTools)
  /\ BInit /\ (part = "benchmark" \/ mode = "offline")

ModelStep == part = "model" /\ CNext /\ UNCHANGED <<part, tvars, bvars>>
ToolsStep == part = "tools" /\ TNext /\ UNCHANGED <<part, cvars, bvars>>
BenchmarkStep == part = "benchmark" /\ BNext /\ UNCHANGED <<part, cvars, tvars>>
SNext == ModelStep \/ ToolsStep \/ BenchmarkStep
SSpec == SInit /\ [][SNext]_<<part, cvars, tvars, bvars>>
=============================================================================
