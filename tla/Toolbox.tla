------------------------------- MODULE Toolbox -------------------------------
(***************************************************************************)
(* The tools of one agent during one task (services/worker: tools, search, *)
(* and the helpers of graph that read their results): which tools it has,  *)
(* what a call does to the project and to the workspace, which links count *)
(* as found, and what the lead is told that a coworker did.  The user      *)
(* uploads files meanwhile, and an answer of the gateway may get lost.     *)
(*                                                                         *)
(* Simplifications: a text is its length and the links in it.  A path is a *)
(* sequence of names.  The pages of the web are fixed, as are the filers;  *)
(* the addresses of a paper are one.                                       *)
(***************************************************************************)
EXTENDS Naturals, Sequences, FiniteSets, FiniteSetsExt, SequencesExt, Lists

CONSTANTS
  Members,     \* bound: agents: [kind, listed, team, skills]
  Calls,       \* bound: calls the model may make: [name, args]
  Results,     \* bound: what a search provider may find: [url, titled]
  SearchKeys,  \* bound: [provider, tavily, brave] of the process
  Pages,       \* what a URL leads to: [kind, lines]
  Filers,      \* companies of EDGAR: [ticker, title, forms]
  Coworkers,   \* [id, display] of the project's agents
  Spec,        \* the deliverable: [sections, min]; no sections: none
  Steps,       \* the project's steps: [id, label], a label by its words
  NeedsDeck,   \* whether the project is only done with a deck
  Files,       \* bound: files the user may upload: [id, title, text]
  SearchLimit, MinGap, KeepForms, MinSlides,  \* 5, 3, 3, 3
  MaxCalls     \* bound: calls of the task

ASSUME ToolboxAssumption ==
  /\ \A m \in Members : m.kind \in {"ORCHESTRATOR", "WORKER"} /\ m.team \in BOOLEAN
  /\ \A url \in DOMAIN Pages : Pages[url].kind \in {"gone", "blank", "html", "pdf", "arxiv"}
  /\ \A c \in Calls : c.name = "write_report" =>
       c.args.body \in Seq(Range(c.args.body)) /\ \A b \in Range(c.args.body) : b.len \in Nat
  /\ \A s \in Range(Spec.sections) : s.min \in Nat
  /\ Steps # <<>> /\ NeedsDeck \in BOOLEAN
  /\ {SearchLimit, MinGap, KeepForms, MinSlides, MaxCalls} \subseteq Nat

VARIABLES
  who,      \* the agent
  keys,     \* its process's search settings
  world,    \* the project and the workspace: seeds; brief: those the turn began
            \* with; steps, files, artifacts, queued; journal: what happened to
            \* steps and files; lost: whether an answer was
  seen,     \* seen_seeds
  told,     \* uploads the window tells of
  sources,  \* links the results mentioned
  notes,    \* the calls that ran: [name, said, about, urls]
  handoff   \* what the lead is told: [steps, files]; done: whether it is

tvars == <<who, keys, world, seen, told, sources, notes, handoff>>

(***************************************************************************)
(* make_toolbox.                                                           *)
(***************************************************************************)
WorkerBase == {"web_search", "fetch_url", "utc_time", "write_file"}
Orchestrator(m) == m.kind = "ORCHESTRATOR"

Names(m) ==
  LET own == IF m.listed # {} THEN m.listed
             ELSE IF Orchestrator(m) THEN {"delegate", "advance"}
             ELSE {"web_search", "fetch_url", "write_file"}
      base == (IF Orchestrator(m) THEN own ELSE (own \cup WorkerBase) \ {"delegate"}) \cup {"read_file"}
      web == IF "web_search" \in base THEN {"fetch_url", "utc_time"} ELSE {}
      lead == IF Orchestrator(m) THEN {"ask_user", "write_report", "write_deck"} ELSE {}
      plan == IF Orchestrator(m) \/ "ledger" \in m.listed THEN {"delegate", "advance"} ELSE {}
  IN (base \cup web \cup lead \cup plan) \ (IF m.team THEN {} ELSE {"delegate"})

Plain == {"web_search", "fetch_url", "utc_time", "write_file", "read_file", "advance",
          "ask_user", "write_report", "write_deck"}
MakeToolbox(m) ==
  LET names == Names(m) IN
  (names \cap Plain)
  \cup (IF Orchestrator(m) THEN names \cap {"delegate"} ELSE {})
  \cup (IF names \cap {"kg_query", "kg_write", "kg"} # {} THEN {"kg"} ELSE {})
  \cup (IF "filings" \in m.skills \/ "edgar" \in names THEN {"edgar"} ELSE {})
  \cup (IF m.skills # {} THEN {"load_skill"} ELSE {})

Aliases == [ledger |-> "advance", plan |-> "advance", save |-> "write_file",
            search |-> "web_search", fetch |-> "fetch_url"]

(***************************************************************************)
(* Outcomes of a call: the world after it, what it said, of what, and the  *)
(* links in that.                                                          *)
(***************************************************************************)
Out(w, said, about, urls) == [world |-> w, said |-> said, about |-> about, urls |-> urls]
Says(w, said) == {Out(w, said, <<>>, {})}
AnyLinks == {{}} \cup {{u} : u \in DOMAIN Pages}
SaysLinks(w, said) == {Out(w, said, <<>>, urls) : urls \in AnyLinks}
LosesAnswer(w) == [w EXCEPT !.lost = TRUE]

(* load_project: the gateway answers with the project, or does not. *)
LoadProject(w) == {w.seeds, <<>>}

(***************************************************************************)
(* The web.                                                                *)
(***************************************************************************)
BuildSearch(k) ==
  CASE k.provider = "brave" -> IF k.brave THEN "Brave" ELSE "error"
    [] k.provider \notin {"", "brave", "tavily"} -> "error"
    [] OTHER -> IF k.tavily THEN "Tavily"
                ELSE IF k.provider = "" /\ k.brave THEN "Brave" ELSE "error"

(* A provider's hits: the first of those that have a title and a link. *)
FirstFew(found, n) == SubSeq(found, 1, Min({n, Len(found)}))
ProviderSearch(found) == FirstFew(SelectSeq(found, LAMBDA r : r.titled /\ r.url # ""), SearchLimit)

UrlsOf(hits) == {hits[i].url : i \in DOMAIN hits}
SearchBlocking(w) ==
  IF BuildSearch(keys) = "error" THEN Says(w, "failed")
  ELSE Says(w, "failed") \cup
       {LET hits == ProviderSearch(found)
        IN Out(w, IF hits = <<>> THEN "failed" ELSE "hits", <<>>, UrlsOf(hits)) : found \in Results}

WebSearch(w, args) == IF args.query THEN SearchBlocking(w) ELSE Says(w, "rejected")

(* The lines of each section, its heading first, without those that have   *)
(* none.                                                                   *)
Split(lines, starts) ==
  LET cuts == <<0>> \o starts \o <<Len(lines) + 1>>
      all == [k \in 1 .. Len(cuts) - 1 |->
                [title |-> IF k = 1 THEN "Body" ELSE lines[cuts[k]].word,
                 lines |-> SubSeq(lines, cuts[k] + 1, cuts[k + 1] - 1)]]
  IN SelectSeq(all, LAMBDA s : s.lines # <<>>)

(* In the text of a PDF a section begins at a heading that comes after     *)
(* more than three lines of the one before it; one that comes sooner is    *)
(* text.                                                                   *)
TextSections(lines) ==
  LET begun[i \in 0 .. Len(lines)] ==
        IF i = 0 THEN <<>>
        ELSE LET last == IF begun[i - 1] = <<>> THEN 0 ELSE Last(begun[i - 1])
             IN IF lines[i].heading /\ i - 1 - last > MinGap
                THEN Append(begun[i - 1], i) ELSE begun[i - 1]
      parts == Split(lines, begun[Len(lines)])
  IN IF parts = <<>> THEN <<[title |-> "Body", lines |-> lines]>> ELSE parts

(* In HTML every heading begins one; what comes before the first is kept   *)
(* when it is more than a line.                                            *)
HtmlSections(lines) ==
  LET heads == {i \in DOMAIN lines : lines[i].heading}
      parts == Split(lines, SetToSortSeq(heads, <))
  IN IF heads # {} /\ parts # <<>> /\ parts[1].title = "Body" /\ Len(parts[1].lines) < 2
     THEN Tail(parts) ELSE parts

LinksIn(lines) == UNION {lines[i].links : i \in DOMAIN lines}

(* The section asked for, else an excerpt that has the words, else the     *)
(* list of headings; the first section when none is asked for.             *)
FormatPaper(w, url, parts, wanted) ==
  LET titled == {i \in DOMAIN parts : parts[i].title = wanted}
      saying == {i \in DOMAIN parts : \E j \in DOMAIN parts[i].lines : parts[i].lines[j].word = wanted}
      Shown(said, part) == {Out(w, said, <<part.title>>, {url} \cup LinksIn(part.lines))}
  IN IF wanted = "" THEN Shown("sections", parts[1])
     ELSE IF titled # {} THEN Shown("section", parts[Min(titled)])
     ELSE IF saying # {} THEN Shown("excerpt", parts[Min(saying)])
     ELSE {Out(w, "no section", <<>>, {url})}

(* An arXiv paper is read as HTML if that has sections, else as a PDF; a   *)
(* PDF needs a tool that may be missing.                                   *)
FetchArxiv(w, url, lines, wanted) ==
  {Out(w, "not read", <<>>, {url})} \cup FormatPaper(w, url, TextSections(lines), wanted)
  \cup IF HtmlSections(lines) = <<>> THEN {} ELSE FormatPaper(w, url, HtmlSections(lines), wanted)

(* A link that leads nowhere is in the answer too. *)
FetchBlocking(w, url, wanted) ==
  LET page == Pages[url]
  IN CASE page.kind \in {"gone", "blank"} -> {Out(w, "failed", <<>>, {url})}
       [] page.kind = "html" -> {Out(w, "page", <<>>, {url} \cup LinksIn(page.lines))}
       [] page.kind = "pdf" -> {Out(w, "not read", <<>>, {url})}
                               \cup FormatPaper(w, url, TextSections(page.lines), wanted)
       [] page.kind = "arxiv" -> FetchArxiv(w, url, page.lines, wanted)

FetchUrl(w, args) ==
  IF args.url \in DOMAIN Pages THEN FetchBlocking(w, args.url, args.section) ELSE Says(w, "rejected")

MatchFiler(company) ==
  LET exact == SelectSeq(Filers, LAMBDA f : f.ticker = company)
      fuzzy == SelectSeq(Filers, LAMBDA f : company \in f.title)
  IN IF exact # <<>> THEN FirstFew(exact, 1) ELSE FirstFew(fuzzy, 1)

Edgar(w, args) ==
  LET found == MatchFiler(args.company)
      forms == IF found = <<>> THEN <<>>
               ELSE FirstFew(Keep(found[1].forms, {f \in Range(found[1].forms) : f.wanted}), KeepForms)
  IN IF args.company = "" THEN Says(w, "rejected")
     ELSE Says(w, "failed") \cup
          {Out(w, IF forms = <<>> THEN "nothing found" ELSE "filings", <<>>, UrlsOf(forms))}

(***************************************************************************)
(* The workspace: drafts, each its links, under one directory.  A path may *)
(* leave it, be hidden, or lie where no draft does; such a draft can be    *)
(* written all the same, only not read.                                    *)
(***************************************************************************)
WorkPath(path) == path # <<>> /\ Head(path) # ".."
Hidden(path) == ".h" \in Range(path) \/ Head(path) \in {"var", "node_modules"}
Draft(w, path) == {f \in w.files : f.path = path}

(* _store_artifact: the gateway keeps a file under its name, refuses it,   *)
(* or keeps it and its answer does not arrive.                             *)
Stored(w, item) ==
  [w EXCEPT !.artifacts = {x \in w.artifacts : x.name # item.name} \cup {item}]
StoreArtifact(w, item) ==
  {Out(Stored(w, item), "Stored", <<item.name>>, {}), Out(w, "was not stored", <<>>, {}),
   Out(LosesAnswer(Stored(w, item)), "was not stored", <<>>, {})}

Wrote(w, path, text) ==
  [w EXCEPT !.files = (w.files \ Draft(w, path)) \cup {[path |-> path, text |-> text]},
            !.journal = Append(w.journal, [kind |-> "file", about |-> path])]

(* What the gateway says of the file it is sent as well changes nothing in *)
(* what the call reports first.  A hidden name is not sent.                *)
WriteFile(w, args) ==
  IF args.path = <<>> THEN Says(w, "rejected")
  ELSE IF ~WorkPath(args.path) THEN Says(w, "refused")
  ELSE IF Last(args.path) = ".h" THEN {Out(Wrote(w, args.path, args.text), "Wrote", args.path, {})}
  ELSE {Out(x.world, "Wrote", args.path, {}) :
          x \in StoreArtifact(Wrote(w, args.path, args.text),
                              [name |-> Last(args.path), kind |-> "file", body |-> <<>>, after |-> 0])}

(* The hint knows of the uploads the turn began with, not of later ones. *)
UploadHint(w, path) == \E i \in DOMAIN w.brief : w.brief[i].title = Last(path)
ReadBlocking(w, path) ==
  LET hint == IF UploadHint(w, path) THEN "is an upload" ELSE "refused"
  IN IF ~WorkPath(path) THEN Says(w, hint)
     ELSE IF Hidden(path) THEN Says(w, "refused")
     ELSE IF Draft(w, path) = {} THEN Says(w, hint)
     ELSE {Out(w, "text", path, f.text) : f \in Draft(w, path)}
ReadFile(w, args) == IF args.path = <<>> THEN Says(w, "rejected") ELSE ReadBlocking(w, args.path)

(***************************************************************************)
(* The knowledge graph and the uploads.                                    *)
(***************************************************************************)
(* What is read from the graph or an upload may have links in it. *)
Readable(w) == [seeds : LoadProject(w), urls : AnyLinks]

NamedSeeds(seeds, title) == SelectSeq(seeds, LAMBDA s : title \in {s.title, s.id})
KgReadFile(w, title) ==
  IF title = "" THEN Says(w, "rejected")
  ELSE {LET found == NamedSeeds(m.seeds, title)
        IN Out(w, IF found = <<>> THEN "no upload" ELSE IF found[1].text THEN "material" ELSE "no text",
               <<title>>, m.urls) : m \in Readable(w)}

UploadedFiles(seeds) == SelectSeq(seeds, LAMBDA s : s.upload)
KgQuery(w) ==
  Says(w, "not reachable")
  \cup {LET files == UploadedFiles(m.seeds)
        IN Out(w, "graph", [i \in DOMAIN files |-> files[i].id], m.urls) : m \in Readable(w)}

KgWrite(w, title) ==
  IF title = "" THEN Says(w, "rejected")
  ELSE Says(w, "not reachable") \cup Says([w EXCEPT !.queued = Append(w.queued, title)], "Queued")

Kg(w, args) ==
  CASE args.action = "read" -> KgReadFile(w, args.title)
    [] args.action = "write" -> KgWrite(w, args.title)
    [] OTHER -> KgQuery(w)

HasMaterial(s) == s.title # "" \/ s.text
Materials(seeds) == {s \in Range(seeds) : HasMaterial(s)}
AlwaysFresh(seeds, known) == [new |-> Keep(seeds, Materials(seeds)), known |-> known]
FreshUploads(seeds, known) ==
  [new |-> Keep(seeds, {s \in Materials(seeds) : s.id \notin known}),
   known |-> known \cup {seeds[i].id : i \in DOMAIN seeds}]

(***************************************************************************)
(* The steps, the report and the deck.                                     *)
(***************************************************************************)
StepStates == {"pending", "active", "done", "failed"}
NewPlan == [i \in DOMAIN Steps |-> IF i = 1 THEN "active" ELSE "pending"]

(* The step of that id or label, else the first whose label has the words  *)
(* or is among them; 0 for none.                                           *)
MatchStep(words) ==
  LET exact == {i \in DOMAIN Steps : words \in {{Steps[i].id}, Steps[i].label}}
      part == {i \in DOMAIN Steps : words \subseteq Steps[i].label \/ Steps[i].label \subseteq words}
  IN IF exact # {} THEN Min(exact) ELSE IF part # {} THEN Min(part) ELSE 0

(* When a step is done and none is active the next one becomes active. *)
ApplyStep(steps, idx, state) ==
  LET next == [steps EXCEPT ![idx] = state]
      pending == {i \in DOMAIN next : next[i] = "pending"}
  IN IF state = "done" /\ "active" \notin Range(next) /\ pending # {}
     THEN [next EXCEPT ![Min(pending)] = "active"] ELSE next

AllDone(steps) == \A i \in DOMAIN steps : steps[i] = "done"
DeliverablesReady(w) ==
  /\ \E a \in w.artifacts : a.kind = "report"
  /\ NeedsDeck => \E a \in w.artifacts : a.kind = "deck"

(* The gateway moves the step that was asked for, unless it refuses.       *)
Moved(w, idx, state) ==
  [w EXCEPT !.steps = ApplyStep(w.steps, idx, state),
            !.journal = Append(w.journal, [kind |-> "step", about |-> <<idx, state>>])]
Refuses(w, idx, state) ==
  \/ state \notin StepStates \/ idx = 0
  \/ AllDone(ApplyStep(w.steps, idx, state)) /\ ~DeliverablesReady(w)
UpdateStep(w, idx, state) ==
  {Out(w, "was not applied", <<>>, {})}
  \cup IF Refuses(w, idx, state) THEN {}
       ELSE {Out(Moved(w, idx, state), "is now", <<idx, state>>, {}),
             Out(LosesAnswer(Moved(w, idx, state)), "was not applied", <<>>, {})}

(* The label of a note stands for the step that it matches. *)
Plan(w, args) ==
  IF args.label = {} THEN Says(w, "rejected") ELSE UpdateStep(w, MatchStep(args.label), args.state)

(* The body under each heading; of two with one name, the later. *)
SectionBodies(body) ==
  [h \in {body[i].heading : i \in DOMAIN body} |->
     body[Max({i \in DOMAIN body : body[i].heading = h})]]

AnyLink(section, known) == section.links # {}
HasKnownLink(section, known) == section.links \cap known # {}

Total(body) == FoldSeq(LAMBDA s, n : n + s.len, 0, body)
ReportError(body, known) ==
  LET found == SectionBodies(body)
      asked == Range(Spec.sections)
  IN IF Spec.sections = <<>> THEN Total(body) < Spec.min
     ELSE \/ \E s \in asked : s.heading \notin DOMAIN found \/ found[s.heading].len < s.min
          \/ \E s \in asked : s.cite /\ ~HasKnownLink(found[s.heading], known)
          \/ Total(body) < Spec.min

WriteReport(w, args) ==
  IF ReportError(args.body, sources) THEN Says(w, "rejected")
  ELSE StoreArtifact(w, [name |-> args.file, kind |-> "report", body |-> args.body, after |-> Len(notes)])

Slides(slides) ==
  Len(slides) >= MinSlides /\ \A i \in DOMAIN slides : slides[i].titled /\ slides[i].bullets > 0
WriteDeck(w, args) ==
  IF ~Slides(args.slides) THEN Says(w, "rejected")
  ELSE StoreArtifact(w, [name |-> args.file, kind |-> "deck", body |-> <<>>, after |-> Len(notes)])

(***************************************************************************)
(* Coworkers.  By id, else by display name, else by a part of it.          *)
(***************************************************************************)
FindCoworker(name) ==
  LET byId == SelectSeq(Coworkers, LAMBDA c : c.id = name)
      byName == SelectSeq(Coworkers, LAMBDA c : c.display = <<name>>)
      byPart == SelectSeq(Coworkers, LAMBDA c : name \in Range(c.display))
  IN IF name = "" THEN <<>> ELSE FirstFew(byId \o byName \o byPart, 1)

(* The links a coworker's own tools returned come with its answer. *)
Delegate(w, args) ==
  IF args.coworker = "" \/ ~args.task THEN Says(w, "rejected")
  ELSE IF FindCoworker(args.coworker) = <<>> THEN Says(w, "no coworker")
  ELSE {Out(w, "handed off", <<FindCoworker(args.coworker)[1].id>>, urls) :
          urls \in AnyLinks}

(***************************************************************************)
(* Toolbox.run.                                                            *)
(***************************************************************************)
Tool(call) == IF call.name \in DOMAIN Aliases THEN Aliases[call.name] ELSE call.name
Run(w, call) ==
  LET tool == Tool(call) args == call.args IN
  IF tool \notin MakeToolbox(who) THEN Says(w, "no such tool")
  ELSE CASE tool = "web_search" -> WebSearch(w, args)
         [] tool = "fetch_url" -> FetchUrl(w, args)
         [] tool = "edgar" -> Edgar(w, args)
         [] tool = "write_file" -> WriteFile(w, args) \cup Says(w, "failed")
         [] tool = "read_file" -> ReadFile(w, args)
         [] tool = "kg" -> Kg(w, args)
         [] tool = "advance" -> Plan(w, args)
         [] tool = "write_report" -> WriteReport(w, args)
         [] tool = "write_deck" -> WriteDeck(w, args)
         [] tool = "delegate" -> Delegate(w, args)
         [] OTHER -> SaysLinks(w, "text")

TInit ==
  /\ who \in Members /\ keys \in SearchKeys
  /\ \E seeds \in {<<>>} \cup {<<f>> : f \in Files} :
       /\ world = [seeds |-> seeds, brief |-> seeds, steps |-> NewPlan, files |-> {},
                   artifacts |-> {}, queued |-> <<>>, journal |-> <<>>, lost |-> FALSE]
       /\ seen = {seeds[i].id : i \in DOMAIN seeds}
  /\ told = <<>> /\ sources = {} /\ notes = <<>>
  /\ handoff = [steps |-> <<>>, files |-> <<>>, done |-> FALSE]

Call ==
  /\ ~handoff.done /\ Len(notes) < MaxCalls
  /\ \E call \in Calls : \E x \in Run(world, call) :
       /\ world' = x.world
       /\ notes' = Append(notes, [name |-> call.name, said |-> x.said, about |-> x.about, urls |-> x.urls])
       /\ sources' = sources \cup x.urls
  /\ UNCHANGED <<who, keys, seen, told, handoff>>

Upload(f) ==
  /\ ~handoff.done /\ \A i \in DOMAIN world.seeds : world.seeds[i].id # f.id
  /\ world' = [world EXCEPT !.seeds = Append(@, f)]
  /\ UNCHANGED <<who, keys, seen, told, sources, notes, handoff>>

(* Before each round the window is told of the files that came. *)
Look ==
  /\ ~handoff.done
  /\ \E seeds \in LoadProject(world) :
       LET fresh == FreshUploads(seeds, seen)
       IN seen' = fresh.known /\ told' = told \o [i \in DOMAIN fresh.new |-> fresh.new[i].id]
  /\ UNCHANGED <<who, keys, world, sources, notes, handoff>>

(* coworker_handoff: the steps and files of the notes that report them. *)
AnyNote(name, said) == Keep(notes, {n \in Range(notes) : n.name = name})
NotesOf(name, said) == Keep(notes, {n \in Range(notes) : n.name = name /\ n.said = said})
Abouts(of) == [i \in DOMAIN of |-> of[i].about]
CoworkerHandoff ==
  [steps |-> Abouts(NotesOf("advance", "is now")), files |-> Abouts(NotesOf("write_file", "Wrote")),
   done |-> TRUE]

HandOff ==
  /\ ~handoff.done /\ handoff' = CoworkerHandoff
  /\ UNCHANGED <<who, keys, world, seen, told, sources, notes>>

TDone == handoff.done /\ UNCHANGED tvars

TNext == Call \/ (\E f \in Files : Upload(f)) \/ Look \/ HandOff \/ TDone
TSpec == TInit /\ [][TNext]_tvars

(***************************************************************************)
(* The steps and files that the lead is told a coworker moved and wrote,   *)
(* were, in that order.  Unless an answer of the gateway was lost or a tool*)
(* was called by another name they are all; what else differs from the plan*)
(* at the start is a step that became active when another was done.        *)
(***************************************************************************)
InOrderIn(s, t) ==
  \E at \in [DOMAIN s -> DOMAIN t] :
    \A i, k \in DOMAIN s : s[i] = t[at[i]] /\ (i < k => at[i] < at[k])
Happened(kind) == Abouts(Keep(world.journal, {e \in Range(world.journal) : e.kind = kind}))
HandoffIsTrue ==
  handoff.done =>
    /\ InOrderIn(handoff.steps, Happened("step"))
    /\ InOrderIn(handoff.files, Happened("file"))
    /\ ~world.lost /\ (\A i \in DOMAIN notes : notes[i].name \notin DOMAIN Aliases) =>
         /\ handoff.steps = Happened("step") /\ handoff.files = Happened("file")
         /\ \A i \in DOMAIN Steps :
              world.steps[i] \in {NewPlan[i], "active"} \/ <<i, world.steps[i]>> \in Range(handoff.steps)

(***************************************************************************)
(* What the lead is promised (tools.py:364): only what it is told happened.*)
(* A step moved as "plan", or a file written as "save", happens untold.    *)
(***************************************************************************)
OnlyTheToldHappened ==
  handoff.done /\ ~world.lost =>
    Range(Happened("step")) \subseteq Range(handoff.steps) /\ Range(Happened("file")) \subseteq Range(handoff.files)

(***************************************************************************)
(* A report that is stored is one the project asked for: each section is   *)
(* there and long enough, and one that has to cite has a link that a call  *)
(* made before it returned.                                                *)
(***************************************************************************)
ReportsAreSourced ==
  \A r \in world.artifacts : r.kind = "report" =>
    \A s \in Range(Spec.sections) :
      \E i \in DOMAIN r.body :
        /\ r.body[i].heading = s.heading /\ r.body[i].len >= s.min
        /\ s.cite => \E k \in 1 .. r.after : notes[k].urls \cap r.body[i].links # {}

(***************************************************************************)
(* However uploads, failed reads of the project and looks at it interleave *)
(* an agent is told of a file once, never of one it began with, and of     *)
(* every other one it has seen that has anything in it.                    *)
(***************************************************************************)
FilesAreToldOnce ==
  LET brief == {world.brief[i].id : i \in DOMAIN world.brief}
  IN /\ IsInjective(told) /\ Range(told) \cap brief = {}
     /\ \A i \in DOMAIN world.seeds :
          world.seeds[i].id \in seen \ (brief \cup Range(told)) => ~HasMaterial(world.seeds[i])
=============================================================================
