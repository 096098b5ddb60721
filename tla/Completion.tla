----------------------------- MODULE Completion -----------------------------
(***************************************************************************)
(* One round with a model: the provider a task goes to, the stream of      *)
(* deltas its port reads, and what the reasoning loop takes from it, the   *)
(* calls and the text for the user (services/worker: adapters, model,      *)
(* openai_chat, nvidia, calls, deepseek_dsml, and _complete of graph).     *)
(*                                                                         *)
(* Simplifications: a text is a sequence of tokens, and JSON or DSML of a  *)
(* call is one token; a call's arguments are the pieces they come in, one  *)
(* in a delta.  Token counts, model names and limits are left out.         *)
(***************************************************************************)
EXTENDS Naturals, Sequences, FiniteSets, FiniteSetsExt, SequencesExt, Lists

CONSTANTS
  Settings,   \* bound: [provider, keys, cloud] of the process
  Providers,  \* bound: providers tasks name
  Answers,    \* bound: [text, calls] a model may give; [name, pieces, id] of a call
  Forms,      \* bound: how deltas name their call: [index, id, both]
  Declared,   \* names of the tools offered
  Roster      \* coworkers, in the order of the project

ASSUME CompletionAssumption ==
  /\ \A a \in Answers :
       /\ a.text \in Seq(Range(a.text)) /\ a.calls \in Seq(Range(a.calls))
       /\ \A c \in Range(a.calls) : c.name # "" /\ c.pieces \in Nat \ {0} /\ c.id \in Nat
  /\ Roster \in Seq(Range(Roster)) /\ IsInjective(Roster)

VARIABLES
  settings,
  ask,       \* the request: the task's provider, whether tools are offered, who asks
  port,      \* the port that serves it
  answer,    \* what the model gives
  form,      \* how its deltas name the call that they are of
  sent,      \* how much of it has come: of the text, and of each call
  parts,     \* the text read
  pending,   \* the calls read: [by, key, name, args]
  cut,       \* the model stopped at its token limit
  outcome    \* what _complete returned; stage "open" until then

cvars == <<settings, ask, port, answer, form, sent, parts, pending, cut, outcome>>

(***************************************************************************)
(* The port: build_model for the process, RoutingModel once cloud          *)
(* providers are enabled.                                                  *)
(***************************************************************************)
Stub(s, key, p) == IF key \in s.keys THEN p ELSE "stub"
NebiusCreate(s) == Stub(s, "nebius", "openai")
DeepseekCreate(s) == Stub(s, "deepseek", "openai")

BuildModel(s) ==
  CASE s.provider \in {"", "nvidia"} -> Stub(s, "nvidia", "nvidia")
    [] s.provider \in {"nebius", "nebius-token-factory"} -> NebiusCreate(s)
    [] s.provider = "deepseek" -> DeepseekCreate(s)
    [] OTHER -> "error"

Build(s, provider) ==
  LET default == IF s.provider = "" THEN "nvidia" ELSE s.provider
      named == IF provider = "" THEN default ELSE provider
  IN CASE named = default -> BuildModel(s)
       [] named # default /\ named = "deepseek" -> DeepseekCreate(s)
       [] named # default /\ named \in {"nebius", "nebius-token-factory"} ->
            IF s.cloud THEN NebiusCreate(s) ELSE "error"
       [] named # default /\ named = "nvidia" -> IF s.cloud THEN "nvidia" ELSE "error"
       [] OTHER -> "error"

SelectModel(s, provider) == IF s.cloud THEN Build(s, provider) ELSE BuildModel(s)

(***************************************************************************)
(* The stream.  A delta brings the next token of the text or the next      *)
(* piece of some call's arguments; only the first piece of a call has its  *)
(* name.  The nvidia port hands calls on in the order they begin, and      *)
(* relies on the API to begin them in theirs.  A delta has its call's index*)
(* or does not, its id always, never or the first time only; and what the  *)
(* nvidia port reads may have it in both of its fields.                    *)
(***************************************************************************)
NothingSent(a) == [text |-> 0, calls |-> [i \in DOMAIN a.calls |-> 0]]
Open == [stage |-> "open", spoken |-> <<>>, calls |-> <<>>]
StubAnswer == [text |-> <<[kind |-> "words", name |-> "stub"]>>, calls |-> <<>>]

CInit ==
  /\ settings \in Settings
  /\ ask \in [provider : Providers, tools : BOOLEAN, lead : BOOLEAN]
  /\ port = SelectModel(settings, ask.provider)
  /\ answer \in IF port = "stub" THEN {StubAnswer}
                ELSE {a \in Answers : ask.tools \/ a.calls = <<>>}
  /\ form \in Forms
  /\ sent = NothingSent(answer) /\ parts = <<>> /\ pending = <<>> /\ cut = FALSE
  /\ outcome = [Open EXCEPT !.stage = IF port = "error" THEN "error" ELSE "open"]

Text ==
  /\ outcome.stage = "open" /\ ~cut /\ sent.text < Len(answer.text)
  /\ sent' = [sent EXCEPT !.text = sent.text + 1]
  /\ parts' = Append(parts, answer.text[sent.text + 1])
  /\ UNCHANGED <<settings, ask, port, answer, form, pending, cut, outcome>>

(* The slot of a key, a new one if it is the first. *)
Slot(p, key) == {i \in DOMAIN p : p[i].by = key[1] /\ p[i].key = key[2]}
Opened(p, key) ==
  IF Slot(p, key) # {} THEN p
  ELSE Append(p, [by |-> key[1], key |-> key[2], name |-> "", args |-> <<>>])
Put(p, key, name, args) ==
  LET q == Opened(p, key)
  IN [i \in DOMAIN q |->
        IF i \notin Slot(q, key) THEN q[i]
        ELSE [by |-> key[1], key |-> key[2], name |-> IF name # "" THEN name ELSE q[i].name, args |-> args]]
Args(p, key) == IF Slot(p, key) = {} THEN <<>> ELSE p[Min(Slot(p, key))].args
Added(p, key, name, i, piece) == Put(p, key, name, Append(Args(p, key), <<i, piece>>))

(* Deltas are told apart by index; without one by id; without both by      *)
(* name, in the nvidia port; else by a number, that of the slots there are *)
(* or of the place among the deltas that came together.                    *)
Identified(piece) == form.id = "always" \/ (form.id = "first" /\ piece = 1)
KeyOf(name, i, piece, number) ==
  CASE form.index -> <<"index", i>>
    [] ~form.index /\ Identified(piece) -> <<"id", answer.calls[i].id>>
    [] ~form.index /\ ~Identified(piece) /\ port = "nvidia" /\ name # "" -> <<"name", name>>
    [] OTHER -> <<"index", number>>

AccumulateLast(p, name, i, piece) == Put(p, KeyOf(name, i, piece, Len(p) + 1), name, <<<<i, piece>>>>)
Accumulate(p, name, i, piece) == Added(p, KeyOf(name, i, piece, Len(p) + 1), name, i, piece)
CollectCalls(p, name, i, piece) ==
  LET q == Added(p, KeyOf(name, i, piece, 1), name, i, piece)
  IN IF form.both THEN Added(q, KeyOf(name, i, piece, 2), name, i, piece) ELSE q

Fragment(i) ==
  LET piece == sent.calls[i] + 1
      name == IF piece = 1 THEN answer.calls[i].name ELSE ""
  IN /\ outcome.stage = "open" /\ ~cut /\ piece <= answer.calls[i].pieces
     /\ port = "nvidia" /\ piece = 1 => \A j \in 1 .. i - 1 : sent.calls[j] > 0
     /\ sent' = [sent EXCEPT !.calls = [sent.calls EXCEPT ![i] = piece]]
     /\ pending' = IF port = "nvidia" THEN CollectCalls(pending, name, i, piece)
                   ELSE Accumulate(pending, name, i, piece)
     /\ UNCHANGED <<settings, ask, port, answer, form, parts, cut, outcome>>

Cut ==
  /\ outcome.stage = "open" /\ ~cut /\ port # "stub" /\ cut' = TRUE
  /\ UNCHANGED <<settings, ask, port, answer, form, sent, parts, pending, outcome>>

(* The connection breaks or the API refuses.  ChatNVIDIA is asked again    *)
(* without the tools, if it was asked with them; what it gave is dropped.  *)
Retry ==
  /\ ask' = [ask EXCEPT !.tools = FALSE]
  /\ answer' \in {a \in Answers : a.calls = <<>>} /\ sent' = NothingSent(answer')
  /\ cut' = FALSE /\ UNCHANGED <<settings, port, form, outcome>>
ReadAgain == Retry /\ parts' = <<>> /\ pending' = <<>>

Fails ==
  IF port = "nvidia" /\ ask.tools THEN ReadAgain
  ELSE /\ outcome' = [Open EXCEPT !.stage = "error"]
       /\ UNCHANGED <<settings, ask, port, answer, form, sent, parts, pending, cut>>
Breaks == outcome.stage = "open" /\ port # "stub" /\ Fails

(***************************************************************************)
(* The calls.  Arguments that are not complete JSON become no arguments.   *)
(***************************************************************************)
Made(name, args) == [name |-> name, args |-> args]
Whole(i) == [j \in 1 .. answer.calls[i].pieces |-> <<i, j>>]
ParseArgs(args) == IF \E i \in DOMAIN answer.calls : args = Whole(i) THEN Len(args) ELSE 0
Named(slots) == Keep(slots, {s \in Range(slots) : s.name # ""})
Keyed(p) == {p[i].key : i \in DOMAIN p}
Sorted(p) ==
  LET keys == Keep([n \in 1 .. Max({0} \cup Keyed(p)) |-> n], Keyed(p))
  IN [n \in DOMAIN keys |-> p[Min({i \in DOMAIN p : p[i].key = keys[n]})]]
InOrder(p) == IF port = "nvidia" THEN p ELSE Sorted(p)
ExtractCalls(p) ==
  LET slots == Named(InOrder(p))
  IN [i \in DOMAIN slots |-> Made(slots[i].name, ParseArgs(slots[i].args))]

(* Ids and numbers cannot be sorted together. *)
Unsortable(p) == port # "nvidia" /\ \E i, j \in DOMAIN p : p[i].by # p[j].by

(***************************************************************************)
(* The text.  Reasoning is dropped, up to </think>, all of it if it was    *)
(* never closed.                                                           *)
(***************************************************************************)
OfKind(text, kind) == {i \in DOMAIN text : text[i].kind = kind}
VisibleText(text) ==
  LET open == OfKind(text, "think")
      close == OfKind(text, "/think")
  IN IF close = {} THEN IF open = {} THEN text ELSE <<>>
     ELSE SubSeq(text, 1, IF open = {} THEN 0 ELSE Min(open) - 1)
          \o SubSeq(text, Min(close) + 1, Len(text))

Calling(text, kind, names) == {t \in Range(text) : t.kind = kind /\ t.name \in names}
CallsOf(text, kind, names) ==
  LET found == Keep(text, Calling(text, kind, names))
  IN [i \in DOMAIN found |-> Made(found[i].name, 1)]
Without(text, kind, names) == Keep(text, Range(text) \ Calling(text, kind, names))

Tools(text) == {text[i].name : i \in DOMAIN text}
RecoverDsml(text) ==
  LET calls == CallsOf(text, "dsml", Declared)
  IN [calls |-> calls,
      text |-> IF calls = <<>> THEN text
               ELSE Without(Without(text, "dsml", Declared), "wrapper", Tools(text))]

ParseToolCalls(text) == CallsOf(text, "json", Tools(text))
WithoutJsonCalls(text) == Without(text, "json", Tools(text))

(* A lead that calls nobody but writes @name delegates once to each. *)
MentionDelegates(text) ==
  LET named == Keep(Roster, {text[i].name : i \in OfKind(text, "at")})
  IN [i \in DOMAIN named |-> Made(named[i], 1)]

Complete(native) ==
  LET spoken == VisibleText(parts)
      dsml == RecoverDsml(spoken)
      calls == dsml.calls \o ParseToolCalls(dsml.text)
  IN IF native # <<>> THEN [stage |-> "done", spoken |-> spoken, calls |-> native]
     ELSE [stage |-> "done", spoken |-> WithoutJsonCalls(dsml.text),
           calls |-> IF calls = <<>> /\ ask.lead THEN MentionDelegates(dsml.text) ELSE calls]

(* A stream with neither text nor a call is an error. *)
StreamEnds ==
  /\ outcome.stage = "open"
  /\ cut \/ sent = [text |-> Len(answer.text), calls |-> [i \in DOMAIN answer.calls |-> answer.calls[i].pieces]]
  /\ IF Unsortable(pending) \/ (parts = <<>> /\ Named(pending) = <<>>) THEN Fails
     ELSE /\ outcome' = Complete(ExtractCalls(pending))
          /\ UNCHANGED <<settings, ask, port, answer, form, sent, parts, pending, cut>>

CDone == outcome.stage # "open" /\ UNCHANGED cvars

CNext ==
  \/ Text \/ (\E i \in DOMAIN answer.calls : Fragment(i)) \/ Cut \/ Breaks \/ StreamEnds
  \/ CDone

CSpec == CInit /\ [][CNext]_cvars

(***************************************************************************)
(* However the deltas of an answer interleave, and whether or not it had   *)
(* to be asked twice, no word of the visible text of a whole answer is     *)
(* lost; without native calls, those in the visible text are run, each     *)
(* once, and none of them is left in it; and native calls whose deltas have*)
(* the index of their call, in one field, are run in the order given, each *)
(* with all its arguments.                                                 *)
(***************************************************************************)
Count(text, V) == Cardinality({i \in DOMAIN text : text[i] \in V})
Ran(name) == Cardinality({i \in DOMAIN outcome.calls : outcome.calls[i].name = name})
Words(text) == Keep(text, {t \in Range(text) : t.kind = "words"})
Runnable(text) == Calling(text, "json", Tools(text)) \cup Calling(text, "dsml", Declared)

AnswerIsTaken ==
  outcome.stage = "done" /\ ~cut =>
    LET seen == VisibleText(answer.text)
    IN /\ Words(outcome.spoken) = Words(seen)
       /\ answer.calls # <<>> /\ form.index /\ ~form.both =>
            outcome.calls = [i \in DOMAIN answer.calls |->
                               Made(answer.calls[i].name, answer.calls[i].pieces)]
       /\ answer.calls = <<>> =>
            /\ \A t \in Runnable(seen) : Ran(t.name) = Count(seen, {u \in Runnable(seen) : u.name = t.name})
            /\ Runnable(outcome.spoken) = {}
            /\ Len(outcome.calls) <= Count(seen, Runnable(seen))
                 + (IF ask.lead /\ Runnable(seen) = {} THEN Cardinality(Range(Roster) \cap Tools(seen)) ELSE 0)

(***************************************************************************)
(* No tool is run with an empty dictionary for arguments that could not be *)
(* read (the promise of parse_args, calls.py:60).                          *)
(***************************************************************************)
NoCallIsEmptied ==
  outcome.stage = "done" => \A i \in DOMAIN outcome.calls : outcome.calls[i].args > 0
=============================================================================
