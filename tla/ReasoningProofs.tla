-------------------------- MODULE ReasoningProofs --------------------------
(***************************************************************************)
(* Proofs about Reasoning, for any limits, number of steps, uploads and    *)
(* calls in a reply: rounds beyond the limit are paid for by uploads, at   *)
(* most three by one, an answer has read every note, and no project closes *)
(* without its report.                                                     *)
(***************************************************************************)
EXTENDS Reasoning, SequenceTheorems, TLAPS

\* A loop that works, its task's end or a coworker's call not yet reached.
Working == {"round", "model", "tools", "follow", "again"}

\* The rounds that the files seen so far have bought, and may buy yet.
Owed(b) == IF b.left > 0 THEN IF b.told THEN 1 ELSE 2 ELSE 0
Paid(b) == b.knew <= b.seen /\ b.extra + Owed(b) <= 3 * (b.seen - b.knew)

\* A loop past the head of its round is within its span; each round of it
\* beyond the limit is paid for; and a note not read yet has a round to come.
Fine(g, b) ==
  /\ Paid(b)
  /\ g.round <= g.span /\ (g.at \in (Working \cup {"wait"}) \ {"round"} => g.round < g.span)
  /\ g.span <= Limit + b.extra /\ b.extra <= MaxExtra
  /\ g.unread => g.at \in {"off", "end", "model"} \/ (g.at = "round" /\ g.round < g.span)

\* The closing round is a worker's, and a coworker has none.
Shape(f, g) ==
  /\ f = "co" => g.at \in {"off", "round", "model", "tools"}
  /\ f = "main" => g.at # "off"
  /\ g.at = "wait" => g.todo # <<>>
  /\ Orch(f) => g.closing = "no" /\ g.at \notin {"follow", "again"}

LoopTypeOK ==
  /\ kind \in {"ORCHESTRATOR", "WORKER"}
  /\ frame \in [Frames -> FrameType] /\ bag \in [Frames -> BagType] /\ outcome \in Outcomes

LoopsInv ==
  /\ LoopTypeOK
  /\ \A f \in Frames : Fine(frame[f], bag[f]) /\ Shape(f, frame[f])
  /\ frame["co"].at # "off" => frame["main"].at = "wait"
  /\ outcome # "none" => frame["main"].at = "end"
  /\ EveryNoteIsRead

ProjectTypeOK ==
  /\ steps \in [Steps -> StepStates] /\ report \in {"no", "stored", "lost"}
  /\ uploads \in Nat /\ graph \in 0 .. uploads /\ expired \in BOOLEAN
  /\ held \in [steps : [Steps -> StepStates], asked : BOOLEAN]
  /\ published \in [text : BOOLEAN, last : {"none", "usage", "error"}, episode : BOOLEAN]

RInv == LoopsInv /\ ProjectTypeOK /\ ClosedProjectHasItsReport

-----------------------------------------------------------------------------
LEMMA FramesAre == Frames = {"main", "co"} /\ "main" \in Frames /\ "co" \in Frames
BY DEF Frames

LEMMA NewFrameFine ==
  ASSUME NEW at \in {"off", "round"}, NEW n \in Nat
  PROVE  /\ NewFrame(at) \in FrameType /\ NewBag(n) \in BagType
         /\ Fine(NewFrame(at), NewBag(n))
         /\ NewFrame(at).at = at /\ NewFrame(at).closing = "no" /\ ~NewFrame(at).unread
<1>1. <<>> \in Seq(Tools)
  BY EmptySeq
<1>2. NewFrame(at) \in FrameType /\ NewBag(n) \in BagType
  BY <1>1, ReasoningAssumption DEF NewFrame, NewBag, FrameType, BagType
<1>5. Paid(NewBag(n))
  BY DEF NewBag, Paid, Owed
<1>3. Fine(NewFrame(at), NewBag(n))
  <2>1. NewBag(n).extra = 0
    BY DEF NewBag
  <2>2. QED
    BY <1>5, <2>1, ReasoningAssumption DEF NewFrame, Fine, Working
<1>4. QED
  BY <1>2, <1>3 DEF NewFrame

LEMMA RInvInit == RInit => RInv
<1> SUFFICES ASSUME RInit PROVE RInv
  OBVIOUS
<1>1. frame["co"] = NewFrame("off") /\ frame["main"] = NewFrame("round")
      /\ bag["co"] = NewBag(0) /\ bag["main"] = NewBag(0)
      /\ frame = [f \in Frames |-> frame[f]] /\ bag = [f \in Frames |-> bag[f]]
  BY FramesAre DEF RInit
<1>2. LoopTypeOK
  BY <1>1, FramesAre, NewFrameFine, ReasoningAssumption DEF RInit, LoopTypeOK, Outcomes
<1>3. \A f \in Frames : Fine(frame[f], bag[f]) /\ Shape(f, frame[f])
  BY <1>1, FramesAre, NewFrameFine DEF Shape, Orch
<1>4. LoopsInv
  BY <1>1, <1>2, <1>3, NewFrameFine DEF LoopsInv, RInit, EveryNoteIsRead, Answers
<1>5. PICK i \in Steps : steps = [j \in Steps |-> IF j < i THEN "done"
                                  ELSE IF j = i THEN "active" ELSE "pending"]
  BY DEF RInit
<1>6. steps \in [Steps -> StepStates] /\ ~AllDone(steps)
  BY <1>5 DEF StepStates, AllDone, Steps
<1>7. ClosedProjectHasItsReport
  <2>1. ~Closed
    <3>1. held = [steps |-> steps, asked |-> FALSE]
      BY DEF RInit
    <3>2. held.steps = steps
      BY <3>1
    <3>3. QED
      BY <1>6, <3>2 DEF Closed
  <2>2. outcome = "none"
    BY DEF RInit
  <2>3. QED
    BY <2>1, <2>2 DEF ClosedProjectHasItsReport
<1>9. ProjectTypeOK
  <2>1. held = [steps |-> steps, asked |-> FALSE]
        /\ published = [text |-> FALSE, last |-> "none", episode |-> FALSE]
    BY DEF RInit
  <2>2. report \in {"no", "stored", "lost"} /\ expired \in BOOLEAN /\ uploads = 0 /\ graph = 0
    BY DEF RInit
  <2>3. held \in [steps : [Steps -> StepStates], asked : BOOLEAN]
    BY <1>6, <2>1
  <2>4. published \in [text : BOOLEAN, last : {"none", "usage", "error"}, episode : BOOLEAN]
    BY <2>1
  <2>5. QED
    BY <1>6, <2>2, <2>3, <2>4 DEF ProjectTypeOK
<1>8. QED
  BY <1>4, <1>7, <1>9 DEF RInv

-----------------------------------------------------------------------------
(* What a step does to a loop. *)

\* A loop at work goes on to work, with its frame and its bag as they should be.
LEMMA GoesOn ==
  ASSUME LoopsInv, NEW f \in Frames, frame[f].at \in Working, UNCHANGED <<kind, outcome>>,
         NEW g \in FrameType, NEW b \in BagType, Fine(g, b), Shape(f, g), g.at \in Working,
         frame' = [frame EXCEPT ![f] = g], bag' = [bag EXCEPT ![f] = b]
  PROVE  LoopsInv'
<1>1. LoopTypeOK'
  BY DEF LoopsInv, LoopTypeOK
<1>2. frame'[f] = g /\ bag'[f] = b
      /\ \A h \in Frames : h # f => frame'[h] = frame[h] /\ bag'[h] = bag[h]
  BY DEF LoopsInv, LoopTypeOK
<1>3. ASSUME NEW h \in Frames
      PROVE  Fine(frame[h], bag[h])' /\ Shape(h, frame[h])'
  <2>1. Fine(frame'[h], bag'[h])
    BY <1>2 DEF LoopsInv
  <2>2. CASE h = f
    BY <1>2, <2>2 DEF Shape, Orch
  <2>3. CASE h # f
    BY <1>2, <2>3 DEF LoopsInv, Shape, Orch
  <2>4. QED
    BY <2>1, <2>2, <2>3 DEF Fine
<1>4. outcome = "none" /\ (f = "main" => frame["co"].at = "off")
      /\ (f = "co" => frame["main"].at = "wait")
  BY FramesAre DEF LoopsInv, Working
<1>5. (frame["co"].at # "off" => frame["main"].at = "wait")'
  BY <1>2, <1>4, FramesAre
<1>6. EveryNoteIsRead'
  BY <1>4 DEF EveryNoteIsRead, Answers
<1>7. QED
  BY <1>1, <1>3, <1>4, <1>5, <1>6 DEF LoopsInv

\* A loop ends: main's with an outcome, a coworker's back into main's call.
LEMMA Leaves ==
  ASSUME LoopsInv, NEW f \in Frames, frame[f].at \in Working, UNCHANGED kind,
         NEW g \in FrameType, NEW b \in BagType, Fine(g, b), Shape(f, g), g.at \in Working,
         NEW out \in Outcomes, out \in Answers => ~g.unread,
         Leave(f, g, out), bag' = [bag EXCEPT ![f] = b]
  PROVE  LoopsInv'
<1>1. CASE f = "main"
  <2> DEFINE e == [g EXCEPT !.at = "end"]
  <2>1. frame' = [frame EXCEPT !["main"] = e] /\ outcome' = out
    BY <1>1 DEF Leave
  <2>2. e \in FrameType /\ e.at = "end" /\ e.unread = g.unread /\ e.closing = g.closing
        /\ e.round = g.round /\ e.span = g.span
    BY DEF FrameType
  <2>3. frame["co"].at = "off"
    BY <1>1 DEF LoopsInv, Working
  <2>4. frame'["main"] = e /\ frame'["co"] = frame["co"] /\ bag'["main"] = b /\ bag'["co"] = bag["co"]
    BY <1>1, <2>1, FramesAre DEF LoopsInv, LoopTypeOK
  <2>5. LoopTypeOK'
    BY <1>1, <2>1, <2>2 DEF LoopsInv, LoopTypeOK
  <2>6. Fine(e, b) /\ Shape("main", e)
    BY <1>1, <2>2 DEF Fine, Shape, Working
  <2>7. ASSUME NEW h \in Frames
        PROVE  Fine(frame[h], bag[h])' /\ Shape(h, frame[h])'
    <3>1. CASE h = "main"
      BY <2>4, <2>6, <3>1 DEF Fine, Shape, Orch
    <3>2. CASE h = "co"
      <4>1. Fine(frame["co"], bag["co"]) /\ Shape("co", frame["co"])
        BY FramesAre DEF LoopsInv
      <4>2. QED
        BY <2>4, <3>2, <4>1 DEF Fine, Shape, Orch
    <3>3. QED
      BY <3>1, <3>2, FramesAre
  <2>8. QED
    BY <2>1, <2>2, <2>3, <2>4, <2>5, <2>7 DEF LoopsInv, EveryNoteIsRead
<1>2. CASE f = "co"
  <2> DEFINE e == [g EXCEPT !.at = "off"]
             m == Resumed(frame["main"])
  <2>1. frame' = [frame EXCEPT !["co"] = e, !["main"] = m] /\ outcome' = outcome
    BY <1>2, Zenon DEF Leave
  <2>2. e \in FrameType /\ e.at = "off" /\ e.unread = g.unread /\ e.closing = g.closing
        /\ e.round = g.round /\ e.span = g.span
    BY DEF FrameType
  <2>3. frame["main"].at = "wait" /\ frame["main"] \in FrameType /\ frame["main"].todo # <<>>
    BY <1>2, FramesAre DEF LoopsInv, LoopTypeOK, Shape, Working
  <2>4. Answered(frame["main"].todo) \in Seq(Tools)
    BY <2>3, HeadTailProperties DEF Answered, FrameType
  <2>5. m \in FrameType /\ m.at = "tools" /\ m.unread = frame["main"].unread
        /\ m.closing = frame["main"].closing /\ m.round = frame["main"].round
        /\ m.span = frame["main"].span
    BY <2>3, <2>4 DEF FrameType, Resumed
  <2>6. frame'["main"] = m /\ frame'["co"] = e /\ bag'["main"] = bag["main"] /\ bag'["co"] = b
    BY <1>2, <2>1, FramesAre DEF LoopsInv, LoopTypeOK
  <2>7. LoopTypeOK'
    BY <1>2, <2>1, <2>2, <2>5 DEF LoopsInv, LoopTypeOK
  <2>8. Fine(e, b) /\ Shape("co", e)
    BY <2>2 DEF Fine, Shape, Orch, Working
  <2>9. Fine(m, bag["main"]) /\ Shape("main", m)
    BY <2>3, <2>5, FramesAre DEF LoopsInv, Fine, Shape, Orch, Working
  <2>10. \A h \in Frames : Fine(frame[h], bag[h])' /\ Shape(h, frame[h])'
    BY <2>6, <2>8, <2>9, FramesAre DEF Shape, Orch, Fine
  <2>11. outcome = "none"
    BY <2>3 DEF LoopsInv
  <2>12. QED
    BY <2>1, <2>2, <2>6, <2>7, <2>10, <2>11 DEF LoopsInv, EveryNoteIsRead, Answers
<1>3. QED
  BY <1>1, <1>2, FramesAre

-----------------------------------------------------------------------------
(* Uploads. *)

LEMMA BagChanges ==
  ASSUME NEW m \in BagType, NEW n \in Nat, NEW p \in BOOLEAN
  PROVE  /\ [m EXCEPT !.text = n, !.left = 0] \in BagType
         /\ [m EXCEPT !.text = n, !.left = 0].extra = m.extra
         /\ [m EXCEPT !.told = IF p THEN @ ELSE TRUE] \in BagType
         /\ [m EXCEPT !.told = IF p THEN @ ELSE TRUE].extra = m.extra
         /\ MayRead(m) => [m EXCEPT !.left = @ - 1] \in BagType
         /\ [m EXCEPT !.left = @ - 1].extra = m.extra
<1>1. [m EXCEPT !.text = n, !.left = 0] \in BagType /\ [m EXCEPT !.text = n, !.left = 0].extra = m.extra
  BY DEF BagType
<1>2. /\ [m EXCEPT !.told = IF p THEN @ ELSE TRUE] \in BagType
      /\ [m EXCEPT !.told = IF p THEN @ ELSE TRUE].extra = m.extra
  BY DEF BagType
<1>3. MayRead(m) => [m EXCEPT !.left = @ - 1] \in BagType
  BY DEF BagType, MayRead
<1>4. [m EXCEPT !.left = @ - 1].extra = m.extra
  BY DEF BagType
<1>5. QED
  BY <1>1, <1>2, <1>3, <1>4

\* Looking at the uploads keeps a bag a bag, and pays for no round.
LEMMA NotesTyped ==
  ASSUME NEW b \in BagType, NEW wait \in BOOLEAN, NEW look \in Looks, ProjectTypeOK
  PROVE  /\ NoteUploads(b, wait, look).bag \in BagType
         /\ NoteUploads(b, wait, look).bag.extra = b.extra
<1> DEFINE fresh == look.listed /\ uploads > b.seen
           met == IF fresh
                  THEN [b EXCEPT !.seen = uploads, !.text = IF look.base THEN graph ELSE 0,
                                 !.left = KgReads, !.told = FALSE]
                  ELSE b
           text == IF look.later THEN look.now ELSE 0
<1>1. uploads \in Nat /\ graph \in Nat /\ look.now \in Nat /\ look.listed \in BOOLEAN
      /\ look.base \in BOOLEAN /\ look.later \in BOOLEAN /\ KgReads \in Nat
  BY ReasoningAssumption DEF ProjectTypeOK, Looks
<1>2. met \in BagType /\ met.extra = b.extra /\ text \in Nat /\ fresh \in BOOLEAN
  BY <1>1 DEF BagType
<1> DEFINE Result(bag1, note) == [bag |-> bag1, note |-> note]
<1>7. NoteUploads(b, wait, look) =
        IF (fresh /\ ~wait) \/ ~MayRead(met) THEN Result(met, fresh)
        ELSE IF text \notin {0, met.text}
          THEN Result([met EXCEPT !.text = text, !.left = 0], TRUE)
        ELSE IF wait
          THEN Result([met EXCEPT !.told = IF fresh THEN @ ELSE TRUE], fresh \/ ~met.told)
        ELSE Result([met EXCEPT !.left = @ - 1], FALSE)
  BY DEF NoteUploads, ToldOnce
<1> HIDE DEF fresh, met, text
<1>3. /\ [met EXCEPT !.text = text, !.left = 0] \in BagType
      /\ [met EXCEPT !.text = text, !.left = 0].extra = b.extra
  BY <1>2, BagChanges
<1>4. /\ [met EXCEPT !.told = IF fresh THEN @ ELSE TRUE] \in BagType
      /\ [met EXCEPT !.told = IF fresh THEN @ ELSE TRUE].extra = b.extra
  BY <1>2, BagChanges
<1>5. MayRead(met) => [met EXCEPT !.left = @ - 1] \in BagType
  BY <1>2, BagChanges
<1>9. [met EXCEPT !.left = @ - 1].extra = b.extra
  BY <1>2, BagChanges
<1>8. QED
  BY <1>2, <1>3, <1>4, <1>5, <1>7, <1>9

\* What a look changes of a bag: the files seen, what is left to read of the
\* graph, and what was told.
Same(m, b) == m.knew = b.knew /\ m.extra = b.extra /\ m.seen = b.seen

LEMMA BagParts ==
  ASSUME NEW m \in BagType, NEW n \in Nat, NEW p \in BOOLEAN
  PROVE  /\ Same([m EXCEPT !.text = n, !.left = 0], m) /\ [m EXCEPT !.text = n, !.left = 0].left = 0
         /\ Same(ToldOnce(m, p), m) /\ ToldOnce(m, p).left = m.left
         /\ ToldOnce(m, p).told = (IF p THEN m.told ELSE TRUE)
         /\ Same([m EXCEPT !.left = @ - 1], m) /\ [m EXCEPT !.left = @ - 1].left = m.left - 1
         /\ [m EXCEPT !.left = @ - 1].told = m.told
<1>1. Same([m EXCEPT !.text = n, !.left = 0], m) /\ [m EXCEPT !.text = n, !.left = 0].left = 0
  BY DEF BagType, Same
<1>2. Same(ToldOnce(m, p), m) /\ ToldOnce(m, p).left = m.left
  BY DEF BagType, Same, ToldOnce
<1>3. ToldOnce(m, p).told = (IF p THEN m.told ELSE TRUE)
  BY DEF BagType, ToldOnce
<1>4. Same([m EXCEPT !.left = @ - 1], m) /\ [m EXCEPT !.left = @ - 1].left = m.left - 1
  BY DEF BagType, Same
<1>5. [m EXCEPT !.left = @ - 1].told = m.told
  BY DEF BagType
<1>6. QED
  BY <1>1, <1>2, <1>3, <1>4, <1>5

\* A bag with a round more that was paid for.
Bought(b) == [b EXCEPT !.extra = @ + 1]

\* A file pays for three rounds: one when it is met before an answer, one
\* when there is nothing new in the graph, one when there is.
LEMMA NotesPaid ==
  ASSUME NEW b \in BagType, NEW wait \in BOOLEAN, NEW look \in Looks, ProjectTypeOK, Paid(b)
  PROVE  /\ Paid(NoteUploads(b, wait, look).bag)
         /\ wait /\ NoteUploads(b, wait, look).note => Paid(Bought(NoteUploads(b, wait, look).bag))
<1> DEFINE fresh == look.listed /\ uploads > b.seen
           met == IF fresh
                  THEN [b EXCEPT !.seen = uploads, !.text = IF look.base THEN graph ELSE 0,
                                 !.left = KgReads, !.told = FALSE]
                  ELSE b
           text == IF look.later THEN look.now ELSE 0
           Result(bag1, note) == [bag |-> bag1, note |-> note]
<1>1. uploads \in Nat /\ graph \in Nat /\ look.now \in Nat /\ look.listed \in BOOLEAN
      /\ look.base \in BOOLEAN /\ look.later \in BOOLEAN /\ KgReads \in Nat
  BY ReasoningAssumption DEF ProjectTypeOK, Looks
<1>2. PICK n : n = NoteUploads(b, wait, look)
  OBVIOUS
<1>3. n = IF (fresh /\ ~wait) \/ ~MayRead(met) THEN Result(met, fresh)
          ELSE IF text \notin {0, met.text}
            THEN Result([met EXCEPT !.text = text, !.left = 0], TRUE)
          ELSE IF wait
            THEN Result(ToldOnce(met, fresh), fresh \/ ~met.told)
          ELSE Result([met EXCEPT !.left = @ - 1], FALSE)
  BY <1>2 DEF NoteUploads
<1>4. met \in BagType /\ text \in Nat /\ fresh \in BOOLEAN
  BY <1>1 DEF BagType
<1>5. PICK knew \in Nat, seen \in Nat, extra \in Nat :
        knew = b.knew /\ seen = met.seen /\ extra = b.extra
  BY <1>4 DEF BagType
<1>6. met.knew = knew /\ met.extra = extra /\ knew <= seen
      /\ (fresh => extra + 3 <= 3 * (seen - knew) /\ ~met.told)
      /\ (~fresh => extra + Owed(met) <= 3 * (seen - knew))
  <2>1. b.seen \in Nat /\ b.left \in Nat
    BY DEF BagType
  <2>2. Owed(b) >= 0 /\ Owed(b) \in Nat
    BY <2>1 DEF Owed
  <2>3. CASE fresh
    <3>1. PICK m : m = met
      OBVIOUS
    <3>2. m = [b EXCEPT !.seen = uploads, !.text = IF look.base THEN graph ELSE 0,
                        !.left = KgReads, !.told = FALSE]
      BY <2>3, <3>1
    <3>3. m.knew = knew /\ m.extra = extra /\ m.seen = uploads /\ ~m.told
      BY <1>5, <3>2 DEF BagType
    <3>4. b.seen + 1 <= uploads /\ knew <= b.seen /\ extra + Owed(b) <= 3 * (b.seen - knew)
      BY <1>1, <1>5, <2>1, <2>3 DEF Paid
    <3>5. seen = uploads
      BY <1>5, <3>1, <3>3
    <3>6. extra + 3 <= 3 * (seen - knew) /\ knew <= seen
      BY <1>1, <2>1, <2>2, <3>4, <3>5
    <3>7. QED
      BY <2>3, <3>1, <3>3, <3>6
  <2>4. CASE ~fresh
    BY <1>5, <2>4 DEF Paid
  <2>5. QED
    BY <1>4, <2>3, <2>4
<1> HIDE DEF fresh, met, text
<1>7. PICK left \in Nat : left = met.left
  BY <1>4 DEF BagType
<1>8. \A m : Paid(m) <=> m.knew <= m.seen /\ m.extra + Owed(m) <= 3 * (m.seen - m.knew)
  BY DEF Paid
<1>9. CASE (fresh /\ ~wait) \/ ~MayRead(met)
  <2>1. n.bag = met /\ n.note = fresh
    BY <1>3, <1>9
  <2>2. Owed(met) \in 0 .. 2
    BY DEF Owed
  <2>3. Paid(met)
    BY <1>5, <1>6, <2>2 DEF Paid
  <2>4. ASSUME wait, fresh
        PROVE  Paid(Bought(met))
    <3>1. PICK m : m = Bought(met)
      OBVIOUS
    <3>2. m.knew = knew /\ m.seen = seen /\ m.extra = extra + 1 /\ m.left = left
      BY <1>4, <1>5, <1>6, <1>7, <3>1 DEF Bought, BagType
    <3>3. Owed(m) = 0
      BY <1>7, <1>9, <2>4, <3>2 DEF MayRead, Owed
    <3>4. QED
      BY <1>5, <1>6, <2>4, <3>1, <3>2, <3>3 DEF Paid
  <2>5. QED
    BY <1>2, <2>1, <2>3, <2>4
<1>10. CASE ~((fresh /\ ~wait) \/ ~MayRead(met)) /\ text \notin {0, met.text}
  <2>1. PICK m : m = [met EXCEPT !.text = text, !.left = 0]
    OBVIOUS
  <2>2. n.bag = m /\ m \in BagType /\ Same(m, met) /\ m.left = 0
    <3>1. n.bag = m
      BY <1>3, <1>10, <2>1
    <3>2. m \in BagType
      BY <1>4, <2>1, BagChanges
    <3>3. Same(m, met) /\ m.left = 0
      BY <1>4, <2>1, BagParts
    <3>4. QED
      BY <3>1, <3>2, <3>3
  <2>3. m.knew = knew /\ m.seen = seen /\ m.extra = extra
    BY <1>5, <1>6, <2>2 DEF Same
  <2>4. Owed(m) = 0 /\ extra + 1 <= 3 * (seen - knew)
    <3>1. Owed(m) = 0
      BY <2>2 DEF Owed
    <3>2. Owed(met) \in 1 .. 2
      BY <1>7, <1>10 DEF MayRead, Owed
    <3>3. QED
      BY <1>5, <1>6, <3>1, <3>2
  <2>5. PICK o : o = Bought(m)
    OBVIOUS
  <2>6. o.knew = knew /\ o.seen = seen /\ o.extra = extra + 1 /\ o.left = 0
    BY <2>2, <2>3, <2>5 DEF Bought, BagType
  <2>7. Owed(o) = 0
    BY <2>6 DEF Owed
  <2>8. Paid(o) /\ Paid(m)
    BY <1>5, <1>6, <2>3, <2>4, <2>6, <2>7 DEF Paid
  <2>9. QED
    BY <1>2, <2>2, <2>5, <2>8
<1>11. CASE /\ ~((fresh /\ ~wait) \/ ~MayRead(met)) /\ text \in {0, met.text} /\ wait
  <2>1. PICK m : m = ToldOnce(met, fresh)
    OBVIOUS
  <2>2. n.bag = m /\ n.note = (fresh \/ ~met.told)
    BY <1>3, <1>11, <2>1
  <2>3. Same(m, met) /\ m.left = met.left /\ m.told = (IF fresh THEN met.told ELSE TRUE) /\ m \in BagType
    <3>1. Same(m, met) /\ m.left = met.left
      BY <1>4, <2>1, BagParts
    <3>2. m.told = (IF fresh THEN met.told ELSE TRUE)
      BY <1>4, <2>1, BagParts
    <3>3. m \in BagType
      BY <1>4, <2>1, BagChanges DEF ToldOnce
    <3>4. QED
      BY <3>1, <3>2, <3>3
  <2>4. m.knew = knew /\ m.seen = seen /\ m.extra = extra /\ left > 0
    BY <1>5, <1>6, <1>7, <1>11, <2>3 DEF Same, MayRead
  <2>5. PICK o : o = Bought(m)
    OBVIOUS
  <2>6. o.knew = knew /\ o.seen = seen /\ o.extra = extra + 1 /\ o.left = left /\ o.told = m.told
    BY <1>7, <2>3, <2>4, <2>5 DEF Bought, BagType
  <2>7. CASE fresh
    <3>1. Owed(m) = 2 /\ Owed(o) = 2
      BY <1>6, <1>7, <2>3, <2>4, <2>6, <2>7 DEF Owed
    <3>2. Paid(m) /\ Paid(o)
      BY <1>5, <1>6, <2>4, <2>6, <2>7, <3>1 DEF Paid
    <3>3. QED
      BY <1>2, <2>2, <2>5, <3>2
  <2>8. CASE ~fresh /\ ~met.told
    <3>1. Owed(met) = 2 /\ Owed(m) = 1 /\ Owed(o) = 1
      BY <1>7, <2>3, <2>4, <2>6, <2>8 DEF Owed
    <3>2. Paid(m) /\ Paid(o)
      BY <1>5, <1>6, <2>4, <2>6, <2>8, <3>1 DEF Paid
    <3>3. QED
      BY <1>2, <2>2, <2>5, <3>2
  <2>9. CASE ~fresh /\ met.told
    <3>1. Owed(met) = 1 /\ Owed(m) = 1 /\ ~n.note
      BY <1>7, <2>2, <2>3, <2>4, <2>9 DEF Owed
    <3>2. Paid(m)
      BY <1>5, <1>6, <2>4, <2>9, <3>1 DEF Paid
    <3>3. QED
      BY <1>2, <2>2, <3>1, <3>2
  <2>10. QED
    BY <2>7, <2>8, <2>9
<1>12. CASE /\ ~((fresh /\ ~wait) \/ ~MayRead(met)) /\ text \in {0, met.text} /\ ~wait
  <2>1. PICK m : m = [met EXCEPT !.left = @ - 1]
    OBVIOUS
  <2>2. n.bag = m
    BY <1>3, <1>12, <2>1
  <2>3. Same(m, met) /\ m.left = left - 1 /\ m.told = met.told
    BY <1>4, <1>7, <2>1, BagParts
  <2>4. left > 0 /\ ~fresh
    BY <1>7, <1>12 DEF MayRead
  <2>5. Owed(m) <= Owed(met) /\ Owed(m) \in Nat /\ Owed(met) \in Nat
    BY <1>7, <2>3, <2>4 DEF Owed
  <2>6. m.knew = knew /\ m.seen = seen /\ m.extra = extra
    BY <1>5, <1>6, <2>3 DEF Same
  <2>7. Paid(m)
    BY <1>5, <1>6, <2>4, <2>5, <2>6 DEF Paid
  <2>8. QED
    BY <1>2, <1>12, <2>2, <2>7
<1>13. QED
  BY <1>9, <1>10, <1>11, <1>12

\* A bag that was not looked into stays one.
LEMMA SameBag ==
  ASSUME LoopsInv, NEW f \in Frames, UNCHANGED bag
  PROVE  bag' = [bag EXCEPT ![f] = bag[f]] /\ bag[f] \in BagType
BY DEF LoopsInv, LoopTypeOK

\* A frame with another number of rounds is a frame.
LEMMA RoundSet ==
  ASSUME NEW k \in FrameType, NEW n \in Nat
  PROVE  [k EXCEPT !.round = n] \in FrameType
BY DEF FrameType

\* Going into the next round, with as many rounds left as it takes.
LEMMA NextRoundKeeps ==
  ASSUME LoopsInv, NEW f \in Frames, frame[f].at \in Working, UNCHANGED kind,
         NEW g \in FrameType, NEW b \in BagType, g.at \in Working, Shape(f, g),
         g.round < g.span, g.unread => g.round + 1 < g.span,
         g.span <= Limit + b.extra, b.extra <= MaxExtra, Paid(b),
         NextRound(f, g), bag' = [bag EXCEPT ![f] = b]
  PROVE  LoopsInv' /\ outcome' = outcome
<1> DEFINE h == [g EXCEPT !.at = "round", !.round = @ + 1]
<1>1. frame' = [frame EXCEPT ![f] = h] /\ outcome' = outcome
  BY DEF NextRound
<1>3. g.round \in Nat /\ g.span \in Nat
  BY DEF FrameType
<1>2. h \in FrameType /\ h.at = "round" /\ h.round = g.round + 1 /\ h.span = g.span
      /\ h.unread = g.unread /\ h.closing = g.closing
  <2> DEFINE k == [g EXCEPT !.at = "round"]
  <2>5. k \in FrameType /\ k.round = g.round
    BY DEF FrameType
  <2>6. h = [k EXCEPT !.round = g.round + 1]
    BY <2>5
  <2> HIDE DEF k, h
  <2>7. g.round + 1 \in Nat
    BY <1>3
  <2>1. h \in FrameType
    BY <2>5, <2>6, <2>7, RoundSet
  <2>2. h.at = "round" /\ h.round = g.round + 1 /\ h.span = g.span
    BY DEF FrameType, h
  <2>3. h.unread = g.unread /\ h.closing = g.closing
    BY DEF FrameType, h
  <2>4. QED
    BY <2>1, <2>2, <2>3
<1> HIDE DEF h
<1>4. Fine(h, b) /\ Shape(f, h) /\ h.at \in Working
  BY <1>2, <1>3 DEF Fine, Shape, Working
<1>5. QED
  BY <1>1, <1>2, <1>4, GoesOn

\* Before an answer ends the loop a late upload may buy a round.
LEMMA KeepGoingKeeps ==
  ASSUME LoopsInv, ProjectTypeOK, NEW f \in Frames, frame[f].at \in Working, UNCHANGED kind,
         NEW g \in FrameType, g.at \in Working, Shape(f, g), Fine(g, bag[f]),
         g.round < g.span, ~g.unread, NEW out \in Outcomes, KeepGoingOr(f, g, out)
  PROVE  LoopsInv' /\ graph' \in graph .. uploads /\ outcome' \in {outcome, out}
<1>1. PICK look \in Looks :
        LET n == NoteUploads(bag[f], TRUE, look)
        IN IF ~MayExtend(bag[f])
           THEN Leave(f, g, out) /\ UNCHANGED <<bag, graph>>
           ELSE /\ graph' = look.now
                /\ IF n.note
                   THEN /\ bag' = [bag EXCEPT ![f] = [n.bag EXCEPT !.extra = @ + 1]]
                        /\ NextRound(f, [g EXCEPT !.unread = TRUE, !.span = SpanAfterNote(g)])
                   ELSE /\ bag' = [bag EXCEPT ![f] = n.bag]
                        /\ Leave(f, g, out)
  BY DEF KeepGoingOr
<1> DEFINE n == NoteUploads(bag[f], TRUE, look)
<1>2. bag[f] \in BagType /\ graph \in 0 .. uploads /\ uploads \in Nat
  BY DEF LoopsInv, LoopTypeOK, ProjectTypeOK
<1>3. n.bag \in BagType /\ n.bag.extra = bag[f].extra
  BY <1>2, NotesTyped
<1>11. Paid(n.bag) /\ (n.note => Paid(Bought(n.bag)))
  BY <1>2, NotesPaid DEF Fine
<1>4. look.now \in graph .. uploads
  BY DEF Looks
<1>5. outcome' \in {outcome, out} \/ \E h : NextRound(f, h)
  BY <1>1 DEF Leave
<1>6. outcome' \in {outcome, out}
  BY <1>5 DEF NextRound
<1> HIDE DEF n
<1>7. CASE ~MayExtend(bag[f])
  BY <1>1, <1>2, <1>6, <1>7, SameBag, Leaves
<1>8. CASE MayExtend(bag[f]) /\ ~n.note
  <2>1. Fine(g, n.bag)
    BY <1>3, <1>11 DEF Fine
  <2>2. Leave(f, g, out) /\ bag' = [bag EXCEPT ![f] = n.bag] /\ graph' = look.now
    BY <1>1, <1>8 DEF n
  <2>3. QED
    BY <1>3, <1>4, <1>6, <2>1, <2>2, Leaves
<1>9. CASE MayExtend(bag[f]) /\ n.note
  <2> DEFINE h == [g EXCEPT !.unread = TRUE, !.span = SpanAfterNote(g)]
             b == [n.bag EXCEPT !.extra = @ + 1]
  <2>1. NextRound(f, h) /\ bag' = [bag EXCEPT ![f] = b] /\ graph' = look.now
    BY <1>1, <1>9 DEF n
  <2>2. g.round \in Nat /\ g.span \in Nat
    BY DEF FrameType
  <2>3. SpanAfterNote(g) \in Nat /\ g.round + 1 < SpanAfterNote(g) /\ SpanAfterNote(g) <= g.span + 1
    BY <2>2 DEF SpanAfterNote
  <2>4. h \in FrameType /\ h.at = g.at /\ h.round = g.round /\ h.span = SpanAfterNote(g)
        /\ h.closing = g.closing /\ h.todo = g.todo
    BY <2>3 DEF FrameType
  <2>5. b \in BagType /\ b.extra = bag[f].extra + 1
    BY <1>3 DEF BagType
  <2>12. Paid(b)
    BY <1>9, <1>11 DEF Bought
  <2>6. bag[f].extra \in Nat /\ Limit \in Nat
    BY <1>2, ReasoningAssumption DEF BagType
  <2> HIDE DEF h, b
  <2>7. h.span <= Limit + b.extra /\ b.extra <= MaxExtra
    BY <1>9, <2>2, <2>3, <2>4, <2>5, <2>6, ReasoningAssumption DEF Fine, MayExtend
  <2>8. Shape(f, h)
    BY <2>4 DEF Shape
  <2>9. h.round < h.span /\ h.round + 1 < h.span
    BY <2>2, <2>3, <2>4
  <2>10. LoopsInv'
    BY <2>1, <2>4, <2>5, <2>7, <2>8, <2>9, <2>12, NextRoundKeeps
  <2>11. QED
    BY <1>4, <1>6, <2>1, <2>10
<1>10. QED
  BY <1>7, <1>8, <1>9

-----------------------------------------------------------------------------
(* The project. *)

\* A project that a step leaves alone, with the outcome of a loop that may
\* answer for it.
LEMMA ProjectKept ==
  ASSUME RInv, UNCHANGED <<kind, project, uploads, expired, held, published>>,
         graph' \in graph .. uploads,
         outcome' \in {"reply", "ready"} /\ Orch("main") => outcome' = outcome \/ OrchCanStop
  PROVE  ProjectTypeOK' /\ ClosedProjectHasItsReport'
<1>1. uploads \in Nat /\ graph \in 0 .. uploads
  BY DEF RInv, ProjectTypeOK
<1>2. graph' \in 0 .. uploads
  BY <1>1
<1>3. ProjectTypeOK'
  BY <1>2 DEF RInv, ProjectTypeOK, project
<1>4. ClosedProjectHasItsReport'
  BY DEF RInv, ClosedProjectHasItsReport, Closed, OrchCanStop, Orch, project
<1>5. QED
  BY <1>3, <1>4

\* A loop that a step leaves alone.
LEMMA LoopsKept ==
  ASSUME LoopsInv, UNCHANGED <<kind, frame, bag, outcome>>
  PROVE  LoopsInv'
<1>1. \A f \in Frames : Fine(frame[f], bag[f])' /\ Shape(f, frame[f])'
  BY DEF LoopsInv, Fine, Shape, Orch
<1>2. QED
  BY <1>1 DEF LoopsInv, LoopTypeOK, EveryNoteIsRead

\* What the facts about a loop at work are.
LEMMA AtWork ==
  ASSUME LoopsInv, NEW f \in Frames, frame[f].at \in Working
  PROVE  /\ frame[f] \in FrameType /\ frame[f].round \in Nat /\ frame[f].span \in Nat
         /\ Fine(frame[f], bag[f]) /\ Shape(f, frame[f])
         /\ frame[f].at # "round" => frame[f].round < frame[f].span
BY DEF LoopsInv, LoopTypeOK, FrameType, Fine, Working

LEMMA BeginRoundKeeps ==
  ASSUME RInv, NEW f \in Frames, BeginRound(f)
  PROVE  RInv'
<1> DEFINE g == frame[f]
<1>1. g.at = "round" /\ g.at \in Working /\ LoopsInv /\ ProjectTypeOK
  BY DEF BeginRound, RInv, Working
<1>2. g \in FrameType /\ g.round \in Nat /\ g.span \in Nat /\ Fine(g, bag[f]) /\ Shape(f, g)
  BY <1>1, AtWork
<1>3. bag[f] \in BagType /\ bag[f].extra \in Nat
  BY <1>1 DEF LoopsInv, LoopTypeOK, BagType
<1>4. UNCHANGED <<kind, project, env, held, published>>
  BY DEF BeginRound
<1>5. graph' \in graph .. uploads
  BY <1>1, <1>4 DEF env, ProjectTypeOK
<1>6. CASE g.round >= g.span \/ g.round >= Limit + Slack
  <2>1. PICK out \in {"stopped", "ready", "forced"} :
           /\ Leave(f, g, out) /\ UNCHANGED bag
           /\ out = "ready" => Orch(f) /\ OrchCanStop
    BY <1>6 DEF BeginRound
  <2>2. ~g.unread
    BY <1>1, <1>2, <1>3, <1>6, ReasoningAssumption DEF Fine
  <2>3. LoopsInv'
    BY <1>1, <1>2, <1>4, <2>1, <2>2, SameBag, Leaves DEF Outcomes
  <2>4. outcome' \in {"reply", "ready"} => outcome' = outcome \/ OrchCanStop
    BY <2>1 DEF Leave
  <2>5. QED
    BY <1>4, <1>5, <2>3, <2>4, ProjectKept DEF RInv, env
<1>7. CASE ~(g.round >= g.span \/ g.round >= Limit + Slack) /\ expired
  <2>1. Leave(f, g, "budget") /\ UNCHANGED bag
    BY <1>7 DEF BeginRound
  <2>2. LoopsInv'
    BY <1>1, <1>2, <1>4, <2>1, SameBag, Leaves DEF Outcomes, Answers
  <2>3. outcome' \in {"reply", "ready"} => outcome' = outcome
    BY <2>1 DEF Leave
  <2>4. QED
    BY <1>4, <1>5, <2>2, <2>3, ProjectKept DEF RInv, env
<1>8. CASE ~(g.round >= g.span \/ g.round >= Limit + Slack) /\ ~expired
  <2>1. PICK look \in Looks :
          LET n == NoteUploads(bag[f], FALSE, look) IN
          /\ look.now = graph
          /\ bag' = [bag EXCEPT ![f] = n.bag]
          /\ frame' = [frame EXCEPT ![f] = [g EXCEPT !.at = "model", !.unread = @ \/ n.note]]
          /\ UNCHANGED outcome
    BY <1>8 DEF BeginRound
  <2> DEFINE n == NoteUploads(bag[f], FALSE, look)
             h == [g EXCEPT !.at = "model", !.unread = @ \/ n.note]
  <2>2. n.bag \in BagType /\ n.bag.extra = bag[f].extra
    BY <1>1, <1>3, NotesTyped
  <2>8. Paid(n.bag)
    BY <1>1, <1>2, <1>3, NotesPaid DEF Fine
  <2> HIDE DEF n
  <2>3. h \in FrameType /\ h.at = "model" /\ h.round = g.round /\ h.span = g.span /\ h.closing = g.closing
    BY <1>2 DEF FrameType
  <2>4. bag' = [bag EXCEPT ![f] = n.bag] /\ frame' = [frame EXCEPT ![f] = h] /\ outcome' = outcome
    BY <2>1 DEF n
  <2> HIDE DEF h
  <2>5. Fine(h, n.bag) /\ Shape(f, h) /\ h.at \in Working
    BY <1>2, <1>8, <2>2, <2>3, <2>8 DEF Fine, Shape, Working
  <2>6. LoopsInv'
    BY <1>1, <1>4, <2>2, <2>3, <2>4, <2>5, GoesOn
  <2>7. QED
    BY <1>4, <1>5, <2>4, <2>6, ProjectKept DEF RInv, env
<1>9. QED
  BY <1>6, <1>7, <1>8

LEMMA ModelStopsKeeps ==
  ASSUME RInv, NEW f \in Frames, ModelStops(f)
  PROVE  RInv'
<1>1. frame[f].at \in Working /\ LoopsInv
  BY DEF ModelStops, Working, RInv
<1>2. PICK out \in {"budget", "error"} : Leave(f, frame[f], out)
  BY DEF ModelStops
<1>3. UNCHANGED <<kind, project, env, held, bag, published>>
  BY DEF ModelStops
<1>4. LoopsInv'
  BY <1>1, <1>2, <1>3, AtWork, SameBag, Leaves DEF Outcomes, Answers
<1>5. outcome' \in {"reply", "ready"} => outcome' = outcome
  BY <1>2 DEF Leave
<1>6. graph' \in graph .. uploads
  BY <1>3 DEF env, RInv, ProjectTypeOK
<1>7. QED
  BY <1>3, <1>4, <1>5, <1>6, ProjectKept DEF RInv, env

\* A loop that goes on with its bag, and leaves the project alone.
LEMMA OnlyFrame ==
  ASSUME RInv, NEW f \in Frames, frame[f].at \in Working,
         UNCHANGED <<kind, outcome, bag, project, env, held, published>>,
         NEW g \in FrameType, Fine(g, bag[f]), Shape(f, g), g.at \in Working,
         frame' = [frame EXCEPT ![f] = g]
  PROVE  RInv'
<1>1. LoopsInv'
  BY SameBag, GoesOn DEF RInv
<1>2. graph' \in graph .. uploads
  BY DEF env, RInv, ProjectTypeOK
<1>3. QED
  BY <1>1, <1>2, ProjectKept DEF RInv, env

\* The calls of a reply are calls.
LEMMA BatchTyped ==
  ASSUME NEW f, NEW calls \in Batches(f)
  PROVE  calls \in Seq(Tools)
<1>1. Offered(f) \subseteq Tools
  BY DEF Offered, Tools
<1>2. PICK n \in 1 .. MaxBatch : calls \in [1 .. n -> Offered(f)]
  BY DEF Batches
<1>3. calls \in [1 .. n -> Tools] /\ n \in Nat
  BY <1>1, <1>2, ReasoningAssumption
<1>4. QED
  BY <1>3, SeqDef

LEMMA ModelCallsKeeps ==
  ASSUME RInv, NEW f \in Frames, ModelCalls(f)
  PROVE  RInv'
<1> DEFINE g == frame[f]
<1>1. g.at = "model" /\ g.at \in Working /\ LoopsInv
  BY DEF ModelCalls, Working, RInv
<1>2. PICK calls \in Batches(f) :
        frame' = [frame EXCEPT ![f] = [g EXCEPT
          !.at = "tools", !.todo = calls, !.asked = FALSE, !.unread = FALSE,
          !.closing = IF ~Orch(f) /\ g.tools /\ g.round = Limit - 1 THEN "closing" ELSE "no",
          !.tools = TRUE]]
  BY DEF ModelCalls
<1> DEFINE closing == IF ~Orch(f) /\ g.tools /\ g.round = Limit - 1 THEN "closing" ELSE "no"
           h == [g EXCEPT !.at = "tools", !.todo = calls, !.asked = FALSE, !.unread = FALSE,
                          !.closing = closing, !.tools = TRUE]
<1>3. closing \in {"closing", "no"} /\ (Orch(f) => closing = "no")
  OBVIOUS
<1>4. frame' = [frame EXCEPT ![f] = h]
  BY <1>2
<1> HIDE DEF closing
<1>5. g \in FrameType /\ calls \in Seq(Tools)
  BY <1>1, AtWork, BatchTyped
<1>6. h \in FrameType
  BY <1>3, <1>5 DEF FrameType
<1>7. h.at = "tools" /\ h.round = g.round /\ h.span = g.span /\ ~h.unread /\ h.closing = closing
  BY <1>5 DEF FrameType
<1> HIDE DEF h
<1>8. Fine(h, bag[f]) /\ Shape(f, h) /\ h.at \in Working
  BY <1>1, <1>3, <1>7, AtWork DEF Fine, Shape, Working
<1>9. QED
  BY <1>1, <1>4, <1>6, <1>8, OnlyFrame DEF ModelCalls

LEMMA ModelSpeaksKeeps ==
  ASSUME RInv, NEW f \in Frames, ModelSpeaks(f)
  PROVE  RInv'
<1> DEFINE g == [frame[f] EXCEPT !.unread = FALSE]
           out == IF Orch(f) /\ ~OrchCanStop THEN "forced" ELSE "reply"
<1>1. frame[f].at = "model" /\ frame[f].at \in Working /\ LoopsInv /\ ProjectTypeOK
  BY DEF ModelSpeaks, Working, RInv
<1>2. frame[f] \in FrameType
  BY <1>1, AtWork
<1>3. g \in FrameType /\ g.at = "model" /\ g.round = frame[f].round /\ g.span = frame[f].span
      /\ ~g.unread /\ g.closing = frame[f].closing
  BY <1>1, <1>2 DEF FrameType
<1>4. UNCHANGED <<kind, project, uploads, expired, held, published>>
  BY DEF ModelSpeaks
<1>5. IF Nudged(f) THEN NextRound(f, g) /\ UNCHANGED <<bag, graph>> ELSE KeepGoingOr(f, g, out)
  BY DEF ModelSpeaks
<1>6. out \in Outcomes /\ (out = "reply" /\ Orch(f) => OrchCanStop) /\ out # "ready"
  BY DEF Outcomes
<1> HIDE DEF g, out
<1>7. g.at \in Working /\ Shape(f, g) /\ Fine(g, bag[f]) /\ g.round < g.span
  BY <1>1, <1>3, AtWork DEF Working, Shape, Fine
<1>8. g.span <= Limit + bag[f].extra /\ bag[f].extra <= MaxExtra /\ Paid(bag[f])
  BY <1>7 DEF Fine
<1>9. CASE Nudged(f)
  <2>1. LoopsInv' /\ outcome' = outcome
    BY <1>1, <1>3, <1>4, <1>5, <1>7, <1>8, <1>9, SameBag, NextRoundKeeps
  <2>2. graph' \in graph .. uploads
    BY <1>1, <1>5, <1>9 DEF ProjectTypeOK
  <2>3. QED
    BY <1>4, <2>1, <2>2, ProjectKept DEF RInv
<1>10. CASE ~Nudged(f)
  <2>1. LoopsInv' /\ graph' \in graph .. uploads /\ outcome' \in {outcome, out}
    BY <1>1, <1>3, <1>4, <1>5, <1>6, <1>7, <1>10, KeepGoingKeeps
  <2>2. outcome' = outcome \/ f = "main"
    BY <1>5, <1>10, FramesAre DEF KeepGoingOr, Leave, NextRound
  <2>3. QED
    BY <1>4, <1>6, <2>1, <2>2, ProjectKept DEF RInv
<1>11. QED
  BY <1>9, <1>10

-----------------------------------------------------------------------------
(* The tools. *)

\* A call is answered: one call less is left of the batch.
LEMMA CallEndsKeeps ==
  ASSUME LoopsInv, NEW f \in Frames, NEW names, Calling(f, names), NEW asked \in BOOLEAN,
         CallEnds(f, asked), UNCHANGED <<kind, bag, outcome>>
  PROVE  LoopsInv'
<1> DEFINE g == frame[f]
           found == Head(g.todo) = "data" /\ g.closing # "extra"
           h == [g EXCEPT !.todo = Tail(@), !.asked = @ \/ asked, !.data = @ \/ found]
<1>1. g.at = "tools" /\ g.todo # <<>> /\ g.at \in Working
  BY DEF Calling, Working
<1>2. g \in FrameType /\ Fine(g, bag[f]) /\ Shape(f, g)
  BY <1>1, AtWork
<1>3. Tail(g.todo) \in Seq(Tools)
  BY <1>1, <1>2, HeadTailProperties DEF FrameType
<1>4. frame' = [frame EXCEPT ![f] = h]
  BY DEF CallEnds
<1>5. found \in BOOLEAN
  OBVIOUS
<1> HIDE DEF found
<1>6. h \in FrameType
  BY <1>2, <1>3, <1>5 DEF FrameType
<1>7. h.at = "tools" /\ h.round = g.round /\ h.span = g.span /\ h.unread = g.unread
      /\ h.closing = g.closing
  BY <1>1, <1>2 DEF FrameType
<1> HIDE DEF h
<1>8. Fine(h, bag[f]) /\ Shape(f, h) /\ h.at \in Working
  BY <1>1, <1>2, <1>7 DEF Fine, Shape, Working
<1>9. QED
  BY <1>1, <1>4, <1>6, <1>8, SameBag, GoesOn

LEMMA ApplyStepTyped ==
  ASSUME NEW s \in [Steps -> StepStates], NEW i \in Steps, NEW state \in StepStates
  PROVE  ApplyStep(s, i, state) \in [Steps -> StepStates]
BY DEF ApplyStep, StepStates

LEMMA AdvanceKeeps ==
  ASSUME RInv, NEW f \in Frames, Advance(f)
  PROVE  RInv'
<1>1. LoopsInv'
  BY CallEndsKeeps DEF Advance, RInv
<1>2. UNCHANGED <<kind, report, uploads, graph, expired, published, outcome>>
  BY DEF Advance, env
<1>3. PICK i \in Steps, state \in StepStates :
        LET next == ApplyStep(steps, i, state) IN
        IF Refused(next)
        THEN UNCHANGED <<steps, held>>
        ELSE /\ steps' = next
             /\ held' = IF f = "main" /\ Head(frame[f].todo) \in {"advance", "plan"}
                        THEN [held EXCEPT !.steps = next] ELSE held
  BY DEF Advance
<1> DEFINE next == ApplyStep(steps, i, state)
<1>4. next \in [Steps -> StepStates]
  BY ApplyStepTyped DEF RInv, ProjectTypeOK
<1>5. /\ steps' = steps \/ (steps' = next /\ (AllDone(next) => report # "no"))
      /\ held' = held \/ (held' = [held EXCEPT !.steps = next] /\ (AllDone(next) => report # "no"))
  BY <1>3 DEF Ready, Refused
<1> HIDE DEF next
<1>6. held \in [steps : [Steps -> StepStates], asked : BOOLEAN]
  BY DEF RInv, ProjectTypeOK
<1>7. /\ held' \in [steps : [Steps -> StepStates], asked : BOOLEAN] /\ held'.asked = held.asked
      /\ held'.steps = held.steps \/ (held'.steps = next /\ (AllDone(next) => report # "no"))
  BY <1>4, <1>5, <1>6
<1>8. ProjectTypeOK'
  BY <1>2, <1>4, <1>5, <1>7 DEF RInv, ProjectTypeOK
<1>9. AllDone(steps') \/ AllDone(held'.steps) => report # "no"
  <2>1. AllDone(steps) \/ AllDone(held.steps) => report # "no"
    BY DEF RInv, Closed, ClosedProjectHasItsReport
  <2>2. QED
    BY <1>5, <1>7, <2>1
<1>10. ClosedProjectHasItsReport'
  <2>1. (outcome \in {"reply", "ready"} /\ kind = "ORCHESTRATOR" /\ ~held.asked => report # "no")'
    BY <1>2, <1>7 DEF RInv, ClosedProjectHasItsReport
  <2>2. (Closed => report # "no")'
    BY <1>2, <1>9 DEF AllDone, Closed
  <2>3. QED
    BY <2>1, <2>2 DEF ClosedProjectHasItsReport
<1>11. QED
  BY <1>1, <1>8, <1>10 DEF RInv

LEMMA AskUserKeeps ==
  ASSUME RInv, AskUser
  PROVE  RInv'
<1>1. LoopsInv'
  BY CallEndsKeeps, FramesAre DEF AskUser, RInv
<1>2. held' = [held EXCEPT !.asked = TRUE] /\ UNCHANGED <<kind, project, env, outcome, published>>
  BY DEF AskUser
<1>3. held \in [steps : [Steps -> StepStates], asked : BOOLEAN]
  BY DEF RInv, ProjectTypeOK
<1>4. held' \in [steps : [Steps -> StepStates], asked : BOOLEAN]
      /\ held'.steps = held.steps /\ held'.asked
  BY <1>2, <1>3
<1>5. ProjectTypeOK'
  BY <1>2, <1>4 DEF RInv, ProjectTypeOK, project, env
<1>6. ClosedProjectHasItsReport'
  BY <1>2, <1>4 DEF RInv, ClosedProjectHasItsReport, Closed, project, AllDone
<1>7. QED
  BY <1>1, <1>5, <1>6 DEF RInv

LEMMA WriteReportKeeps ==
  ASSUME RInv, WriteReport
  PROVE  RInv'
<1>1. LoopsInv'
  BY CallEndsKeeps, FramesAre DEF WriteReport, RInv
<1>2. report' = "stored" /\ UNCHANGED <<kind, steps, env, held, outcome, published>>
  BY DEF WriteReport
<1>3. report' \in {"no", "stored", "lost"} /\ report' # "no"
  BY <1>2
<1>4. ProjectTypeOK'
  BY <1>2, <1>3 DEF RInv, ProjectTypeOK, env
<1>5. ClosedProjectHasItsReport'
  BY <1>3 DEF ClosedProjectHasItsReport
<1>6. QED
  BY <1>1, <1>4, <1>5 DEF RInv

\* A draft takes the place of a report: of a closed project's, its loss is known.
LEMMA WriteFileKeeps ==
  ASSUME RInv, NEW f \in Frames, WriteFile(f)
  PROVE  RInv'
<1>1. LoopsInv'
  BY CallEndsKeeps DEF WriteFile, RInv
<1>2. report' = Replaced /\ UNCHANGED <<kind, steps, env, held, outcome, published>>
  BY DEF WriteFile
<1>3. ProjectTypeOK'
  <2>1. report' \in {"no", "stored", "lost"}
    BY <1>2 DEF RInv, ProjectTypeOK, Replaced
  <2>2. QED
    BY <1>2, <2>1 DEF RInv, ProjectTypeOK, env
<1>4. Closed => report' # "no"
  BY <1>2 DEF RInv, ClosedProjectHasItsReport, Replaced, Ready
<1>5. outcome = "none"
  <2>1. frame[f].at = "tools" /\ LoopsInv
    BY DEF WriteFile, Calling, RInv
  <2>2. frame["main"].at # "end"
    BY <2>1, FramesAre DEF LoopsInv
  <2>3. QED
    BY <2>1, <2>2 DEF LoopsInv
<1>6. ClosedProjectHasItsReport'
  BY <1>2, <1>4, <1>5 DEF ClosedProjectHasItsReport, Closed, AllDone
<1>7. QED
  BY <1>1, <1>3, <1>6 DEF RInv

LEMMA OtherCallKeeps ==
  ASSUME RInv, NEW f \in Frames, OtherCall(f)
  PROVE  RInv'
<1>1. LoopsInv'
  BY CallEndsKeeps DEF OtherCall, RInv
<1>2. UNCHANGED <<kind, project, env, held, outcome, published>>
  BY DEF OtherCall
<1>3. graph' \in graph .. uploads
  BY <1>2 DEF env, RInv, ProjectTypeOK
<1>4. QED
  BY <1>1, <1>2, <1>3, ProjectKept DEF RInv, env

LEMMA DelegateKeeps ==
  ASSUME RInv, Delegate
  PROVE  RInv'
<1> DEFINE m == frame["main"]
           h == [m EXCEPT !.at = "wait"]
           c == NewFrame("round")
           b == NewBag(uploads)
<1>1. m.at = "tools" /\ m.todo # <<>> /\ m.at \in Working
  BY DEF Delegate, Calling, Working
<1>2. LoopsInv /\ ProjectTypeOK /\ uploads \in Nat
  BY DEF RInv, ProjectTypeOK
<1>3. m \in FrameType /\ Fine(m, bag["main"]) /\ Shape("main", m)
  BY <1>1, <1>2, AtWork, FramesAre
<1>4. frame' = [frame EXCEPT !["main"] = h, !["co"] = c] /\ bag' = [bag EXCEPT !["co"] = b]
      /\ UNCHANGED <<kind, project, env, held, outcome, published>>
  BY DEF Delegate
<1>5. h \in FrameType
  BY <1>3 DEF FrameType
<1>6. h.at = "wait" /\ h.round = m.round /\ h.span = m.span /\ h.unread = m.unread
      /\ h.closing = m.closing /\ h.todo = m.todo
  BY <1>3 DEF FrameType
<1>7. c \in FrameType /\ b \in BagType /\ Fine(c, b) /\ c.at = "round" /\ c.closing = "no"
      /\ ~c.unread
  BY <1>2, NewFrameFine
<1> HIDE DEF h, c, b
<1>8. Fine(h, bag["main"]) /\ Shape("main", h)
  BY <1>1, <1>3, <1>6 DEF Fine, Shape, Working
<1>9. Shape("co", c)
  BY <1>7 DEF Shape, Orch
<1>10. frame'["main"] = h /\ frame'["co"] = c /\ bag'["main"] = bag["main"] /\ bag'["co"] = b
  BY <1>2, <1>4, FramesAre DEF LoopsInv, LoopTypeOK
<1>11. LoopTypeOK'
  BY <1>2, <1>4, <1>5, <1>7 DEF LoopsInv, LoopTypeOK
<1>12. ASSUME NEW f \in Frames
       PROVE  Fine(frame[f], bag[f])' /\ Shape(f, frame[f])'
  <2>1. CASE f = "main"
    BY <1>4, <1>8, <1>10, <2>1 DEF Fine, Shape, Orch
  <2>2. CASE f = "co"
    BY <1>4, <1>7, <1>9, <1>10, <2>2 DEF Fine, Shape, Orch
  <2>3. QED
    BY <2>1, <2>2, FramesAre
<1>13. outcome = "none"
  BY <1>1, <1>2 DEF LoopsInv
<1>14. LoopsInv'
  BY <1>4, <1>6, <1>10, <1>11, <1>12, <1>13 DEF LoopsInv, EveryNoteIsRead, Answers
<1>15. graph' \in graph .. uploads
  BY <1>2, <1>4 DEF env, ProjectTypeOK
<1>16. QED
  BY <1>4, <1>14, <1>15, ProjectKept DEF RInv, env

\* Every call has its note.
LEMMA EndBatchKeeps ==
  ASSUME RInv, NEW f \in Frames, EndBatch(f)
  PROVE  RInv'
<1> DEFINE g == frame[f]
<1>1. g.at = "tools" /\ g.at \in Working /\ LoopsInv /\ ProjectTypeOK
  BY DEF EndBatch, Working, RInv
<1>2. g \in FrameType /\ Fine(g, bag[f]) /\ Shape(f, g) /\ g.round < g.span /\ ~g.unread
  BY <1>1, AtWork DEF Fine
<1>3. UNCHANGED <<kind, project, uploads, expired, held, published>>
  BY DEF EndBatch
<1>4. CASE g.asked
  <2>1. KeepGoingOr(f, g, "asked")
    BY <1>4 DEF EndBatch
  <2>2. LoopsInv' /\ graph' \in graph .. uploads /\ outcome' \in {outcome, "asked"}
    BY <1>1, <1>2, <1>3, <2>1, KeepGoingKeeps DEF Outcomes
  <2>3. QED
    BY <1>3, <2>2, ProjectKept DEF RInv
<1>5. CASE ~g.asked /\ f = "main" /\ g.closing # "no"
  <2> DEFINE next == IF g.closing = "closing" THEN "follow" ELSE "again"
             h == [g EXCEPT !.at = next]
  <2>1. frame' = [frame EXCEPT ![f] = h] /\ UNCHANGED <<bag, graph, outcome>>
    BY <1>5 DEF EndBatch
  <2>2. next \in {"follow", "again"}
    OBVIOUS
  <2> HIDE DEF next
  <2>3. h \in FrameType /\ h.at = next /\ h.round = g.round /\ h.span = g.span
        /\ h.unread = g.unread /\ h.closing = g.closing
    BY <1>2, <2>2 DEF FrameType
  <2> HIDE DEF h
  <2>4. Fine(h, bag[f]) /\ Shape(f, h) /\ h.at \in Working
    BY <1>2, <1>5, <2>2, <2>3 DEF Fine, Shape, Working
  <2>5. QED
    BY <1>1, <1>3, <2>1, <2>3, <2>4, OnlyFrame DEF env
<1>6. CASE ~g.asked /\ ~(f = "main" /\ g.closing # "no")
  <2>1. NextRound(f, g) /\ UNCHANGED <<bag, graph>>
    BY <1>6 DEF EndBatch
  <2>2. g.span <= Limit + bag[f].extra /\ bag[f].extra <= MaxExtra /\ Paid(bag[f])
    BY <1>2 DEF Fine
  <2>3. LoopsInv' /\ outcome' = outcome
    BY <1>1, <1>2, <1>3, <2>1, <2>2, SameBag, NextRoundKeeps
  <2>4. graph' \in graph .. uploads
    BY <1>1, <2>1 DEF ProjectTypeOK
  <2>5. QED
    BY <1>3, <2>3, <2>4, ProjectKept DEF RInv
<1>7. QED
  BY <1>4, <1>5, <1>6

\* The closing round asks once more.
LEMMA FollowUpKeeps ==
  ASSUME RInv, FollowUp
  PROVE  RInv'
<1> DEFINE g == frame["main"]
<1>1. g.at \in {"follow", "again"} /\ g.at \in Working /\ LoopsInv /\ ProjectTypeOK
      /\ "main" \in Frames
  BY FramesAre DEF FollowUp, Working, RInv
<1>2. g \in FrameType /\ Fine(g, bag["main"]) /\ Shape("main", g) /\ g.round < g.span /\ ~g.unread
  BY <1>1, AtWork DEF Fine
<1>3. ~Orch("main")
  BY <1>1, <1>2 DEF Shape
<1>4. UNCHANGED <<kind, project, uploads, expired, held, published>>
  BY DEF FollowUp
<1>5. CASE KeepGoingOr("main", [g EXCEPT !.unread = FALSE], "reply")
  <2> DEFINE h == [g EXCEPT !.unread = FALSE]
  <2>1. h \in FrameType /\ h.at = g.at /\ h.round = g.round /\ h.span = g.span
        /\ ~h.unread /\ h.closing = g.closing
    BY <1>2 DEF FrameType
  <2>2. KeepGoingOr("main", h, "reply")
    BY <1>5
  <2> HIDE DEF h
  <2>3. Fine(h, bag["main"]) /\ Shape("main", h) /\ h.at \in Working /\ h.round < h.span
    BY <1>1, <1>2, <1>3, <2>1 DEF Fine, Shape, Working
  <2>4. LoopsInv' /\ graph' \in graph .. uploads
    BY <1>1, <1>4, <2>1, <2>2, <2>3, KeepGoingKeeps DEF Outcomes
  <2>5. QED
    BY <1>3, <1>4, <2>4, ProjectKept DEF RInv
<1>6. ASSUME NEW calls \in Batches("main"),
             frame' = [frame EXCEPT !["main"] =
                        [g EXCEPT !.at = "tools", !.todo = calls, !.closing = "extra"]],
             UNCHANGED <<bag, graph, outcome>>
      PROVE  RInv'
  <2> DEFINE h == [g EXCEPT !.at = "tools", !.todo = calls, !.closing = "extra"]
  <2>1. frame' = [frame EXCEPT !["main"] = h]
    BY <1>6
  <2>2. h \in FrameType
    BY <1>2, BatchTyped DEF FrameType
  <2>3. h.at = "tools" /\ h.round = g.round /\ h.span = g.span /\ h.unread = g.unread
    BY <1>2 DEF FrameType
  <2> HIDE DEF h
  <2>4. Fine(h, bag["main"]) /\ Shape("main", h) /\ h.at \in Working
    BY <1>2, <1>3, <2>3 DEF Fine, Shape, Working
  <2>5. QED
    BY <1>1, <1>4, <1>6, <2>1, <2>2, <2>4, OnlyFrame DEF env
<1>7. QED
  BY <1>5, <1>6 DEF FollowUp

\* The last frame, and what happens outside of the loops.
LEMMA OutsideKeeps ==
  ASSUME RInv, Finalize \/ Upload \/ Extract \/ Expire \/ UNCHANGED rvars
  PROVE  RInv'
<1>1. LoopsInv'
  BY LoopsKept DEF RInv, Finalize, Upload, Extract, Expire, rvars
<1>2. UNCHANGED <<kind, steps, report, held, outcome>>
  BY DEF Finalize, Upload, Extract, Expire, rvars, project
<1>3. ClosedProjectHasItsReport'
  BY <1>2 DEF RInv, ClosedProjectHasItsReport, Closed, AllDone
<1>4. uploads \in Nat /\ graph \in 0 .. uploads
  BY DEF RInv, ProjectTypeOK
<1>5. uploads' \in Nat /\ graph' \in 0 .. uploads'
  BY <1>4 DEF Finalize, Upload, Extract, Expire, rvars, env
<1>6. expired' \in BOOLEAN
  BY DEF RInv, ProjectTypeOK, Finalize, Upload, Extract, Expire, rvars, env
<1>7. published' \in [text : BOOLEAN, last : {"none", "usage", "error"}, episode : BOOLEAN]
  <2>1. CASE Finalize
    <3>1. \E failed \in BOOLEAN : published' =
            [text |-> ~failed, last |-> IF failed THEN "error" ELSE "usage", episode |-> ~failed]
      BY <2>1 DEF Finalize
    <3>2. QED
      BY <3>1
  <2>2. CASE ~Finalize
    BY <2>2 DEF RInv, ProjectTypeOK, Upload, Extract, Expire, rvars
  <2>3. QED
    BY <2>1, <2>2
<1>8. QED
  BY <1>1, <1>2, <1>3, <1>5, <1>6, <1>7 DEF RInv, ProjectTypeOK

-----------------------------------------------------------------------------
LEMMA RInvNext ==
  ASSUME RInv, [RNext]_rvars
  PROVE  RInv'
<1>1. ASSUME NEW f \in Frames, Loop(f)
      PROVE  RInv'
  BY <1>1, BeginRoundKeeps, ModelStopsKeeps, ModelCallsKeeps, ModelSpeaksKeeps, AdvanceKeeps,
     WriteFileKeeps, OtherCallKeeps, EndBatchKeeps DEF Loop
<1>2. CASE Run
  BY <1>1, <1>2, AskUserKeeps, WriteReportKeeps, DelegateKeeps, FollowUpKeeps, OutsideKeeps,
     FramesAre DEF Run
<1>3. CASE Upload \/ Extract \/ Expire \/ RDone \/ UNCHANGED rvars
  BY <1>3, OutsideKeeps DEF RDone
<1>4. QED
  BY <1>2, <1>3 DEF RNext

THEOREM RInvHolds == RSpec => []RInv
BY RInvInit, RInvNext, PTL DEF RSpec

\* The loops, the worker's copy of the project and the gateway's stay of
\* their types (the state of build_graph.reason and of _coworker_loop).
THEOREM ReasoningTypeCorrect == RSpec => []ReasoningTypeOK
<1>1. RInv => ReasoningTypeOK
  BY DEF RInv, LoopsInv, LoopTypeOK, ProjectTypeOK, ReasoningTypeOK
<1>2. QED
  BY <1>1, RInvHolds, PTL

\* Whatever is uploaded when, an answer comes after a model call that has
\* read the note of every upload (_note_uploads, _keep_going).
THEOREM AnswersHaveReadEveryNote == RSpec => []EveryNoteIsRead
<1>1. RInv => EveryNoteIsRead
  BY DEF RInv, LoopsInv
<1>2. QED
  BY <1>1, RInvHolds, PTL

\* A loop, or a coworker's loop in it, goes on beyond the limit only for notes
\* of files that it did not begin with, at most three rounds for each of them
\* and upload_extra's bound in all; range(limit + 6) never cuts it short.
THEOREM RoundsAreAlwaysPaidFor == RSpec => []RoundsArePaidFor
<1>1. RInv => RoundsArePaidFor
  <2>1. ASSUME RInv, NEW f \in Frames
        PROVE  /\ frame[f].round <= Limit + bag[f].extra
               /\ frame[f].span <= Limit + bag[f].extra /\ bag[f].extra <= MaxExtra
               /\ bag[f].extra <= 3 * (bag[f].seen - bag[f].knew)
    <3>1. Fine(frame[f], bag[f]) /\ frame[f] \in FrameType /\ bag[f] \in BagType
      BY <2>1 DEF RInv, LoopsInv, LoopTypeOK
    <3>2. frame[f].round \in Nat /\ frame[f].span \in Nat /\ bag[f].extra \in Nat
      BY <3>1 DEF FrameType, BagType
    <3>3. bag[f].seen \in Nat /\ bag[f].knew \in Nat /\ Owed(bag[f]) \in Nat
      BY <3>1 DEF BagType, Owed
    <3>4. QED
      BY <3>1, <3>2, <3>3, ReasoningAssumption DEF Fine, Paid
  <2>2. QED
    BY <2>1 DEF RoundsArePaidFor
<1>2. QED
  BY <1>1, RInvHolds, PTL

\* No project is closed, and no lead ends its turn as if it were, without a
\* report at the time, neither by coworkers' steps nor through the worker's
\* copy of them; if it is missing later, a draft took its place in a project
\* that was closed (updateStep, deliverablesReady, _orch_can_stop, createArtifact).
THEOREM NoProjectClosesWithoutReport == RSpec => []ClosedProjectHasItsReport
<1>1. RInv => ClosedProjectHasItsReport
  BY DEF RInv
<1>2. QED
  BY <1>1, RInvHolds, PTL
============================================================================
