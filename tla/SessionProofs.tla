--------------------------- MODULE SessionProofs ---------------------------
(***************************************************************************)
(* Proofs about Session, for every set of ids, every policy and every      *)
(* pattern of failed publishes, crashes and recoveries.  What callers were *)
(* told holds however publishes fail; the shape of the stream only while   *)
(* no publish fails after it was stored, since the actor's state then      *)
(* misses an event its stream has; one message per turn only while nothing *)
(* fails at all (NothingFails).                                            *)
(***************************************************************************)
EXTENDS Session, WellFoundedInduction, TLAPS

-----------------------------------------------------------------------------
(* The stream: what an appended event does to the two searches of Replay.  *)

\* Two positions cannot both be the last of their kinds.
LEMMA LastIsUnique ==
  ASSUME NEW l, Len(l) \in Nat, NEW kinds, NEW i, NEW j,
         IsLast(l, kinds, i), IsLast(l, kinds, j)
  PROVE  i = j
BY DEF IsLast

\* Last returns the last position whenever there is one.
LEMMA LastWorks ==
  ASSUME NEW l, Len(l) \in Nat, NEW kinds, NEW i \in 0 .. Len(l), IsLast(l, kinds, i)
  PROVE  Last(l, kinds) = i
<1>1. IsLast(l, kinds, Last(l, kinds))
  BY DEF Last
<1>2. QED
  BY <1>1, LastIsUnique

\* The positions of a stream and of the stream one event longer.
LEMMA AppendFacts ==
  ASSUME NEW l \in Seq(Events), NEW e \in Events
  PROVE  /\ Append(l, e) \in Seq(Events)
         /\ Len(l) \in Nat
         /\ Len(Append(l, e)) = Len(l) + 1
         /\ DOMAIN l = 1 .. Len(l)
         /\ DOMAIN Append(l, e) = 1 .. (Len(l) + 1)
         /\ \A i \in 1 .. Len(l) : Append(l, e)[i] = l[i]
         /\ Append(l, e)[Len(l) + 1] = e
OBVIOUS

\* An event of the kinds becomes the last one; any other leaves it in place.
LEMMA LastAfterAppend ==
  ASSUME NEW l \in Seq(Events), NEW e \in Events, NEW kinds,
         NEW i \in 0 .. Len(l), IsLast(l, kinds, i)
  PROVE  LET j == IF e.kind \in kinds THEN Len(l) + 1 ELSE i
         IN  /\ j \in 0 .. Len(Append(l, e))
             /\ IsLast(Append(l, e), kinds, j)
             /\ Last(Append(l, e), kinds) = j
<1> DEFINE m == Append(l, e)
           j == IF e.kind \in kinds THEN Len(l) + 1 ELSE i
<1>1. /\ Len(l) \in Nat /\ Len(m) = Len(l) + 1
      /\ \A k \in 1 .. Len(l) : m[k] = l[k]
      /\ m[Len(l) + 1] = e
  BY AppendFacts
<1> HIDE DEF m
<1>2. j \in 0 .. Len(m)
  BY <1>1
<1>3. IsLast(m, kinds, j)
  <2>1. CASE e.kind \in kinds
    BY <1>1, <2>1 DEF IsLast
  <2>2. CASE e.kind \notin kinds
    BY <1>1, <2>2 DEF IsLast
  <2>3. QED
    BY <2>1, <2>2
<1>4. Last(m, kinds) = j
  <2> HIDE DEF j
  <2>1. QED
    BY <1>1, <1>2, <1>3, LastWorks
<1>5. QED
  BY <1>2, <1>3, <1>4 DEF m

\* Publishing an event and replaying the stream is applying the event to the
\* replay: the live path and the recovery path agree (applyEvent).
LEMMA ReplayAppend ==
  ASSUME NEW l \in Seq(Events), NEW e \in Events, LastsExist(l)
  PROVE  /\ LastsExist(Append(l, e))
         /\ Replay(Append(l, e)) = Applied(Replay(l), e)
<1> DEFINE m == Append(l, e)
<1>1. PICK s \in 0 .. Len(l) : IsLast(l, StateKinds, s)
  BY DEF LastsExist
<1>2. PICK t \in 0 .. Len(l) : IsLast(l, {"turn"}, t)
  BY DEF LastsExist
<1>3. /\ Len(l) \in Nat /\ Len(m) = Len(l) + 1
      /\ DOMAIN l = 1 .. Len(l) /\ DOMAIN m = 1 .. (Len(l) + 1)
      /\ \A k \in 1 .. Len(l) : m[k] = l[k]
      /\ m[Len(l) + 1] = e
  BY AppendFacts
<1>4. Last(l, StateKinds) = s /\ Last(l, {"turn"}) = t
  BY <1>1, <1>2, <1>3, LastWorks
<1>5. LET j == IF e.kind \in StateKinds THEN Len(l) + 1 ELSE s
      IN  j \in 0 .. Len(m) /\ IsLast(m, StateKinds, j) /\ Last(m, StateKinds) = j
  BY <1>1, LastAfterAppend
<1>6. LET j == IF e.kind \in {"turn"} THEN Len(l) + 1 ELSE t
      IN  j \in 0 .. Len(m) /\ IsLast(m, {"turn"}, j) /\ Last(m, {"turn"}) = j
  BY <1>2, LastAfterAppend
<1> HIDE DEF m
<1>7. LastsExist(m)
  BY <1>5, <1>6 DEF LastsExist
<1>8. ReplayState(m) = Applied(Replay(l), e).state
  BY <1>3, <1>4, <1>5 DEF ReplayState, Applied, Replay
<1>9. ReplayTurn(m) = Applied(Replay(l), e).turn
  BY <1>3, <1>4, <1>6 DEF ReplayTurn, Applied, Replay
<1>10. {m[i].id : i \in MessagesIn(m)} = Applied(Replay(l), e).messages
  <2>1. CASE e.kind = "message"
    <3>1. MessagesIn(m) = MessagesIn(l) \union {Len(l) + 1}
      BY <1>3, <2>1 DEF MessagesIn
    <3>2. \A i \in MessagesIn(l) : m[i] = l[i]
      BY <1>3 DEF MessagesIn
    <3>3. QED
      BY <1>3, <2>1, <3>1, <3>2 DEF Applied, Replay
  <2>2. CASE e.kind # "message"
    <3>1. MessagesIn(m) = MessagesIn(l)
      BY <1>3, <2>2 DEF MessagesIn
    <3>2. \A i \in MessagesIn(l) : m[i] = l[i]
      BY <1>3 DEF MessagesIn
    <3>3. QED
      BY <2>2, <3>1, <3>2 DEF Applied, Replay
  <2>3. QED
    BY <2>1, <2>2
<1>11. QED
  BY <1>7, <1>8, <1>9, <1>10 DEF Replay, Applied, m

-----------------------------------------------------------------------------
(* The replay is the fold, by induction over the length of the stream.     *)

LEMMA LeastNumber ==
  ASSUME NEW T \in SUBSET Nat, T # {}
  PROVE  \E n \in T : \A m \in T : n <= m
<1> DEFINE R == {p \in Nat \X Nat : p[1] < p[2]}
<1>1. IsWellFoundedOn(R, Nat)
  BY NatLessThanWellFounded DEF OpToRel
<1>2. \E n \in T : \A m \in T : <<m, n>> \notin R
  <2> HIDE DEF R
  <2>1. QED
    BY <1>1, WFMin
<1>3. PICK n \in T : \A m \in T : <<m, n>> \notin R
  BY <1>2
<1>4. \A m \in T : m \in Nat /\ n \in Nat /\ ~(m < n)
  BY <1>3
<1>5. QED
  BY <1>4

LEMMA Induction ==
  ASSUME NEW T \in SUBSET Nat, 0 \in T, \A n \in T : n + 1 \in T
  PROVE  T = Nat
<1>1. SUFFICES ASSUME Nat \ T # {} PROVE FALSE
  OBVIOUS
<1>2. PICK n \in Nat \ T : \A m \in Nat \ T : n <= m
  BY <1>1, LeastNumber
<1>3. n # 0 /\ n - 1 \in Nat
  BY <1>2
<1>4. n - 1 \in T
  BY <1>2, <1>3
<1>5. QED
  BY <1>3, <1>4

\* folded of Folded, on the first n events of l.
IsFold(f, l, n) ==
  f = [i \in 0 .. n |-> IF i = 0 THEN Blank ELSE Applied(f[i - 1], l[i])]

LEMMA FoldExists ==
  ASSUME NEW l, Len(l) \in Nat
  PROVE  \E f : IsFold(f, l, Len(l)) /\ Folded(l) = f[Len(l)]
<1> DEFINE T == {n \in Nat : \E f : IsFold(f, l, n)}
<1>1. 0 \in T
  <2>1. IsFold([i \in 0 .. 0 |-> Blank], l, 0)
    BY DEF IsFold
  <2>2. QED
    BY <2>1
<1>2. ASSUME NEW n \in T
      PROVE  n + 1 \in T
  <2>1. PICK f : IsFold(f, l, n)
    OBVIOUS
  <2> DEFINE g == [i \in 0 .. n + 1 |-> IF i <= n THEN f[i] ELSE Applied(f[n], l[n + 1])]
  <2>2. IsFold(g, l, n + 1)
    BY <2>1 DEF IsFold
  <2>3. QED
    BY <2>2
<1>3. T = Nat
  <2> HIDE DEF T
  <2>1. T \in SUBSET Nat
    BY DEF T
  <2>2. QED
    BY <1>1, <1>2, <2>1, Induction
<1>4. \E f : IsFold(f, l, Len(l))
  BY <1>3
<1>5. Folded(l) = (CHOOSE f : IsFold(f, l, Len(l)))[Len(l)]
  BY DEF Folded, IsFold
<1>6. QED
  BY <1>4, <1>5

\* One event more is one application more.
LEMMA FoldAppend ==
  ASSUME NEW l \in Seq(Events), NEW e \in Events
  PROVE  Folded(Append(l, e)) = Applied(Folded(l), e)
<1>1. PICK m : m = Append(l, e)
  OBVIOUS
<1>2. PICK n \in Nat : n = Len(l) /\ Len(m) = n + 1 /\ m[n + 1] = e /\ \A i \in 1 .. n : m[i] = l[i]
  BY <1>1, AppendFacts
<1>3. PICK f : IsFold(f, l, n) /\ Folded(l) = f[n]
  BY <1>2, FoldExists
<1>4. PICK g : IsFold(g, m, n + 1) /\ Folded(m) = g[n + 1]
  BY <1>2, FoldExists
<1> DEFINE T == {i \in Nat : i <= n => g[i] = f[i]}
<1>5. 0 \in T
  BY <1>3, <1>4 DEF IsFold
<1>6. ASSUME NEW i \in T
      PROVE  i + 1 \in T
  <2>1. SUFFICES ASSUME i + 1 <= n PROVE g[i + 1] = f[i + 1]
    OBVIOUS
  <2>2. i \in Nat /\ g[i] = f[i] /\ i + 1 \in 1 .. n /\ i + 1 # 0 /\ i + 1 - 1 = i
    BY <2>1
  <2>3. g[i + 1] = Applied(g[i], m[i + 1])
    BY <1>4, <2>2 DEF IsFold
  <2>4. f[i + 1] = Applied(f[i], l[i + 1])
    BY <1>3, <2>2 DEF IsFold
  <2>5. QED
    BY <1>2, <2>2, <2>3, <2>4
<1>7. T = Nat
  <2> HIDE DEF T
  <2>1. T \in SUBSET Nat
    BY DEF T
  <2>2. QED
    BY <1>5, <1>6, <2>1, Induction
<1>8. g[n] = f[n]
  BY <1>7
<1>9. g[n + 1] = Applied(g[n], m[n + 1])
  BY <1>4 DEF IsFold
<1>10. QED
  BY <1>1, <1>2, <1>3, <1>4, <1>8, <1>9

\* For a stream of any events, legal or not.
LEMMA ReplayFolds ==
  ASSUME NEW l \in Seq(Events)
  PROVE  LastsExist(l) /\ Replay(l) = Folded(l)
<1> DEFINE Good(k) == LastsExist(k) /\ Replay(k) = Folded(k)
           T == {n \in Nat : \A k \in Seq(Events) : Len(k) = n => Good(k)}
<1>1. ASSUME NEW k \in Seq(Events), Len(k) = 0
      PROVE  Good(k)
  <2>1. IsLast(k, StateKinds, 0) /\ IsLast(k, {"turn"}, 0) /\ 0 \in 0 .. Len(k)
    BY <1>1 DEF IsLast
  <2>2. LastsExist(k)
    BY <2>1 DEF LastsExist
  <2>3. Last(k, StateKinds) = 0 /\ Last(k, {"turn"}) = 0
    BY <1>1, <2>1, LastWorks
  <2>4. MessagesIn(k) = {}
    BY <1>1 DEF MessagesIn
  <2>5. Replay(k) = Blank
    BY <2>3, <2>4 DEF Replay, ReplayState, ReplayTurn, Blank
  <2>6. Folded(k) = Blank
    <3>1. PICK f : IsFold(f, k, 0) /\ Folded(k) = f[0]
      BY <1>1, FoldExists
    <3>2. QED
      BY <3>1 DEF IsFold
  <2>7. QED
    BY <2>2, <2>5, <2>6
<1>2. ASSUME NEW n \in T
      PROVE  n + 1 \in T
  <2>1. SUFFICES ASSUME NEW k \in Seq(Events), Len(k) = n + 1
                 PROVE  Good(k)
    OBVIOUS
  <2>2. PICK p : p = [i \in 1 .. n |-> k[i]]
    OBVIOUS
  <2>3. PICK e \in Events : e = k[n + 1]
    BY <2>1
  <2>4. p \in Seq(Events) /\ Len(p) = n /\ Append(p, e) = k
    BY <2>1, <2>2, <2>3
  <2>5. Good(p)
    BY <2>4
  <2>6. QED
    BY <2>4, <2>5, ReplayAppend, FoldAppend
<1>3. T = Nat
  <2>1. 0 \in T
    BY <1>1
  <2> HIDE DEF T
  <2>2. T \in SUBSET Nat
    BY DEF T
  <2>3. QED
    BY <1>2, <2>1, <2>2, Induction
<1>4. Good(l)
  BY <1>3
<1>5. QED
  BY <1>4

-----------------------------------------------------------------------------
(* A stream that grows by legal events keeps the stream's properties.      *)

\* The facts one legal event leaves behind, for a stream that replays to an
\* open, suspended or closed session.
LEMMA LegalAppend ==
  ASSUME StreamInv, log \in Seq(Events),
         NEW e \in Events, Legal(log, e), log' = Append(log, e)
  PROVE  StreamInv'
<1> USE DEF MessagesIn, TurnsIn
<1> DEFINE n == Len(log) + 1
           S == ReplayState(log)
           T == ReplayTurn(log)
<1>1. /\ Len(log) \in Nat /\ n \in Nat /\ Len(log') = n
      /\ DOMAIN log = 1 .. Len(log) /\ DOMAIN log' = 1 .. n
      /\ \A k \in 1 .. Len(log) : log'[k] = log[k]
      /\ log'[n] = e
      /\ \A k \in 1 .. Len(log) : log[k] \in Events
  BY AppendFacts
<1>2. LastsExist(log') /\ Replay(log') = Applied(Replay(log), e)
  BY ReplayAppend DEF StreamInv
<1>3. /\ ReplayState(log') = IF e.kind \in StateKinds THEN StateAfter(e.kind) ELSE S
      /\ ReplayTurn(log') = IF e.kind = "turn" THEN e.turn ELSE T
  BY <1>2 DEF Replay, Applied
<1>4. /\ \A k \in MessagesIn(log) \union TurnsIn(log) : log[k].turn \in Nat
      /\ e.kind \in {"message", "turn"} => e.turn \in Nat
  BY <1>1 DEF Events, Opened, Suspended, Closed
<1>5. PICK t \in 0 .. Len(log) : IsLast(log, {"turn"}, t)
  BY DEF StreamInv, LastsExist
<1>6. T = IF t = 0 THEN 0 ELSE log[t].turn
  BY <1>1, <1>5, LastWorks DEF ReplayTurn
<1>7. T \in Nat
  BY <1>1, <1>4, <1>5, <1>6 DEF IsLast
<1>8. PhasesInOrder(log')
  BY <1>1, <1>3 DEF PhasesInOrder, StreamInv, Legal, StateKinds, StateAfter
<1>9. NothingAhead(log')
  BY <1>1, <1>3, <1>4, <1>7 DEF NothingAhead, StreamInv, Legal
<1>10. NoDuplicateMessage'
  BY <1>1 DEF NoDuplicateMessage, StreamInv, Legal
<1>11. TurnsCountUp'
  <2> SUFFICES ASSUME NEW i \in TurnsIn(log'), NEW j \in TurnsIn(log'), i < j
               PROVE  /\ log'[i].turn < log'[j].turn
                      /\ (\A k \in TurnsIn(log') : ~(i < k /\ k < j))
                           => log'[j].turn = log'[i].turn + 1
    BY DEF TurnsCountUp
  <2>1. CASE j < n
    BY <1>1, <2>1 DEF StreamInv, TurnsCountUp
  <2>2. CASE j = n
    <3>1. i \in TurnsIn(log) /\ log'[i] = log[i] /\ log'[j].turn = T + 1
      BY <1>1, <2>2 DEF Legal
    <3>2. log[i].turn <= T
      BY <3>1 DEF NothingAhead, StreamInv
    <3>3. t \in TurnsIn(log') /\ i <= t
      BY <1>1, <1>5, <3>1 DEF IsLast
    <3>4. QED
      BY <1>1, <1>4, <1>6, <1>7, <2>2, <3>1, <3>2, <3>3
  <2>3. QED
    BY <1>1, <2>1, <2>2
<1>12. MessageAtItsTurn'
  <2> SUFFICES ASSUME NEW i \in MessagesIn(log')
               PROVE  /\ \A j \in TurnsIn(log') : (j < i) <=> (log'[j].turn <= log'[i].turn)
                      /\ Strict => log'[i].from = SpeakerAt(log'[i].turn)
    BY DEF MessageAtItsTurn, SpeakerAt
  <2>1. CASE i < n
    <3>1. i \in MessagesIn(log) /\ log'[i] = log[i] /\ log[i].turn <= T
      BY <1>1, <2>1 DEF NothingAhead, StreamInv
    <3>2. ASSUME NEW j \in TurnsIn(log')
          PROVE  (j < i) <=> (log'[j].turn <= log'[i].turn)
      <4>1. CASE j < n
        BY <1>1, <3>1, <4>1 DEF StreamInv, MessageAtItsTurn
      <4>2. CASE j = n
        <5>1. log'[j].turn = T + 1
          BY <1>1, <4>2 DEF Legal
        <5>2. QED
          BY <1>1, <1>4, <1>7, <2>1, <3>1, <4>2, <5>1
      <4>3. QED
        BY <1>1, <4>1, <4>2
    <3>3. Strict => log'[i].from = SpeakerAt(log'[i].turn)
      BY <3>1 DEF StreamInv, MessageAtItsTurn
    <3>4. QED
      BY <3>2, <3>3
  <2>2. CASE i = n
    <3>1. log'[i] = e /\ e.kind = "message" /\ e.turn = T
      BY <1>1, <2>2 DEF Legal
    <3>2. \A j \in TurnsIn(log') : j < i /\ log'[j].turn <= T
      BY <1>1, <2>2, <3>1 DEF NothingAhead, StreamInv
    <3>3. QED
      BY <3>1, <3>2 DEF Legal
  <2>3. QED
    BY <1>1, <2>1, <2>2
<1>13. ClosedIsFinal'
  <2> SUFFICES ASSUME NEW i \in DOMAIN log', NEW j \in DOMAIN log', i < j
               PROVE  /\ log'[i].kind # "closed"
                      /\ log'[i].kind = "suspended" => log'[j].kind = "closed"
    BY DEF ClosedIsFinal
  <2>1. CASE j < n
    BY <1>1, <2>1 DEF StreamInv, ClosedIsFinal
  <2>2. CASE j = n
    BY <1>1, <2>2 DEF StreamInv, PhasesInOrder, Legal
  <2>3. QED
    BY <1>1, <2>1, <2>2
<1>14. QED
  BY <1>2, <1>8, <1>9, <1>10, <1>11, <1>12, <1>13 DEF StreamInv

-----------------------------------------------------------------------------
(* The actor.                                                              *)

MemType == [state : {"none", "open", "suspended", "closed"},
            turn : Nat, messages : SUBSET Ids]

\* Applying an event keeps the type of the actor's state.
LEMMA AppliedType ==
  ASSUME NEW m \in MemType, NEW e \in Events
  PROVE  Applied(m, e) \in MemType
BY DEF MemType, Applied, Events, Opened, Suspended, Closed, StateKinds, StateAfter

\* A live actor's fields, read off the stream.
LEMMA MemoryFields ==
  ASSUME MemoryIsReplay, up
  PROVE  /\ mem.state = ReplayState(log)
         /\ mem.turn = ReplayTurn(log)
         /\ mem.messages = {log[i].id : i \in MessagesIn(log)}
BY DEF MemoryIsReplay, Replay

\* A step that leaves the stream alone leaves what is read off it alone.
LEMMA SameStream ==
  ASSUME IInv, log' = log
  PROVE  StreamInv' /\ log' \in Seq(Events)
BY DEF IInv, TypeOK, StreamInv, NoDuplicateMessage, TurnsCountUp, MessageAtItsTurn,
       ClosedIsFinal

\* A publish of a legal event by a live actor is stored and applied, or it is
\* lost: either way the stream stays well formed and the memory its replay.
LEMMA PublishStep ==
  ASSUME "stored" \notin PublishFaults, IInv, up, up',
         NEW e \in Events, NEW o \in Outcomes, Legal(log, e), Publish(e, o)
  PROVE  /\ log' \in Seq(Events) /\ mem' \in MemType
         /\ StreamInv' /\ MemoryIsReplay'
         /\ \/ o = "ok" /\ log' = Append(log, e)
            \/ o = "lost" /\ log' = log
<1>1. o \in {"ok", "lost"}
  BY FaultAssumption DEF Outcomes
<1>2. CASE o = "ok"
  <2>1. log' = Append(log, e) /\ mem' = Applied(mem, e)
    BY <1>2 DEF Publish
  <2>2. StreamInv'
    BY <2>1, LegalAppend DEF IInv, TypeOK
  <2>3. MemoryIsReplay'
    BY <2>1, ReplayAppend DEF IInv, TypeOK, StreamInv, MemoryIsReplay
  <2>4. QED
    BY <1>2, <2>1, <2>2, <2>3, AppendFacts, AppliedType DEF IInv, TypeOK, MemType
<1>3. CASE o = "lost"
  <2>1. UNCHANGED <<log, mem>>
    BY <1>3 DEF Publish
  <2>2. QED
    BY <1>3, <2>1, SameStream DEF IInv, TypeOK, MemType, MemoryIsReplay
<1>4. QED
  BY <1>1, <1>2, <1>3

\* Ids in the stream stay in it when it grows.
LEMMA IdsStay ==
  ASSUME log \in Seq(Events), NEW e \in Events,
         log' = log \/ log' = Append(log, e),
         NEW id, \E i \in MessagesIn(log) : log[i].id = id
  PROVE  \E i \in MessagesIn(log') : log'[i].id = id
BY AppendFacts DEF MessagesIn

-----------------------------------------------------------------------------
LEMMA InitIInv == Init => IInv
<1> SUFFICES ASSUME Init PROVE IInv
  OBVIOUS
<1> USE DEF Init
<1>1. /\ Len(log) = 1 /\ DOMAIN log = {1} /\ log[1] = Opened
      /\ log \in Seq(Events)
  BY DEF Events
<1>2. IsLast(log, StateKinds, 1) /\ IsLast(log, {"turn"}, 0)
  BY <1>1 DEF IsLast, StateKinds, Opened
<1>3. Last(log, StateKinds) = 1 /\ Last(log, {"turn"}) = 0
  BY <1>1, <1>2, LastWorks
<1>4. LastsExist(log)
  BY <1>1, <1>2 DEF LastsExist
<1>5. ReplayState(log) = "open" /\ ReplayTurn(log) = 0
  BY <1>1, <1>3 DEF ReplayState, ReplayTurn, StateAfter, Opened
<1>6. MessagesIn(log) = {} /\ TurnsIn(log) = {}
  BY <1>1 DEF MessagesIn, TurnsIn, Opened
<1>7. mem = [state |-> "open", turn |-> 0, messages |-> {}]
  BY DEF Applied, Blank, Opened, StateKinds, StateAfter
<1>8. TypeOK
  BY <1>1, <1>7, PolicyAssumption DEF TypeOK
<1>9. MemoryIsReplay
  BY <1>5, <1>6, <1>7 DEF MemoryIsReplay, Replay
<1>10. PhasesInOrder(log) /\ ClosedIsFinal
  BY <1>1, <1>5 DEF PhasesInOrder, ClosedIsFinal, Opened
<1>11. QED
  BY <1>4, <1>6, <1>8, <1>9, <1>10 DEF IInv, StreamInv, NothingAhead, NoDuplicateMessage,
       TurnsCountUp, MessageAtItsTurn, AppendInProgress, AcceptedIsStored

-----------------------------------------------------------------------------
(* The events the actor publishes are legal: one lemma per publish.        *)

LEMMA SaidIsLegal ==
  ASSUME IInv, Ready, NEW id \in Ids, NEW p \in People,
         mem.state = "open", id \notin mem.messages, Strict => p = SpeakerAt(mem.turn)
  PROVE  /\ Said(id, p, mem.turn) \in Events
         /\ Legal(log, Said(id, p, mem.turn))
BY MemoryFields DEF IInv, TypeOK, Ready, Said, Events, Legal

LEMMA TurnIsLegal ==
  ASSUME IInv, up, pc = "advance"
  PROVE  TurnTo(mem.turn + 1) \in Events /\ Legal(log, TurnTo(mem.turn + 1))
BY MemoryFields DEF IInv, TypeOK, AppendInProgress, TurnTo, Events, Legal

LEMMA SuspendedIsLegal ==
  ASSUME IInv, up, pc = "suspend"
  PROVE  Suspended \in Events /\ Legal(log, Suspended)
BY DEF IInv, AppendInProgress, Suspended, Events, Legal

LEMMA ClosedIsLegal ==
  ASSUME IInv, up, mem.state # "closed"
  PROVE  Closed \in Events /\ Legal(log, Closed)
BY MemoryFields DEF IInv, Closed, Events, Legal

-----------------------------------------------------------------------------
(* Every step keeps the invariant.                                         *)

LEMMA AppendMessageKeeps ==
  ASSUME "stored" \notin PublishFaults, IInv,
         NEW id \in Ids, NEW p \in People, AppendMessage(id, p)
  PROVE  IInv'
<1> DEFINE e == Said(id, p, mem.turn)
<1> USE DEF AppendMessage, Ready
<1>1. e \in Events /\ Legal(log, e)
  BY SaidIsLegal
<1>2. PICK o \in Outcomes :
        /\ Publish(e, o)
        /\ pc' = IF o = "ok" THEN "advance" ELSE "idle"
        /\ pending' = IF o = "ok" THEN {id} ELSE {}
  OBVIOUS
<1>3. up' = up /\ accepted' = accepted /\ idleTimer' = idleTimer
  OBVIOUS
<1> HIDE DEF e
<1>4. /\ log' \in Seq(Events) /\ mem' \in MemType /\ StreamInv' /\ MemoryIsReplay'
      /\ \/ o = "ok" /\ log' = Append(log, e)
         \/ o = "lost" /\ log' = log
  BY <1>1, <1>2, PublishStep
<1>5. TypeOK'
  BY <1>2, <1>3, <1>4 DEF IInv, TypeOK, MemType
<1>6. AppendInProgress'
  <2>1. CASE o = "ok"
    <3>1. log' = Append(log, e) /\ Replay(log') = Applied(Replay(log), e)
      BY <1>1, <1>4, <2>1, ReplayAppend DEF IInv, TypeOK, StreamInv
    <3>2. /\ ReplayState(log') = "open" /\ ReplayTurn(log') = mem.turn
          /\ id \in Replay(log').messages
      BY <3>1, MemoryFields DEF IInv, Replay, Applied, e, Said, StateKinds
    <3>3. \E i \in MessagesIn(log') : log'[i].turn = mem.turn
      BY <1>1, <3>1, AppendFacts DEF IInv, TypeOK, MessagesIn, e, Said
    <3>4. QED
      BY <1>2, <1>3, <2>1, <3>2, <3>3 DEF AppendInProgress
  <2>2. CASE o = "lost"
    BY <1>2, <2>2 DEF AppendInProgress
  <2>3. QED
    BY <1>4, <2>1, <2>2
<1>7. AcceptedIsStored'
  BY <1>1, <1>3, <1>4, IdsStay DEF IInv, TypeOK, AcceptedIsStored
<1>8. QED
  BY <1>4, <1>5, <1>6, <1>7 DEF IInv

LEMMA AdvanceTurnKeeps ==
  ASSUME "stored" \notin PublishFaults, IInv, AdvanceTurn
  PROVE  IInv'
<1> DEFINE e == TurnTo(mem.turn + 1)
<1> USE DEF AdvanceTurn
<1>1. e \in Events /\ Legal(log, e)
  BY TurnIsLegal
<1>2. PICK o \in Outcomes :
        /\ Publish(e, o)
        /\ IF o = "ok" /\ MaxTurns > 0 /\ mem.turn + 1 >= MaxTurns
             THEN pc' = "suspend" /\ UNCHANGED <<pending, accepted>>
             ELSE /\ pc' = "idle"
                  /\ pending' = {}
                  /\ accepted' = IF o = "ok" THEN accepted \union pending ELSE accepted
  OBVIOUS
<1>3. up /\ up' = up /\ idleTimer' = idleTimer /\ pc = "advance"
  OBVIOUS
<1> HIDE DEF e
<1>4. /\ log' \in Seq(Events) /\ mem' \in MemType /\ StreamInv' /\ MemoryIsReplay'
      /\ \/ o = "ok" /\ log' = Append(log, e)
         \/ o = "lost" /\ log' = log
  BY <1>1, <1>2, <1>3, PublishStep
<1>5. TypeOK'
  BY <1>2, <1>3, <1>4 DEF IInv, TypeOK, MemType
<1>6. pending \subseteq Replay(log).messages /\ ReplayState(log) = "open"
  BY <1>3 DEF IInv, AppendInProgress
<1>7. AppendInProgress'
  <2>1. CASE o = "ok" /\ MaxTurns > 0 /\ mem.turn + 1 >= MaxTurns
    <3>1. log' = Append(log, e) /\ Replay(log') = Applied(Replay(log), e)
      BY <1>1, <1>4, <2>1, ReplayAppend DEF IInv, TypeOK, StreamInv
    <3>2. /\ ReplayState(log') = "open" /\ ReplayTurn(log') = mem.turn + 1
          /\ Replay(log').messages = Replay(log).messages
      BY <1>6, <3>1 DEF Replay, Applied, e, TurnTo, StateKinds
    <3>3. QED
      BY <1>2, <1>3, <1>6, <2>1, <3>2 DEF AppendInProgress
  <2>2. CASE ~(o = "ok" /\ MaxTurns > 0 /\ mem.turn + 1 >= MaxTurns)
    BY <1>2, <2>2 DEF AppendInProgress
  <2>3. QED
    BY <2>1, <2>2
<1>8. AcceptedIsStored'
  <2>1. \A id \in accepted \union pending : \E i \in MessagesIn(log) : log[i].id = id
    BY <1>6 DEF IInv, AcceptedIsStored, Replay
  <2>2. accepted' \subseteq accepted \union pending
    BY <1>2
  <2>3. QED
    BY <1>1, <1>4, <2>1, <2>2, IdsStay DEF IInv, TypeOK, AcceptedIsStored
<1>9. QED
  BY <1>4, <1>5, <1>7, <1>8 DEF IInv

LEMMA SuspendKeeps ==
  ASSUME "stored" \notin PublishFaults, IInv, Suspend
  PROVE  IInv'
<1> USE DEF Suspend
<1>1. Suspended \in Events /\ Legal(log, Suspended)
  BY SuspendedIsLegal
<1>2. PICK o \in Outcomes : Publish(Suspended, o)
  OBVIOUS
<1>3. /\ log' \in Seq(Events) /\ mem' \in MemType /\ StreamInv' /\ MemoryIsReplay'
      /\ log' = log \/ log' = Append(log, Suspended)
  BY <1>1, <1>2, PublishStep
<1>4. TypeOK'
  BY <1>3 DEF IInv, TypeOK, MemType
<1>5. AppendInProgress'
  BY DEF AppendInProgress
<1>6. AcceptedIsStored'
  <2>1. \A id \in accepted \union pending : \E i \in MessagesIn(log) : log[i].id = id
    BY DEF IInv, AcceptedIsStored, AppendInProgress, Replay
  <2>2. QED
    BY <1>1, <1>3, <2>1, IdsStay DEF IInv, TypeOK, AcceptedIsStored
<1>7. QED
  BY <1>3, <1>4, <1>5, <1>6 DEF IInv

\* Close and IdleClose share the publish of Closed by an idle actor.
LEMMA CloseKeeps ==
  ASSUME "stored" \notin PublishFaults, IInv, Close \/ IdleClose
  PROVE  IInv'
<1> USE DEF Close, IdleClose, Ready
<1>1. up /\ pc = "idle" /\ UNCHANGED <<up, pc, pending, accepted>> /\ idleTimer' \in BOOLEAN
  BY DEF IInv, TypeOK
<1>2. CASE mem.state # "closed"
  <2>1. Closed \in Events /\ Legal(log, Closed)
    BY <1>1, <1>2, ClosedIsLegal
  <2>2. PICK o \in Outcomes : Publish(Closed, o)
    BY <1>2
  <2>3. /\ log' \in Seq(Events) /\ mem' \in MemType /\ StreamInv' /\ MemoryIsReplay'
        /\ log' = log \/ log' = Append(log, Closed)
    BY <1>1, <2>1, <2>2, PublishStep
  <2>4. TypeOK'
    BY <1>1, <2>3 DEF IInv, TypeOK, MemType
  <2>5. AppendInProgress'
    BY <1>1 DEF AppendInProgress
  <2>6. AcceptedIsStored'
    BY <1>1, <2>1, <2>3, IdsStay DEF IInv, TypeOK, AcceptedIsStored
  <2>7. QED
    BY <2>3, <2>4, <2>5, <2>6 DEF IInv
<1>3. CASE mem.state = "closed"
  <2>1. UNCHANGED <<log, mem>>
    BY <1>3
  <2>2. QED
    BY <1>1, <2>1, SameStream DEF IInv, TypeOK, MemoryIsReplay, AppendInProgress,
         AcceptedIsStored
<1>4. QED
  BY <1>2, <1>3

LEMMA RetryAppendKeeps ==
  ASSUME IInv, NEW id \in Ids, RetryAppend(id)
  PROVE  IInv'
<1> USE DEF RetryAppend, Ready
<1>1. StreamInv' /\ log' \in Seq(Events)
  BY SameStream
<1>2. \E i \in MessagesIn(log) : log[i].id = id
  BY MemoryFields DEF IInv
<1>3. QED
  BY <1>1, <1>2 DEF IInv, TypeOK, MemoryIsReplay, AppendInProgress, AcceptedIsStored

LEMMA CrashKeeps ==
  ASSUME IInv, Crash
  PROVE  IInv'
<1> USE DEF Crash
<1>1. StreamInv' /\ log' \in Seq(Events)
  BY SameStream
<1>2. QED
  BY <1>1 DEF IInv, TypeOK, Blank, MemoryIsReplay, AppendInProgress, AcceptedIsStored

\* Recovery needs that the stream replays to a state of the actor's type.
LEMMA RecoverKeeps ==
  ASSUME IInv, Recover
  PROVE  IInv'
<1> USE DEF Recover
<1>1. StreamInv' /\ log' \in Seq(Events)
  BY SameStream
<1>2. \A k \in 1 .. Len(log) : log[k] \in Events
  BY DEF IInv, TypeOK
<1>3. Replay(log).messages \subseteq Ids
  BY <1>2 DEF Replay, MessagesIn, Events, Opened, Suspended, Closed, IInv, TypeOK
<1>4. ReplayTurn(log) \in Nat
  <2>1. PICK t \in 0 .. Len(log) : IsLast(log, {"turn"}, t)
    BY DEF IInv, StreamInv, LastsExist
  <2>2. ReplayTurn(log) = IF t = 0 THEN 0 ELSE log[t].turn
    BY <2>1, LastWorks DEF ReplayTurn, IInv, TypeOK
  <2>3. QED
    BY <1>2, <2>1, <2>2 DEF IsLast, Events, Opened, Suspended, Closed
<1>5. ReplayState(log) \in {"open", "suspended", "closed"}
  BY DEF IInv, StreamInv, PhasesInOrder
<1>6. Replay(log) \in MemType
  BY <1>3, <1>4, <1>5 DEF Replay, MemType
<1>7. pc' = "idle"
  BY DEF IInv, AppendInProgress
<1>8. QED
  BY <1>1, <1>6, <1>7, PolicyAssumption DEF IInv, TypeOK, MemType, MemoryIsReplay,
     AppendInProgress, AcceptedIsStored

LEMMA NextKeeps ==
  ASSUME "stored" \notin PublishFaults, IInv, [Next]_vars
  PROVE  IInv'
<1>1. CASE \E id \in Ids, p \in People : AppendMessage(id, p)
  BY <1>1, AppendMessageKeeps
<1>2. CASE \E id \in Ids : RetryAppend(id)
  BY <1>2, RetryAppendKeeps
<1>3. CASE AdvanceTurn
  BY <1>3, AdvanceTurnKeeps
<1>4. CASE Suspend
  BY <1>4, SuspendKeeps
<1>5. CASE Close \/ IdleClose
  BY <1>5, CloseKeeps
<1>6. CASE Crash
  BY <1>6, CrashKeeps
<1>7. CASE Recover
  BY <1>7, RecoverKeeps
<1>8. CASE UNCHANGED vars
  BY <1>8, SameStream DEF vars, IInv, TypeOK, MemoryIsReplay, AppendInProgress,
     AcceptedIsStored
<1>9. QED
  BY <1>1, <1>2, <1>3, <1>4, <1>5, <1>6, <1>7, <1>8 DEF Next

-----------------------------------------------------------------------------
(* The theorems.                                                           *)

\* The inductive invariant holds whatever publishes are lost and wherever the
\* actor dies, for every policy and any number of messages.
THEOREM InvariantHolds ==
  ASSUME "stored" \notin PublishFaults
  PROVE  Spec => []IInv
<1>1. IInv /\ [Next]_vars => IInv'
  BY NextKeeps
<1>2. QED
  BY <1>1, InitIInv, PTL DEF Spec

\* Type correctness of the session (actor.go's state, the stream's events).
THEOREM TypeCorrect ==
  ASSUME "stored" \notin PublishFaults
  PROVE  Spec => []TypeOK
<1>1. IInv => TypeOK
  BY DEF IInv
<1>2. QED
  BY <1>1, InvariantHolds, PTL

\* A live actor's state is the replay of its stream at every moment, also
\* between the publishes of one append, and that is what applying each event of
\* the stream in turn leaves (publish, applyEvent, replay).
THEOREM MemoryIsAlwaysTheReplay ==
  ASSUME "stored" \notin PublishFaults
  PROVE  Spec => [](MemoryIsReplay /\ (up => mem = Folded(log)))
<1>1. IInv => MemoryIsReplay /\ (up => mem = Folded(log))
  BY ReplayFolds DEF IInv, TypeOK, MemoryIsReplay
<1>2. QED
  BY <1>1, InvariantHolds, PTL

\* While no publish is stored and reported as failed, no client message id is
\* stored twice (append's dedup table, rebuilt by replay).
THEOREM NoMessageTwice ==
  ASSUME "stored" \notin PublishFaults
  PROVE  Spec => []NoDuplicateMessage
<1>1. IInv => NoDuplicateMessage
  BY DEF IInv, StreamInv
<1>2. QED
  BY <1>1, InvariantHolds, PTL

\* Turns count up by one, every message stands at its turn and has that turn's
\* author, and closing is final (append's policy check, close).
THEOREM StreamIsWellFormed ==
  ASSUME "stored" \notin PublishFaults
  PROVE  Spec => []StreamWellFormed
<1>1. IInv => StreamWellFormed
  BY DEF IInv, StreamInv, StreamWellFormed
<1>2. QED
  BY <1>1, InvariantHolds, PTL

-----------------------------------------------------------------------------
(* What callers were told, however publishes fail.                         *)

StreamTyped == log \in Seq(Events) /\ mem.turn \in Nat

LEMMA PublishTyped ==
  ASSUME StreamTyped, NEW e \in Events, NEW o, Publish(e, o)
  PROVE  StreamTyped'
<1>1. log' \in Seq(Events)
  BY AppendFacts DEF Publish, StreamTyped
<1>2. Applied(mem, e).turn \in Nat
  BY DEF Applied, StreamTyped, Events, Opened, Suspended, Closed
<1>3. QED
  BY <1>1, <1>2 DEF Publish, StreamTyped

LEMMA StreamTypedNext ==
  ASSUME StreamTyped, [Next]_vars
  PROVE  StreamTyped'
<1>1. ASSUME NEW id \in Ids, NEW p \in People, AppendMessage(id, p)
      PROVE  StreamTyped'
  <2>1. Said(id, p, mem.turn) \in Events
    BY DEF Said, Events, StreamTyped
  <2>2. QED
    BY <1>1, <2>1, PublishTyped DEF AppendMessage
<1>2. CASE AdvanceTurn
  <2>1. TurnTo(mem.turn + 1) \in Events
    BY DEF TurnTo, Events, StreamTyped
  <2>2. QED
    BY <1>2, <2>1, PublishTyped DEF AdvanceTurn
<1>3. CASE Suspend \/ Close \/ IdleClose
  <2>1. Suspended \in Events /\ Closed \in Events
    BY DEF Events
  <2>2. (\E o : Publish(Suspended, o) \/ Publish(Closed, o)) \/ UNCHANGED <<log, mem>>
    BY <1>3 DEF Suspend, Close, IdleClose
  <2>3. QED
    BY <2>1, <2>2, PublishTyped DEF StreamTyped
<1>4. CASE Crash
  BY <1>4 DEF Crash, Blank, StreamTyped
<1>5. CASE Recover
  <2>1. PICK t \in 0 .. Len(log) : IsLast(log, {"turn"}, t)
    BY ReplayFolds DEF StreamTyped, LastsExist
  <2>2. ReplayTurn(log) = IF t = 0 THEN 0 ELSE log[t].turn
    BY <2>1, LastWorks DEF ReplayTurn, StreamTyped
  <2>3. \A k \in 1 .. Len(log) : log[k] \in Events
    BY DEF StreamTyped
  <2>4. ReplayTurn(log) \in Nat
    BY <2>1, <2>2, <2>3 DEF IsLast, Events, Opened, Suspended, Closed
  <2>5. QED
    BY <1>5, <2>4 DEF Recover, Replay, StreamTyped
<1>6. CASE (\E id \in Ids : RetryAppend(id)) \/ UNCHANGED vars
  BY <1>6 DEF RetryAppend, vars, StreamTyped
<1>7. QED
  BY <1>1, <1>2, <1>3, <1>4, <1>5, <1>6 DEF Next

\* What the dedup table owes the callers: it has whatever one was told is
\* appended, and nothing that the stream has not.
DedupInv ==
  /\ StreamTyped
  /\ accepted \union mem.messages \subseteq Replay(log).messages
  /\ up => accepted \union pending \subseteq mem.messages
  /\ ~up => pending = {}

LEMMA PublishDedup ==
  ASSUME StreamTyped, NEW e \in Events, NEW o, Publish(e, o)
  PROVE  /\ log' = log \/ log' = Append(log, e)
         /\ Replay(log).messages \subseteq Replay(log').messages
         /\ mem.messages \subseteq mem'.messages
         /\ mem.messages \subseteq Replay(log).messages => mem'.messages \subseteq Replay(log').messages
         /\ o = "ok" /\ e.kind = "message" => e.id \in mem'.messages
<1>1. /\ log' = IF o = "lost" THEN log ELSE Append(log, e)
      /\ mem' = IF o = "ok" THEN Applied(mem, e) ELSE mem
  BY DEF Publish
<1>2. Replay(Append(log, e)) = Applied(Replay(log), e)
  BY ReplayFolds, ReplayAppend DEF StreamTyped
<1>3. Replay(log).messages \subseteq Replay(Append(log, e)).messages
  BY <1>2 DEF Applied
<1>4. Applied(mem, e).messages =
        IF e.kind = "message" THEN mem.messages \union {e.id} ELSE mem.messages
  BY DEF Applied
<1>5. Replay(Append(log, e)).messages =
        IF e.kind = "message" THEN Replay(log).messages \union {e.id} ELSE Replay(log).messages
  BY <1>2 DEF Applied
<1>6. QED
  BY <1>1, <1>3, <1>4, <1>5

\* A publish that is no message of id leaves its copies alone.
LEMMA CopiesStay ==
  ASSUME log \in Seq(Events), NEW e \in Events, log' = log \/ log' = Append(log, e),
         NEW id, e.kind = "message" => e.id # id
  PROVE  Copies(id)' = Copies(id)
BY AppendFacts DEF Copies, MessagesIn

LEMMA DedupMessage ==
  ASSUME DedupInv, NEW id \in Ids, NEW p \in People, AppendMessage(id, p)
  PROVE  DedupInv' /\ \A x \in accepted : Copies(x)' = Copies(x)
<1>1. PICK e \in Events : e = Said(id, p, mem.turn) /\ e.kind = "message" /\ e.id = id
  <2>1. /\ Said(id, p, mem.turn) \in Events
        /\ Said(id, p, mem.turn).kind = "message" /\ Said(id, p, mem.turn).id = id
    BY DEF Said, Events, DedupInv, StreamTyped
  <2>2. QED
    BY <2>1
<1>2. PICK o : Publish(e, o) /\ pending' = IF o = "ok" THEN {id} ELSE {}
  BY <1>1 DEF AppendMessage
<1>3. up /\ up' = up /\ accepted' = accepted /\ id \notin mem.messages
  BY DEF AppendMessage, Ready
<1>4. StreamTyped'
  BY <1>2, PublishTyped DEF DedupInv
<1>5. DedupInv'
  BY <1>1, <1>2, <1>3, <1>4, PublishDedup DEF DedupInv
<1>6. \A x \in accepted : e.id # x
  BY <1>1, <1>3 DEF DedupInv
<1>7. \A x \in accepted : Copies(x)' = Copies(x)
  BY <1>2, <1>6, CopiesStay, PublishDedup DEF DedupInv, StreamTyped
<1>8. QED
  BY <1>5, <1>7

\* The publishes that are no messages.
LEMMA DedupOther ==
  ASSUME DedupInv, NEW e \in Events, e.kind # "message", NEW o, Publish(e, o),
         up, up', pending' \subseteq pending, accepted' \subseteq accepted \union pending
  PROVE  DedupInv' /\ \A x \in accepted : Copies(x)' = Copies(x)
<1>1. StreamTyped'
  BY PublishTyped DEF DedupInv
<1>2. DedupInv'
  BY <1>1, PublishDedup DEF DedupInv
<1>3. \A x \in accepted : Copies(x)' = Copies(x)
  BY CopiesStay, PublishDedup DEF DedupInv, StreamTyped
<1>4. QED
  BY <1>2, <1>3

LEMMA DedupKeeps ==
  ASSUME DedupInv, [Next]_vars
  PROVE  DedupInv' /\ \A x \in accepted : Copies(x)' = Copies(x)
<1>1. CASE \E id \in Ids, p \in People : AppendMessage(id, p)
  BY <1>1, DedupMessage
<1>2. CASE AdvanceTurn
  <2>1. PICK e \in Events : e = TurnTo(mem.turn + 1) /\ e.kind = "turn"
    <3>1. TurnTo(mem.turn + 1) \in Events /\ TurnTo(mem.turn + 1).kind = "turn"
      BY DEF TurnTo, Events, DedupInv, StreamTyped
    <3>2. QED
      BY <3>1
  <2>2. PICK o : Publish(e, o) /\ pending' \subseteq pending
                 /\ accepted' \subseteq accepted \union pending
    BY <1>2, <2>1 DEF AdvanceTurn
  <2>3. up /\ up'
    BY <1>2 DEF AdvanceTurn
  <2>4. QED
    BY <2>1, <2>2, <2>3, DedupOther
<1>3. CASE Suspend
  <2>1. PICK e \in Events : e = Suspended /\ e.kind = "suspended"
    <3>1. Suspended \in Events /\ Suspended.kind = "suspended"
      BY DEF Suspended, Events
    <3>2. QED
      BY <3>1
  <2>2. PICK o : Publish(e, o)
    BY <1>3, <2>1 DEF Suspend
  <2>3. up /\ up' /\ pending' = {} /\ accepted' = accepted \union pending
    BY <1>3 DEF Suspend
  <2>4. QED
    BY <2>1, <2>2, <2>3, DedupOther
<1>4. CASE (Close \/ IdleClose) /\ log' # log
  <2>1. PICK e \in Events : e = Closed /\ e.kind = "closed"
    <3>1. Closed \in Events /\ Closed.kind = "closed"
      BY DEF Closed, Events
    <3>2. QED
      BY <3>1
  <2>2. PICK o : Publish(e, o)
    BY <1>4, <2>1 DEF Close, IdleClose
  <2>3. up /\ up' /\ pending' = pending /\ accepted' = accepted
    BY <1>4 DEF Close, IdleClose, Ready
  <2>4. QED
    BY <2>1, <2>2, <2>3, DedupOther
<1>5. CASE (Close \/ IdleClose) /\ log' = log
  <2>1. mem' = mem
    BY <1>5, AppendFacts DEF Close, IdleClose, Publish, Closed, Events, DedupInv, StreamTyped
  <2>2. UNCHANGED <<up, pending, accepted, log>>
    BY <1>5 DEF Close, IdleClose
  <2>3. QED
    BY <2>1, <2>2 DEF DedupInv, StreamTyped, Copies, MessagesIn
<1>6. CASE \E id \in Ids : RetryAppend(id)
  BY <1>6 DEF RetryAppend, Ready, DedupInv, StreamTyped, Copies, MessagesIn
<1>7. CASE Crash
  BY <1>7 DEF Crash, Blank, DedupInv, StreamTyped, Copies, MessagesIn
<1>8. CASE Recover
  <2>1. StreamTyped'
    BY StreamTypedNext DEF DedupInv
  <2>2. /\ up' /\ ~up /\ mem' = Replay(log) /\ log' = log
        /\ pending' = pending /\ accepted' = accepted
    BY <1>8 DEF Recover
  <2>3. QED
    BY <2>1, <2>2 DEF DedupInv, Copies, MessagesIn
<1>9. CASE UNCHANGED vars
  BY <1>9 DEF vars, DedupInv, StreamTyped, Copies, MessagesIn
<1>10. QED
  BY <1>1, <1>2, <1>3, <1>4, <1>5, <1>6, <1>7, <1>8, <1>9 DEF Next

LEMMA InitDedup == Init => DedupInv
<1> SUFFICES ASSUME Init PROVE DedupInv
  OBVIOUS
<1>1. StreamTyped
  BY DEF Init, StreamTyped, Events, Applied, Blank, Opened
<1>2. accepted = {} /\ pending = {} /\ mem.messages = {} /\ up
  BY DEF Init, Applied, Blank, Opened
<1>3. QED
  BY <1>1, <1>2 DEF DedupInv

\* However publishes fail and wherever the actor dies: what a caller was told
\* is appended stays in the stream (append's return value).
THEOREM AcceptedIsDurable == Spec => []AcceptedIsStored
<1>1. DedupInv /\ [Next]_vars => DedupInv'
  BY DedupKeeps
<1>2. DedupInv => AcceptedIsStored
  BY DEF DedupInv, AcceptedIsStored, Replay
<1>3. QED
  BY <1>1, <1>2, InitDedup, PTL DEF Spec

\* Then, too, it is in the stream, and is not stored again when the caller repeats it, also from
\* behind a publish that was stored and reported as failed (append's dedup
\* table, rebuilt by replay).
THEOREM AcceptedIsStoredOnce == Spec => AcceptedIsNotRepeated
<1>1. DedupInv /\ [Next]_vars => DedupInv'
  BY DedupKeeps
<1>2. DedupInv => \A id \in accepted : Copies(id) # {}
  BY DEF DedupInv, Copies, Replay
<1>3. DedupInv /\ [Next]_vars => [\A id \in accepted : Copies(id)' = Copies(id)]_vars
  BY DedupKeeps
<1>4. DedupInv /\ [Next]_vars
        => [\A id \in accepted : Copies(id) # {} /\ Copies(id)' = Copies(id)]_vars
  BY <1>2, <1>3
<1>5. QED
  BY <1>1, <1>4, InitDedup, PTL DEF Spec, AcceptedIsNotRepeated

-----------------------------------------------------------------------------
(* Without faults: one message per turn, and the caller's answer means the *)
(* turn has moved.  All that changes is the stream, by one event at a time.*)

\* What one event more does to the parts of a stream.
LEMMA AppendedStream ==
  ASSUME NEW l \in Seq(Events), NEW e \in Events, LastsExist(l)
  PROVE  LET m == Append(l, e)
             n == Len(l) + 1
         IN  /\ Len(l) \in Nat
             /\ MessagesIn(l) \subseteq 1 .. Len(l)
             /\ TurnsIn(l) \subseteq 1 .. Len(l)
             /\ \A i \in 1 .. Len(l) : m[i] = l[i]
             /\ m[n] = e
             /\ MessagesIn(m) = IF e.kind = "message" THEN MessagesIn(l) \union {n}
                                ELSE MessagesIn(l)
             /\ TurnsIn(m) = IF e.kind = "turn" THEN TurnsIn(l) \union {n} ELSE TurnsIn(l)
             /\ ReplayState(m) = IF e.kind \in StateKinds THEN StateAfter(e.kind)
                                 ELSE ReplayState(l)
             /\ ReplayTurn(m) = IF e.kind = "turn" THEN e.turn ELSE ReplayTurn(l)
<1> DEFINE m == Append(l, e)
           n == Len(l) + 1
<1>1. /\ Len(l) \in Nat /\ DOMAIN l = 1 .. Len(l) /\ DOMAIN m = 1 .. n
      /\ \A i \in 1 .. Len(l) : m[i] = l[i]
      /\ m[n] = e
  BY AppendFacts
<1>2. Replay(m) = Applied(Replay(l), e)
  BY ReplayAppend
<1> HIDE DEF m
<1>3. /\ MessagesIn(l) \subseteq 1 .. Len(l)
      /\ TurnsIn(l) \subseteq 1 .. Len(l)
  BY <1>1 DEF MessagesIn, TurnsIn
<1>4. MessagesIn(m) = IF e.kind = "message" THEN MessagesIn(l) \union {n} ELSE MessagesIn(l)
  BY <1>1 DEF MessagesIn
<1>5. TurnsIn(m) = IF e.kind = "turn" THEN TurnsIn(l) \union {n} ELSE TurnsIn(l)
  BY <1>1 DEF TurnsIn
<1>6. /\ ReplayState(m) = IF e.kind \in StateKinds THEN StateAfter(e.kind)
                          ELSE ReplayState(l)
      /\ ReplayTurn(m) = IF e.kind = "turn" THEN e.turn ELSE ReplayTurn(l)
  BY <1>2 DEF Replay, Applied
<1>7. QED
  BY <1>1, <1>3, <1>4, <1>5, <1>6 DEF m

\* A turn that was reached was published.
LEMMA TurnWasPublished ==
  ASSUME IInv
  PROVE  /\ ReplayTurn(log) \in Nat
         /\ \A i \in MessagesIn(log) \union TurnsIn(log) : log[i].turn \in Nat
         /\ ReplayTurn(log) > 0 => \E j \in TurnsIn(log) : log[j].turn = ReplayTurn(log)
<1> USE DEF IInv, TypeOK
<1>1. \A k \in 1 .. Len(log) : log[k] \in Events
  OBVIOUS
<1>2. \A i \in MessagesIn(log) \union TurnsIn(log) : log[i].turn \in Nat
  BY <1>1 DEF MessagesIn, TurnsIn, Events, Opened, Suspended, Closed
<1>3. PICK t \in 0 .. Len(log) : IsLast(log, {"turn"}, t)
  BY DEF StreamInv, LastsExist
<1>4. ReplayTurn(log) = IF t = 0 THEN 0 ELSE log[t].turn
  BY <1>3, LastWorks DEF ReplayTurn
<1>5. t > 0 => t \in TurnsIn(log)
  BY <1>3 DEF IsLast, TurnsIn
<1>6. QED
  BY <1>2, <1>3, <1>4, <1>5

\* What was moved past stays so when the stream grows.
LEMMA MovedStays ==
  ASSUME IInv, NEW e \in Events, log' = log \/ log' = Append(log, e),
         NEW id, MovedPast(id)
  PROVE  MovedPast(id)'
<1>1. CASE log' = log
  BY <1>1 DEF MovedPast
<1>2. CASE log' = Append(log, e)
  <2>1. /\ MessagesIn(log) \subseteq MessagesIn(log')
        /\ TurnsIn(log) \subseteq TurnsIn(log')
        /\ \A i \in MessagesIn(log) \union TurnsIn(log) : log'[i] = log[i]
    BY <1>2, AppendedStream DEF IInv, TypeOK, StreamInv
  <2>2. QED
    BY <2>1 DEF MovedPast
<1>3. QED
  BY <1>1, <1>2

\* An id whose message stands before the current turn has been moved past.
LEMMA BehindIsMoved ==
  ASSUME IInv, NEW i \in MessagesIn(log), log[i].turn < ReplayTurn(log)
  PROVE  MovedPast(log[i].id)
<1>1. log[i].turn \in Nat /\ ReplayTurn(log) \in Nat
  BY TurnWasPublished
<1>2. PICK j \in TurnsIn(log) : log[j].turn = ReplayTurn(log)
  BY <1>1, TurnWasPublished
<1>3. QED
  BY <1>1, <1>2 DEF MovedPast

\* A publish that cannot fail.
LEMMA PublishWorks ==
  ASSUME NothingFails, NEW e, NEW o \in Outcomes, Publish(e, o)
  PROVE  o = "ok" /\ log' = Append(log, e)
BY DEF NothingFails, Outcomes, Publish

LEMMA QuietMessage ==
  ASSUME NothingFails, IInv, QuietInv,
         NEW id \in Ids, NEW p \in People, AppendMessage(id, p)
  PROVE  QuietInv'
<1> DEFINE e == Said(id, p, mem.turn)
           n == Len(log) + 1
<1> USE DEF QuietInv
<1>1. /\ up /\ up' /\ pc = "idle" /\ mem.state = "open" /\ accepted' = accepted
      /\ e \in Events /\ Legal(log, e)
  BY SaidIsLegal DEF AppendMessage, Ready
<1>2. log' = Append(log, e) /\ pc' = "advance"
  BY PublishWorks DEF AppendMessage
<1>3. ReplayState(log) = "open" /\ mem.turn = ReplayTurn(log)
  BY <1>1, MemoryFields DEF IInv
<1>4. e.kind = "message" /\ e.turn = ReplayTurn(log) /\ e.id = id
  BY <1>3 DEF Said
<1> HIDE DEF e
<1>5. /\ MessagesIn(log') = MessagesIn(log) \union {n} /\ log'[n] = e
      /\ \A i \in MessagesIn(log) \union TurnsIn(log) : log'[i] = log[i]
      /\ TurnsIn(log') = TurnsIn(log)
      /\ ReplayState(log') = "open" /\ ReplayTurn(log') = ReplayTurn(log)
  BY <1>1, <1>2, <1>3, <1>4, AppendedStream DEF IInv, TypeOK, StreamInv, StateKinds
<1>6. \A i \in MessagesIn(log) : log[i].turn < ReplayTurn(log) /\ log[i].turn \in Nat
  BY <1>1, <1>3, TurnWasPublished DEF TurnIsFresh
<1>7. OneMessagePerTurn'
  BY <1>4, <1>5, <1>6, TurnWasPublished DEF OneMessagePerTurn
<1>8. TurnsAreLeft' /\ TurnIsFresh'
  BY <1>1, <1>2, <1>3, <1>5 DEF TurnsAreLeft, TurnIsFresh
<1>9. AcceptedMovedTheTurn'
  BY <1>1, <1>2, MovedStays DEF AcceptedMovedTheTurn
<1>10. QED
  BY <1>1, <1>7, <1>8, <1>9

LEMMA QuietRetry ==
  ASSUME IInv, QuietInv, NEW id \in Ids, RetryAppend(id)
  PROVE  QuietInv'
<1> USE DEF RetryAppend, Ready, QuietInv
<1>1. PICK i \in MessagesIn(log) : log[i].id = id
  BY MemoryFields DEF IInv
<1>2. log[i].turn < ReplayTurn(log)
  BY <1>1, MemoryFields DEF IInv, TurnIsFresh
<1>3. MovedPast(id)
  BY <1>1, <1>2, BehindIsMoved
<1>4. \A x \in accepted' : MovedPast(x)
  BY <1>3 DEF AcceptedMovedTheTurn
<1>5. AcceptedMovedTheTurn'
  BY <1>4 DEF AcceptedMovedTheTurn, MovedPast
<1>6. QED
  BY <1>5 DEF TurnIsFresh, TurnsAreLeft, OneMessagePerTurn

LEMMA QuietTurn ==
  ASSUME NothingFails, IInv, QuietInv, AdvanceTurn
  PROVE  QuietInv'
<1> DEFINE e == TurnTo(mem.turn + 1)
           n == Len(log) + 1
           T == ReplayTurn(log)
<1> USE DEF QuietInv
<1>1. /\ up /\ up' /\ pc = "advance"
      /\ e \in Events /\ Legal(log, e)
      /\ ReplayState(log) = "open" /\ pending \subseteq Replay(log).messages
      /\ mem.turn = T /\ T \in Nat
  BY TurnIsLegal, TurnWasPublished, MemoryFields DEF AdvanceTurn, IInv, AppendInProgress
<1>2. /\ log' = Append(log, e)
      /\ IF MaxTurns > 0 /\ T + 1 >= MaxTurns
           THEN pc' = "suspend" /\ UNCHANGED <<pending, accepted>>
           ELSE pc' = "idle" /\ accepted' = accepted \union pending
  BY <1>1, PublishWorks DEF AdvanceTurn
<1>3. e.kind = "turn" /\ e.turn = T + 1
  BY <1>1 DEF TurnTo
<1> HIDE DEF e
<1>4. /\ TurnsIn(log') = TurnsIn(log) \union {n} /\ log'[n] = e
      /\ \A i \in MessagesIn(log) \union TurnsIn(log) : log'[i] = log[i]
      /\ MessagesIn(log') = MessagesIn(log)
      /\ ReplayState(log') = "open" /\ ReplayTurn(log') = T + 1
  BY <1>1, <1>2, <1>3, AppendedStream DEF IInv, TypeOK, StreamInv, StateKinds
<1>5. \A i \in MessagesIn(log) : log[i].turn <= T /\ log[i].turn \in Nat
  BY TurnWasPublished DEF IInv, StreamInv, NothingAhead
<1>6. TurnIsFresh'
  BY <1>1, <1>4, <1>5 DEF TurnIsFresh
<1>7. TurnsAreLeft'
  BY <1>1, <1>2, <1>4, PolicyAssumption DEF TurnsAreLeft
<1>8. OneMessagePerTurn'
  BY <1>1, <1>3, <1>4, <1>7, PolicyAssumption DEF OneMessagePerTurn, TurnsAreLeft
<1>9. \A id \in pending : MovedPast(id)'
  <2> SUFFICES ASSUME NEW id \in pending PROVE MovedPast(id)'
    OBVIOUS
  <2>1. PICK i \in MessagesIn(log) : log[i].id = id
    BY <1>1 DEF Replay
  <2>2. i \in MessagesIn(log') /\ log'[i].id = id /\ log'[n].turn > log'[i].turn
    BY <1>1, <1>3, <1>4, <1>5, <2>1
  <2>3. QED
    BY <1>4, <2>2 DEF MovedPast
<1>10. AcceptedMovedTheTurn'
  <2>1. \A id \in accepted : MovedPast(id)'
    BY <1>1, <1>2, MovedStays DEF AcceptedMovedTheTurn
  <2>2. QED
    BY <1>2, <1>9, <2>1 DEF AcceptedMovedTheTurn
<1>11. QED
  BY <1>1, <1>6, <1>7, <1>8, <1>10

LEMMA QuietSuspend ==
  ASSUME NothingFails, IInv, QuietInv, Suspend
  PROVE  QuietInv'
<1> USE DEF QuietInv
<1>1. /\ up /\ up' /\ pc = "suspend" /\ ReplayState(log) = "open"
      /\ pending \subseteq Replay(log).messages
      /\ Suspended \in Events /\ accepted' = accepted \union pending
  BY SuspendedIsLegal DEF Suspend, IInv, AppendInProgress
<1>2. log' = Append(log, Suspended)
  BY PublishWorks DEF Suspend
<1>3. /\ MessagesIn(log') = MessagesIn(log) /\ TurnsIn(log') = TurnsIn(log)
      /\ \A i \in MessagesIn(log) \union TurnsIn(log) : log'[i] = log[i]
      /\ ReplayState(log') = "suspended" /\ ReplayTurn(log') = ReplayTurn(log)
  BY <1>1, <1>2, AppendedStream
     DEF IInv, TypeOK, StreamInv, StateKinds, StateAfter, Suspended
<1>4. \A id \in pending : MovedPast(id)
  <2> SUFFICES ASSUME NEW id \in pending PROVE MovedPast(id)
    OBVIOUS
  <2>1. PICK i \in MessagesIn(log) : log[i].id = id
    BY <1>1 DEF Replay
  <2>2. QED
    BY <1>1, <2>1, BehindIsMoved DEF TurnIsFresh
<1>5. AcceptedMovedTheTurn'
  BY <1>1, <1>2, <1>4, MovedStays DEF AcceptedMovedTheTurn
<1>6. QED
  BY <1>1, <1>3, <1>5 DEF TurnIsFresh, TurnsAreLeft, OneMessagePerTurn

LEMMA QuietClose ==
  ASSUME NothingFails, IInv, QuietInv, Close \/ IdleClose
  PROVE  QuietInv'
<1> USE DEF QuietInv
<1>1. up' /\ Closed \in Events /\ UNCHANGED <<pc, accepted>>
  BY DEF Close, IdleClose, Closed, Events
<1>2. log' = log \/ log' = Append(log, Closed)
  BY PublishWorks DEF Close, IdleClose
<1>3. CASE log' = Append(log, Closed)
  <2>1. /\ MessagesIn(log') = MessagesIn(log) /\ TurnsIn(log') = TurnsIn(log)
        /\ \A i \in MessagesIn(log) \union TurnsIn(log) : log'[i] = log[i]
        /\ ReplayState(log') = "closed" /\ ReplayTurn(log') = ReplayTurn(log)
    BY <1>1, <1>3, AppendedStream
       DEF IInv, TypeOK, StreamInv, StateKinds, StateAfter, Closed
  <2>2. AcceptedMovedTheTurn'
    BY <1>1, <1>3, MovedStays DEF AcceptedMovedTheTurn
  <2>3. QED
    BY <1>1, <2>1, <2>2 DEF TurnIsFresh, TurnsAreLeft, OneMessagePerTurn
<1>4. CASE log' = log
  BY <1>1, <1>4 DEF TurnIsFresh, TurnsAreLeft, OneMessagePerTurn, AcceptedMovedTheTurn,
     MovedPast
<1>5. QED
  BY <1>2, <1>3, <1>4

LEMMA QuietKeeps ==
  ASSUME NothingFails, IInv, QuietInv, [Next]_vars
  PROVE  QuietInv'
<1>1. CASE \E id \in Ids, p \in People : AppendMessage(id, p)
  BY <1>1, QuietMessage
<1>2. CASE \E id \in Ids : RetryAppend(id)
  BY <1>2, QuietRetry
<1>3. CASE AdvanceTurn
  BY <1>3, QuietTurn
<1>4. CASE Suspend
  BY <1>4, QuietSuspend
<1>5. CASE Close \/ IdleClose
  BY <1>5, QuietClose
<1>6. CASE Crash \/ Recover
  BY <1>6 DEF Crash, Recover, NothingFails, QuietInv
<1>7. CASE UNCHANGED vars
  BY <1>7 DEF vars, QuietInv, TurnIsFresh, TurnsAreLeft, OneMessagePerTurn,
     AcceptedMovedTheTurn, MovedPast
<1>8. QED
  BY <1>1, <1>2, <1>3, <1>4, <1>5, <1>6, <1>7 DEF Next

LEMMA InitQuiet == Init => QuietInv
<1> SUFFICES ASSUME Init PROVE QuietInv
  OBVIOUS
<1>1. IInv /\ up /\ mem.turn = 0 /\ accepted = {}
  BY InitIInv DEF Init, Applied, Blank, Opened
<1>2. ReplayTurn(log) = 0
  BY <1>1, MemoryFields DEF IInv
<1>3. MessagesIn(log) = {} /\ TurnsIn(log) = {}
  BY DEF Init, MessagesIn, TurnsIn, Opened
<1>4. QED
  BY <1>1, <1>2, <1>3, PolicyAssumption
     DEF QuietInv, TurnIsFresh, TurnsAreLeft, OneMessagePerTurn, AcceptedMovedTheTurn

LEMMA QuietInvHolds ==
  ASSUME NothingFails
  PROVE  Spec => [](IInv /\ QuietInv)
<1>1. "stored" \notin PublishFaults
  BY DEF NothingFails
<1>2. IInv /\ QuietInv /\ [Next]_vars => (IInv /\ QuietInv)'
  BY <1>1, NextKeeps, QuietKeeps
<1>3. QED
  BY <1>2, InitIInv, InitQuiet, PTL DEF Spec

\* While every publish works and nothing crashes, a turn has at most one
\* message and none comes after max_turns: append advances the turn, and
\* suspends at the limit, before the next command is looked at.
THEOREM OneMessageInATurn ==
  ASSUME NothingFails
  PROVE  Spec => []OneMessagePerTurn
<1>1. QuietInv => OneMessagePerTurn
  BY DEF QuietInv
<1>2. QED
  BY <1>1, QuietInvHolds, PTL

\* Then, too, a caller that was told its message is appended, the first time
\* or on a retry, can rely on the turn having moved past it.
THEOREM AcceptedMeansMoved ==
  ASSUME NothingFails
  PROVE  Spec => []AcceptedMovedTheTurn
<1>1. QuietInv => AcceptedMovedTheTurn
  BY DEF QuietInv
<1>2. QED
  BY <1>1, QuietInvHolds, PTL

-----------------------------------------------------------------------------
(* Refinement: the stream of a session is a Conversation.                  *)

\* Every step that touches the stream appends one legal event to it.
LEMMA StepsAreLegal ==
  ASSUME "stored" \notin PublishFaults, IInv, [Next]_vars
  PROVE  \/ log' = log
         \/ \E e \in Events : Legal(log, e) /\ log' = Append(log, e)
<1>1. ASSUME NEW e \in Events, NEW o \in Outcomes, Legal(log, e), Publish(e, o)
      PROVE  log' = log \/ (Legal(log, e) /\ log' = Append(log, e))
  BY <1>1, FaultAssumption DEF Outcomes, Publish
<1>2. CASE \E id \in Ids, p \in People : AppendMessage(id, p)
  BY <1>1, <1>2, SaidIsLegal DEF AppendMessage
<1>3. CASE AdvanceTurn
  BY <1>1, <1>3, TurnIsLegal DEF AdvanceTurn
<1>4. CASE Suspend
  BY <1>1, <1>4, SuspendedIsLegal DEF Suspend
<1>5. CASE Close \/ IdleClose
  BY <1>1, <1>5, ClosedIsLegal DEF Close, IdleClose, Ready
<1>6. CASE (\E id \in Ids : RetryAppend(id)) \/ Crash \/ Recover \/ UNCHANGED vars
  BY <1>6 DEF RetryAppend, Crash, Recover, vars
<1>7. QED
  BY <1>2, <1>3, <1>4, <1>5, <1>6 DEF Next

\* An event adds its message, if it has one, to what was said.
LEMMA SaidAfterAppend ==
  ASSUME NEW l \in Seq(Events), NEW e \in Events
  PROVE  SaidIn(Append(l, e)) =
           IF e.kind = "message"
             THEN SaidIn(l) \union {[id |-> e.id, from |-> e.from, turn |-> e.turn]}
             ELSE SaidIn(l)
<1> DEFINE m == Append(l, e)
<1>1. /\ Len(l) \in Nat
      /\ DOMAIN l = 1 .. Len(l) /\ DOMAIN m = 1 .. (Len(l) + 1)
      /\ \A k \in 1 .. Len(l) : m[k] = l[k]
      /\ m[Len(l) + 1] = e
  BY AppendFacts
<1> HIDE DEF m
<1>2. /\ \A k \in MessagesIn(l) : m[k] = l[k]
      /\ MessagesIn(m) = IF e.kind = "message"
                           THEN MessagesIn(l) \union {Len(l) + 1} ELSE MessagesIn(l)
  BY <1>1 DEF MessagesIn
<1>3. QED
  BY <1>1, <1>2 DEF SaidIn, m

LEMMA LegalIsConversation ==
  ASSUME IInv, NEW e \in Events, Legal(log, e), log' = Append(log, e)
  PROVE  C!CNext
<1> USE DEF IInv, TypeOK
<1>1. Replay(log') = Applied(Replay(log), e)
  BY ReplayAppend DEF StreamInv
<1>2. /\ ReplayState(log') = IF e.kind \in StateKinds THEN StateAfter(e.kind)
                             ELSE ReplayState(log)
      /\ ReplayTurn(log') = IF e.kind = "turn" THEN e.turn ELSE ReplayTurn(log)
  BY <1>1 DEF Replay, Applied
<1>3. SaidIn(log') = IF e.kind = "message"
        THEN SaidIn(log) \union {[id |-> e.id, from |-> e.from, turn |-> e.turn]}
        ELSE SaidIn(log)
  BY SaidAfterAppend
<1>4. CASE e.kind = "message"
  <2>1. e.id \in Ids /\ e.from \in C!Speakers
    BY <1>4 DEF Events, Opened, Suspended, Closed, People, C!Speakers
  <2>2. \A m \in SaidIn(log) : m.id # e.id
    BY <1>4 DEF Legal, SaidIn
  <2>3. C!Say(e.id, e.from)
    BY <1>2, <1>3, <1>4, <2>2 DEF Legal, C!Say, C!Owner, SpeakerAt, StateKinds
  <2>4. QED
    BY <2>1, <2>3 DEF C!CNext
<1>5. CASE e.kind = "turn"
  <2>1. PICK i \in MessagesIn(log) : log[i].turn = ReplayTurn(log)
    BY <1>5 DEF Legal
  <2>2. [id |-> log[i].id, from |-> log[i].from, turn |-> log[i].turn] \in SaidIn(log)
    BY DEF SaidIn
  <2>3. \E m \in SaidIn(log) : m.turn = ReplayTurn(log)
    BY <2>1, <2>2
  <2>4. C!Pass
    BY <1>2, <1>3, <1>5, <2>3 DEF Legal, C!Pass, StateKinds
  <2>5. QED
    BY <2>4 DEF C!CNext
<1>6. CASE e.kind = "suspended"
  <2>1. C!RunOut
    BY <1>2, <1>3, <1>6 DEF Legal, C!RunOut, StateKinds, StateAfter
  <2>2. QED
    BY <2>1 DEF C!CNext
<1>7. CASE e.kind = "closed"
  <2>1. C!End
    BY <1>2, <1>3, <1>7 DEF Legal, C!End, StateKinds, StateAfter
  <2>2. QED
    BY <2>1 DEF C!CNext
<1>8. QED
  BY <1>4, <1>5, <1>6, <1>7 DEF Legal

LEMMA InitIsConversation == Init => C!CInit
<1> SUFFICES ASSUME Init PROVE C!CInit
  OBVIOUS
<1>1. MemoryIsReplay /\ log = <<Opened>> /\ up /\ mem = Applied(Blank, Opened)
  BY InitIInv DEF IInv, Init
<1>2. ReplayState(log) = "open" /\ ReplayTurn(log) = 0
  BY <1>1, MemoryFields DEF Applied, Blank, Opened, StateKinds, StateAfter
<1>3. MessagesIn(log) = {}
  BY <1>1 DEF MessagesIn, Opened
<1>4. SaidIn(log) = {}
  BY <1>3 DEF SaidIn
<1>5. QED
  BY <1>2, <1>4 DEF C!CInit

\* Session implements Conversation: what a reader of the stream sees is a
\* conversation, with publishes lost and the actor crashing anywhere.
THEOREM SessionIsConversation ==
  ASSUME "stored" \notin PublishFaults
  PROVE  Spec => ImplementsConversation
<1>1. Init => C!CInit
  BY InitIsConversation
<1>2. IInv /\ [Next]_vars => [C!CNext]_C!cvars
  <2> SUFFICES ASSUME IInv, [Next]_vars PROVE [C!CNext]_C!cvars
    OBVIOUS
  <2>1. CASE log' = log
    BY <2>1 DEF C!cvars
  <2>2. CASE \E e \in Events : Legal(log, e) /\ log' = Append(log, e)
    BY <2>2, LegalIsConversation
  <2>3. QED
    BY <2>1, <2>2, StepsAreLegal
<1>3. QED
  BY <1>1, <1>2, InvariantHolds, PTL DEF Spec, ImplementsConversation, C!CSpec
=============================================================================
