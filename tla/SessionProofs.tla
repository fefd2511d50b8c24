---------------------------- MODULE SessionProofs ----------------------------
(***************************************************************************)
(* Theorems about SessionGeneration for every number of requests, every    *)
(* range of dates and every timetable.                                     *)
(***************************************************************************)
EXTENDS SessionGeneration, FiniteSetTheorems, TLAPS

(***************************************************************************)
(* Dates, keys and frames                                                  *)
(***************************************************************************)

\* The frame of each program counter.
LEMMA FrameTable ==
    /\ FrameOf("idle") = {NoFrame} /\ FrameOf("schedules") = RangeFrame
    /\ FrameOf("existing") = WindowFrame /\ FrameOf("bulk") = InsertFrame
    /\ FrameOf("row") = InsertFrame /\ FrameOf("answered") = InsertFrame
BY DEF FrameOf

\* The keys of the dates are finitely many numbers.
LEMMA KeysFinite ==
    /\ IsFiniteSet(Key)
    /\ \A k \in Key : k \in Int /\ k + 1 \in Nat
    /\ \A S \in SUBSET Key : IsFiniteSet(S) /\ Cardinality(S) \in Nat
<1> DEFINE g == [d \in Date |-> DateKey(d)]
<1>1. g \in Surjection(Date, Key)
  BY DEF Surjection, Key
<1>2. IsFiniteSet(Key)
  BY <1>1, FS_Surjection, SessionAssumption
<1>3. \A k \in Key : k \in Int /\ k + 1 \in Nat
  BY SessionAssumption DEF Key, DateKey
<1>4. QED
  BY <1>2, <1>3, FS_Subset, FS_CardinalityType

\* A nonempty set of keys has a first one.
LEMMA FirstKey ==
    ASSUME NEW S \in SUBSET Key, S # {}
    PROVE  Min(S) \in S
<1> DEFINE R == OpToRel(<, Nat)
           T == {k + 1 : k \in S}
<1>1. IsWellFoundedOn(R, Nat)
  BY NatLessThanWellFounded
<1>2. \A x, y \in Nat : x < y => <<x, y>> \in R
  BY DEF OpToRel
<1>3. T \subseteq Nat /\ T # {}
  BY KeysFinite
<1> HIDE DEF R
<1>4. PICK x \in T : \A y \in T : <<y, x>> \notin R
  BY <1>1, <1>3, WFMin, Zenon
<1>5. PICK k \in S : x = k + 1
  BY <1>4
<1>6. ASSUME NEW l \in S PROVE k <= l
  <2>1. x \in Nat /\ l + 1 \in T /\ l + 1 \in Nat
    BY <1>3, <1>4
  <2>2. ~(l + 1 < x)
    BY <1>2, <1>4, <2>1
  <2>3. k \in Int /\ l \in Int
    BY KeysFinite
  <2>4. QED
    BY <1>5, <2>2, <2>3
<1>7. QED
  BY <1>6 DEF Min

\* Dates are numbers, those of the class among them.
LEMMA DatesAreNumbers ==
    /\ Date \subseteq Int
    /\ TypeOK => class.start \in Int /\ class.end \in Int
<1>1. \A d \in Date : d \in Int
  <2>1. Date \subseteq Nat
    BY SessionAssumption
  <2>2. QED
    BY <2>1
<1>2. TypeOK => class.start \in Date /\ class.end \in Date
  BY DEF TypeOK, ClassRow
<1>3. QED
  BY <1>1, <1>2

\* Going to the next await changes the frame of one request.
LEMMA GotoTyped ==
    ASSUME TypeOK, NEW r \in Request, NEW p \in PC, NEW f \in FrameOf(p), Goto(r, p, f)
    PROVE  /\ pc' \in [Request -> PC] /\ DOMAIN loc' = Request
           /\ \A q \in Request : loc'[q] \in FrameOf(pc'[q])
           /\ pc'[r] = p /\ loc'[r] = f
           /\ \A q \in Request \ {r} : pc'[q] = pc[q] /\ loc'[q] = loc[q]
BY DEF Goto, TypeOK

\* The days a request matches become keys.
LEMMA MatchingKeys ==
    ASSUME NEW f \in WindowFrame
    PROVE  Matching(f) \in SUBSET Key
BY DEF Matching, Key

(***************************************************************************)
(* No date is lost, and the report is sound                                *)
(***************************************************************************)

\* What a request at p with locals f knows of the sessions S: the dates it has
\* no more to do are there, and its counts add up to them.
Known(p, f, S) ==
    p \in {"bulk", "row", "answered"} =>
      /\ f.todo \subseteq f.dates /\ f.dates \ f.todo \subseteq S
      /\ p = "bulk" => f.created + f.skipped = Cardinality(f.dates)
      /\ p # "bulk" => f.created + f.skipped <= Cardinality(f.dates \ f.todo)
      /\ p = "row" => f.todo # {}
      /\ p = "answered" => f.todo = {}

SessionInv == TypeOK /\ \A r \in Request : Known(pc[r], loc[r], sessions)

\* Sessions that are added take nothing away from what a request knows.
LEMMA KnownStays ==
    ASSUME NEW p, NEW f, NEW S, NEW T, S \subseteq T, Known(p, f, S)
    PROVE  Known(p, f, T)
BY DEF Known

\* A request that goes on knows what it has to at its next await.
LEMMA GotoKnows ==
    ASSUME SessionInv, NEW r \in Request, NEW p \in PC, NEW f \in FrameOf(p), Goto(r, p, f),
           UNCHANGED <<edits, class, weekdays>>,
           sessions \subseteq sessions', sessions' \subseteq Key, Known(p, f, sessions')
    PROVE  SessionInv'
<1>1. TypeOK /\ \A q \in Request : Known(pc[q], loc[q], sessions)
  BY DEF SessionInv
<1>2. /\ pc' \in [Request -> PC] /\ DOMAIN loc' = Request
      /\ \A q \in Request : loc'[q] \in FrameOf(pc'[q])
      /\ pc'[r] = p /\ loc'[r] = f
      /\ \A q \in Request \ {r} : pc'[q] = pc[q] /\ loc'[q] = loc[q]
  BY <1>1, GotoTyped
<1>3. TypeOK'
  BY <1>1, <1>2 DEF TypeOK
<1>4. ASSUME NEW q \in Request PROVE Known(pc[q], loc[q], sessions)'
  <2>1. CASE q = r
    BY <1>2, <2>1
  <2>2. CASE q # r
    <3>1. Known(pc[q], loc[q], sessions')
      BY <1>1, KnownStays
    <3>2. QED
      BY <1>2, <2>2, <3>1
  <2>3. QED
    BY <2>1, <2>2
<1>5. QED
  BY <1>3, <1>4 DEF SessionInv

\* A request that answers or stops knows nothing.
LEMMA FinishKnows ==
    ASSUME SessionInv, NEW r \in Request, Finish(r), UNCHANGED store
    PROVE  SessionInv'
<1>1. "idle" \in PC /\ NoFrame \in FrameOf("idle") /\ Known("idle", NoFrame, sessions')
  BY FrameTable DEF PC, Known
<1>2. sessions \subseteq sessions' /\ sessions' \subseteq Key
  BY DEF store, SessionInv, TypeOK
<1>3. QED
  BY <1>1, <1>2, GotoKnows DEF Finish, store

\* The frame of a request past its first reads.
LEMMA FrameHeld ==
    ASSUME TypeOK, NEW r \in Request
    PROVE  /\ pc[r] = "schedules" => loc[r] \in RangeFrame
           /\ pc[r] = "existing" => loc[r] \in WindowFrame
           /\ pc[r] \in {"bulk", "row", "answered"} => loc[r] \in InsertFrame
BY FrameTable DEF TypeOK

\* The two first reads.
LEMMA ReadsKnow ==
    ASSUME SessionInv, NEW r \in Request,
           \/ \E from, to \in Date : GenerateReadClass(r, from, to)
           \/ GenerateReadSchedules(r)
    PROVE  SessionInv'
<1>1. /\ TypeOK /\ sessions \subseteq sessions
      /\ (UNCHANGED store => sessions' = sessions /\ sessions' \subseteq Key)
  BY DEF SessionInv, TypeOK, store
<1>2. ASSUME NEW p \in {"schedules", "existing"}, NEW f \in FrameOf(p), Goto(r, p, f),
             UNCHANGED store
      PROVE  SessionInv'
  <2>1. p \in PC /\ Known(p, f, sessions')
    BY DEF PC, Known
  <2>2. QED
    BY <1>1, <1>2, <2>1, GotoKnows DEF store
<1>3. ASSUME NEW from \in Date, NEW to \in Date, GenerateReadClass(r, from, to)
      PROVE  SessionInv'
  <2>1. [start |-> class.start, end |-> class.end, from |-> from, to |-> to]
          \in FrameOf("schedules")
    BY <1>1, FrameTable DEF RangeFrame, TypeOK, ClassRow
  <2>2. QED
    BY <1>2, <1>3, <2>1 DEF GenerateReadClass
<1>4. CASE GenerateReadSchedules(r)
  <2>1. loc[r] \in RangeFrame
    BY <1>1, <1>4, FrameHeld DEF GenerateReadSchedules
  <2> DEFINE f == loc[r]
             first == IF f.start > f.from THEN f.start ELSE f.from
             last == IF f.end < f.to THEN f.end ELSE f.to
  <2>2. first \in Date /\ last \in Date /\ weekdays \subseteq DayOfWeek
    BY <1>1, <2>1, SessionAssumption DEF RangeFrame, TypeOK
  <2>3. [first |-> first, last |-> last, on |-> weekdays] \in FrameOf("existing")
    BY <2>2, FrameTable DEF WindowFrame
  <2>4. CASE Finish(r)
    BY <1>4, <2>4, FinishKnows DEF GenerateReadSchedules
  <2>5. CASE Goto(r, "existing", [first |-> first, last |-> last, on |-> weekdays])
    BY <1>2, <1>4, <2>3, <2>5 DEF GenerateReadSchedules
  <2>6. QED
    BY <1>4, <2>4, <2>5 DEF GenerateReadSchedules
<1>5. QED
  BY <1>3, <1>4

\* The split into dates to skip and dates to create counts each date once.
LEMMA ExistingKnows ==
    ASSUME SessionInv, NEW r \in Request, GenerateReadExisting(r)
    PROVE  SessionInv'
<1> DEFINE D == Matching(loc[r])
           N == D \ sessions
           f == [dates |-> D, todo |-> N, created |-> Cardinality(N),
                 skipped |-> Cardinality(D \cap sessions)]
<1>1. TypeOK /\ D \in SUBSET Key /\ UNCHANGED store
  BY FrameHeld, MatchingKeys DEF SessionInv, GenerateReadExisting
<1>2. Goto(r, IF N = {} THEN "answered" ELSE "bulk", f)
  BY DEF GenerateReadExisting
<1> HIDE DEF D
<1>3. /\ IsFiniteSet(D) /\ Cardinality(N) \in Nat /\ Cardinality(D \cap sessions) \in Nat
      /\ Cardinality(N) + Cardinality(D \cap sessions) = Cardinality(D)
  <2>1. IsFiniteSet(D) /\ D \cap sessions \in SUBSET Key /\ N \in SUBSET Key
    BY <1>1, KeysFinite
  <2>2. IsFiniteSet(N) /\ Cardinality(N) \in Nat /\ Cardinality(D \cap sessions) \in Nat
    BY <2>1, KeysFinite
  <2>3. Cardinality(D \ sessions) = Cardinality(D) - Cardinality(D \cap sessions)
    BY <2>1, FS_Difference
  <2>4. Cardinality(D) \in Nat
    BY <2>1, FS_CardinalityType
  <2>5. QED
    BY <2>1, <2>2, <2>3, <2>4
<1>4. f \in InsertFrame /\ f.todo \subseteq f.dates /\ f.dates \ f.todo \subseteq sessions
  BY <1>1, <1>3 DEF InsertFrame
<1>5. f.created + f.skipped = Cardinality(f.dates)
  BY <1>3
<1>6. sessions' = sessions /\ sessions' \subseteq Key
  BY <1>1 DEF store, TypeOK
<1>7. CASE N = {}
  <2>1. f.dates \ f.todo = f.dates /\ f.todo = {} /\ Cardinality(f.dates) \in Nat
    BY <1>3, <1>7, FS_CardinalityType
  <2> HIDE DEF f
  <2>2. Known("answered", f, sessions')
    BY <1>4, <1>5, <1>6, <2>1 DEF Known
  <2>3. "answered" \in PC /\ f \in FrameOf("answered")
    BY <1>4, FrameTable DEF PC
  <2>4. Goto(r, "answered", f)
    BY <1>2, <1>7
  <2>5. QED
    BY <1>1, <1>6, <2>2, <2>3, <2>4, GotoKnows DEF store
<1>8. CASE N # {}
  <2> HIDE DEF f
  <2>1. Known("bulk", f, sessions')
    BY <1>4, <1>5, <1>6 DEF Known
  <2>2. "bulk" \in PC /\ f \in FrameOf("bulk")
    BY <1>4, FrameTable DEF PC
  <2>3. Goto(r, "bulk", f)
    BY <1>2, <1>8
  <2>4. QED
    BY <1>1, <1>6, <2>1, <2>2, <2>3, GotoKnows DEF store
<1>9. QED
  BY <1>7, <1>8


\* The bulk insert creates all its dates or starts over, with counts of 0.
LEMMA InsertAllKnows ==
    ASSUME SessionInv, NEW r \in Request, GenerateInsertAll(r)
    PROVE  SessionInv'
<1>1. /\ TypeOK /\ pc[r] = "bulk" /\ loc[r] \in InsertFrame
      /\ Known("bulk", loc[r], sessions) /\ sessions \subseteq Key
      /\ UNCHANGED <<edits, class, weekdays>>
  BY FrameHeld DEF SessionInv, GenerateInsertAll, TypeOK
<1>2. PICK f : f = loc[r]
  OBVIOUS
<1>3. /\ f \in InsertFrame /\ f.todo \subseteq f.dates /\ f.dates \ f.todo \subseteq sessions
      /\ f.created + f.skipped = Cardinality(f.dates)
  BY <1>1, <1>2 DEF Known
<1>4. CASE f.todo \cap sessions = {}
  <2> DEFINE g == [f EXCEPT !.todo = {}]
  <2>1. g \in InsertFrame /\ g.todo = {} /\ g.dates = f.dates /\ g.created + g.skipped = f.created + f.skipped
    BY <1>3 DEF InsertFrame
  <2>2. sessions' = sessions \cup f.todo /\ Goto(r, "answered", g)
    BY <1>2, <1>4 DEF GenerateInsertAll
  <2>3. sessions \subseteq sessions' /\ sessions' \subseteq Key /\ f.dates \subseteq sessions'
    BY <1>1, <1>3, <2>2 DEF InsertFrame
  <2> HIDE DEF g
  <2>4. g.dates \ g.todo = g.dates /\ Cardinality(g.dates) \in Nat
    BY <1>3, <2>1, KeysFinite DEF InsertFrame
  <2>5. Known("answered", g, sessions')
    BY <1>3, <2>1, <2>3, <2>4 DEF Known
  <2>6. "answered" \in PC /\ g \in FrameOf("answered")
    BY <2>1, FrameTable DEF PC
  <2>7. QED
    BY <1>1, <2>2, <2>3, <2>5, <2>6, GotoKnows
<1>5. CASE f.todo \cap sessions # {}
  <2> DEFINE g == [f EXCEPT !.created = 0, !.skipped = 0]
  <2>1. g \in InsertFrame /\ g.todo = f.todo /\ g.dates = f.dates /\ g.created + g.skipped = 0
    <3>1. g \in InsertFrame
      BY <1>3 DEF InsertFrame
    <3>2. g.todo = f.todo /\ g.dates = f.dates /\ g.created = 0 /\ g.skipped = 0
      BY <1>3 DEF InsertFrame
    <3> HIDE DEF g
    <3>3. QED
      BY <3>1, <3>2
  <2>2. sessions' = sessions /\ Goto(r, "row", g)
    BY <1>2, <1>5 DEF GenerateInsertAll
  <2>3. Cardinality(g.dates \ g.todo) \in Nat /\ g.todo # {}
    <3>1. g.dates \ g.todo \in SUBSET Key
      BY <2>1 DEF InsertFrame
    <3>2. QED
      BY <1>5, <2>1, <3>1, KeysFinite
  <2> HIDE DEF g
  <2>4. Known("row", g, sessions')
    BY <1>3, <2>1, <2>2, <2>3 DEF Known
  <2>5. "row" \in PC /\ g \in FrameOf("row")
    BY <2>1, FrameTable DEF PC
  <2>6. QED
    BY <1>1, <2>2, <2>4, <2>5, GotoKnows
<1>6. QED
  BY <1>4, <1>5

\* The loop goes on with a date less to do, one more counted.
LEMMA LoopKnows ==
    ASSUME SessionInv, NEW r \in Request, UNCHANGED <<edits, class, weekdays>>,
           sessions \subseteq sessions', sessions' \subseteq Key,
           NEW f \in InsertFrame, f.todo \subseteq f.dates, f.dates \ f.todo \subseteq sessions,
           f.created + f.skipped <= Cardinality(f.dates \ f.todo),
           NEW d \in f.todo, d \in sessions',
           NEW g \in InsertFrame, g.dates = f.dates, g.todo = f.todo \ {d},
           g.created + g.skipped = f.created + f.skipped + 1,
           LoopOn(r, g)
    PROVE  SessionInv'
<1> DEFINE Done == f.dates \ f.todo
<1>1. g.dates \ g.todo = Done \cup {d} /\ d \notin Done
  OBVIOUS
<1>2. IsFiniteSet(Done) /\ Cardinality(Done) \in Nat
  <2>1. Done \in SUBSET Key
    BY DEF InsertFrame
  <2>2. QED
    BY <2>1, KeysFinite
<1>3. Done \subseteq sessions'
  OBVIOUS
<1> HIDE DEF Done
<1>4. Cardinality(g.dates \ g.todo) = Cardinality(Done) + 1
  BY <1>1, <1>2, FS_AddElement
<1>5. f.created + f.skipped \in Nat /\ f.created + f.skipped <= Cardinality(Done)
  BY DEF InsertFrame, Done
<1>6. g.created + g.skipped <= Cardinality(g.dates \ g.todo)
  BY <1>2, <1>4, <1>5
<1>7. g.todo \subseteq g.dates /\ g.dates \ g.todo \subseteq sessions'
  BY <1>1, <1>3
<1>8. CASE g.todo = {}
  <2>1. Known("answered", g, sessions')
    BY <1>6, <1>7, <1>8 DEF Known
  <2>2. "answered" \in PC /\ g \in FrameOf("answered") /\ Goto(r, "answered", g)
    BY <1>8, FrameTable DEF PC, LoopOn
  <2>3. QED
    BY <2>1, <2>2, GotoKnows
<1>9. CASE g.todo # {}
  <2>1. Known("row", g, sessions')
    BY <1>6, <1>7, <1>9 DEF Known
  <2>2. "row" \in PC /\ g \in FrameOf("row") /\ Goto(r, "row", g)
    BY <1>9, FrameTable DEF PC, LoopOn
  <2>3. QED
    BY <2>1, <2>2, GotoKnows
<1>10. QED
  BY <1>8, <1>9

\* The insert of one row: the date is there afterwards, whoever created it.
LEMMA InsertRowKnows ==
    ASSUME SessionInv, NEW r \in Request, GenerateInsertRow(r)
    PROVE  SessionInv'
<1>1. /\ TypeOK /\ pc[r] = "row" /\ loc[r] \in InsertFrame
      /\ Known("row", loc[r], sessions) /\ sessions \subseteq Key
      /\ UNCHANGED <<edits, class, weekdays>>
  BY FrameHeld DEF SessionInv, GenerateInsertRow, TypeOK
<1>2. PICK f : f = loc[r]
  OBVIOUS
<1>3. /\ f \in InsertFrame /\ f.todo \subseteq f.dates /\ f.dates \ f.todo \subseteq sessions
      /\ f.created + f.skipped <= Cardinality(f.dates \ f.todo) /\ f.todo # {}
  BY <1>1, <1>2 DEF Known
<1>4. PICK d : d = Min(f.todo)
  OBVIOUS
<1>5. d \in f.todo /\ d \in Key
  BY <1>3, <1>4, FirstKey DEF InsertFrame
<1>6. CASE d \in sessions
  <2> DEFINE g == [f EXCEPT !.todo = @ \ {d}, !.skipped = @ + 1]
  <2>1. /\ g \in InsertFrame /\ g.dates = f.dates /\ g.todo = f.todo \ {d}
        /\ g.created + g.skipped = f.created + f.skipped + 1
    <3>1. f.created \in Nat /\ f.skipped \in Nat
      BY <1>3 DEF InsertFrame
    <3>2. g \in InsertFrame
      <4>1. PICK T, n : T = f.todo \ {d} /\ n = f.skipped + 1
        OBVIOUS
      <4>2. T \in SUBSET Key /\ n \in Nat
        BY <1>3, <3>1, <4>1 DEF InsertFrame
      <4>3. [f EXCEPT !.todo = T, !.skipped = n] \in InsertFrame
        BY <1>3, <4>2 DEF InsertFrame
      <4>4. QED
        BY <4>1, <4>3
    <3>3. g.dates = f.dates /\ g.todo = f.todo \ {d} /\ g.created = f.created /\ g.skipped = f.skipped + 1
      BY <1>3 DEF InsertFrame
    <3> HIDE DEF g
    <3>4. QED
      BY <3>1, <3>2, <3>3
  <2>2. LoopOn(r, g) /\ sessions' = sessions
    BY <1>2, <1>4, <1>6 DEF GenerateInsertRow, AfterDuplicate
  <2> HIDE DEF g
  <2>3. QED
    BY <1>1, <1>3, <1>5, <1>6, <2>1, <2>2, LoopKnows
<1>7. CASE d \notin sessions
  <2> DEFINE g == [f EXCEPT !.todo = @ \ {d}, !.created = @ + 1]
  <2>1. /\ g \in InsertFrame /\ g.dates = f.dates /\ g.todo = f.todo \ {d}
        /\ g.created + g.skipped = f.created + f.skipped + 1
    <3>1. f.created \in Nat /\ f.skipped \in Nat
      BY <1>3 DEF InsertFrame
    <3>2. g \in InsertFrame
      <4>1. PICK T, n : T = f.todo \ {d} /\ n = f.created + 1
        OBVIOUS
      <4>2. T \in SUBSET Key /\ n \in Nat
        BY <1>3, <3>1, <4>1 DEF InsertFrame
      <4>3. [f EXCEPT !.todo = T, !.created = n] \in InsertFrame
        BY <1>3, <4>2 DEF InsertFrame
      <4>4. QED
        BY <4>1, <4>3
    <3>3. g.dates = f.dates /\ g.todo = f.todo \ {d} /\ g.skipped = f.skipped /\ g.created = f.created + 1
      BY <1>3 DEF InsertFrame
    <3> HIDE DEF g
    <3>4. QED
      BY <3>1, <3>2, <3>3
  <2>2. LoopOn(r, g) /\ sessions' = sessions \cup {d}
    BY <1>2, <1>4, <1>7 DEF GenerateInsertRow
  <2> HIDE DEF g
  <2>3. sessions \subseteq sessions' /\ sessions' \subseteq Key /\ d \in sessions'
    BY <1>1, <1>5, <2>2
  <2>4. QED
    BY <1>1, <1>3, <1>5, <2>1, <2>2, <2>3, LoopKnows
<1>8. QED
  BY <1>6, <1>7

\* Every step keeps what the requests know.
LEMMA NextKnows == SessionInv /\ [Next]_vars => SessionInv'
<1> SUFFICES ASSUME SessionInv, [Next]_vars PROVE SessionInv'
  OBVIOUS
<1>1. CASE EditClass
  BY <1>1 DEF EditClass, SessionInv, TypeOK
<1>2. CASE EditSchedule
  BY <1>2 DEF EditSchedule, SessionInv, TypeOK
<1>3. ASSUME NEW r \in Request, Receive(r) \/ Abandon(r) PROVE SessionInv'
  BY <1>3, FinishKnows DEF Receive, Abandon
<1>4. CASE UNCHANGED vars
  BY <1>4 DEF vars, SessionInv, TypeOK
<1>5. QED
  BY <1>1, <1>2, <1>3, <1>4, ReadsKnow, ExistingKnows, InsertAllKnows, InsertRowKnows
     DEF Next, Step

\* Initially nobody knows anything.
LEMMA InitKnows == Init => SessionInv
BY FrameTable DEF Init, SessionInv, TypeOK, PC, Known

\* Every reachable state is typed.
THEOREM TypeCorrect == Spec => []TypeOK
<1>1. SessionInv => TypeOK
  BY DEF SessionInv
<1>2. QED
  BY <1>1, InitKnows, NextKnows, PTL DEF Spec

\* An answered request has a session on every date it matched.
THEOREM AnswerMeansGeneratedHolds == Spec => []AnswerMeansGenerated
<1>1. SessionInv => AnswerMeansGenerated
  BY DEF SessionInv, Known, AnswerMeansGenerated
<1>2. QED
  BY <1>1, InitKnows, NextKnows, PTL DEF Spec

\* A report never counts more dates than have a session.
THEOREM ReportSoundHolds == Spec => []ReportSound
<1>1. SessionInv => ReportSound
  <2> SUFFICES ASSUME SessionInv, NEW r \in Request, pc[r] \in {"row", "answered"}
               PROVE  loc[r].created + loc[r].skipped <= Cardinality(loc[r].dates \cap sessions)
    BY DEF ReportSound
  <2>1. loc[r] \in InsertFrame
    BY FrameHeld DEF SessionInv
  <2> DEFINE Done == loc[r].dates \ loc[r].todo
             Held == loc[r].dates \cap sessions
  <2>2. Done \in SUBSET Held /\ loc[r].created + loc[r].skipped <= Cardinality(Done)
    BY DEF SessionInv, Known
  <2>3. Done \in SUBSET Key /\ Held \in SUBSET Key
    BY <2>1 DEF InsertFrame
  <2> HIDE DEF Done, Held
  <2>4. /\ Cardinality(Done) <= Cardinality(Held)
        /\ Cardinality(Done) \in Nat /\ Cardinality(Held) \in Nat
    BY <2>2, <2>3, KeysFinite, FS_Subset
  <2>5. loc[r].created + loc[r].skipped \in Nat
    BY <2>1 DEF InsertFrame
  <2>6. QED
    BY <2>2, <2>4, <2>5 DEF Held
<1>2. QED
  BY <1>1, InitKnows, NextKnows, PTL DEF Spec


(***************************************************************************)
(* The sessions follow the calendar                                        *)
(***************************************************************************)

\* A day the calendar shows when asked for that day alone.
LEMMA CalendarDay ==
    ASSUME TypeOK, NEW d \in Date
    PROVE  d \in CalendarDates(d, d) <=>
             class.start <= d /\ d <= class.end /\ WeekdayOf(d) \in weekdays
<1>1. class.start \in Int /\ class.end \in Int /\ d \in Int
  BY DatesAreNumbers
<1>2. ASSUME NEW w
      PROVE  d \in EventDates(w, class.start, class.end, d, d) <=>
               class.start <= d /\ d <= class.end /\ WeekdayOf(d) = w
  BY <1>1 DEF EventDates, JsDay, WeekdayOf
<1>3. QED
  BY <1>2 DEF CalendarDates

\* What it shows between two dates of the class window.
LEMMA CalendarRange ==
    ASSUME TypeOK, NEW first \in Date, NEW last \in Date,
           class.start <= first, last <= class.end
    PROVE  CalendarDates(first, last) = {d \in first .. last : WeekdayOf(d) \in weekdays}
<1>1. /\ class.start \in Int /\ class.end \in Int /\ first \in Int /\ last \in Int
  BY DatesAreNumbers
<1>2. ASSUME NEW w
      PROVE  EventDates(w, class.start, class.end, first, last)
               = {d \in first .. last : WeekdayOf(d) = w}
  <2>1. /\ (IF class.start > first THEN class.start ELSE first) = first
        /\ (IF class.end < last THEN class.end ELSE last) = last
    BY <1>1
  <2>2. QED
    BY <2>1 DEF EventDates, JsDay, WeekdayOf
<1>3. QED
  BY <1>2 DEF CalendarDates

\* The key of a day the calendar shows.
Shown(k) == \E d \in Date : k = DateKey(d) /\ d \in CalendarDates(d, d)

\* What a request at p with locals f has of the class and its schedule.
Follows(p, f) ==
    /\ p = "schedules" => f.start = class.start /\ f.end = class.end
    /\ p = "existing" => class.start <= f.first /\ f.last <= class.end /\ f.on = weekdays
    /\ p \in {"bulk", "row", "answered"} => \A k \in f.dates : Shown(k)

\* Without edits, requests and sessions follow the calendar.
Following ==
    edits = {} => /\ \A r \in Request : Follows(pc[r], loc[r])
                  /\ \A k \in sessions : Shown(k)

\* The dates that match between two dates of the class window.
LEMMA MatchingShown ==
    ASSUME TypeOK, NEW f \in WindowFrame, Follows("existing", f)
    PROVE  /\ Matching(f) = {DateKey(d) : d \in CalendarDates(f.first, f.last)}
           /\ \A k \in Matching(f) : Shown(k)
<1>1. /\ f.first \in Date /\ f.last \in Date /\ class.start <= f.first /\ f.last <= class.end
      /\ f.on = weekdays
  BY DEF WindowFrame, Follows
<1>2. CalendarDates(f.first, f.last)
        = {d \in f.first .. f.last : WeekdayOf(d) \in weekdays}
  BY <1>1, CalendarRange
<1>3. {x \in Date : f.first <= x /\ x <= f.last /\ WeekdayOf(x) \in f.on}
        = {d \in f.first .. f.last : WeekdayOf(d) \in weekdays}
  <2>1. f.first .. f.last \subseteq Date
    BY <1>1, SessionAssumption
  <2>2. \A x \in Date : x \in f.first .. f.last <=> f.first <= x /\ x <= f.last
    BY <1>1, SessionAssumption
  <2>3. QED
    BY <1>1, <2>1, <2>2
<1>4. Matching(f) = {DateKey(d) : d \in CalendarDates(f.first, f.last)}
  BY <1>2, <1>3 DEF Matching
<1>5. ASSUME NEW k \in Matching(f) PROVE Shown(k)
  <2>1. PICK d \in Date : k = DateKey(d) /\ f.first <= d /\ d <= f.last /\ WeekdayOf(d) \in f.on
    BY <1>5 DEF Matching
  <2>2. class.start <= d /\ d <= class.end
    <3>1. /\ class.start \in Int /\ class.end \in Int /\ d \in Int
          /\ f.first \in Int /\ f.last \in Int
      BY <1>1, DatesAreNumbers
    <3>2. QED
      BY <1>1, <2>1, <3>1
  <2>3. d \in CalendarDates(d, d)
    BY <1>1, <2>1, <2>2, CalendarDay
  <2>4. QED
    BY <2>1, <2>3 DEF Shown
<1>6. QED
  BY <1>4, <1>5

\* While the class and its schedule stay, a request that goes on has to follow
\* them only in its new frame, and only new sessions have to.
LEMMA GotoFollows ==
    ASSUME SessionInv, Following, edits = {}, UNCHANGED <<edits, class, weekdays>>,
           NEW r \in Request, NEW p, NEW f, Goto(r, p, f), Follows(p, f),
           \A k \in sessions' \ sessions : Shown(k)
    PROVE  Following'
<1>1. /\ pc'[r] = p /\ loc'[r] = f
      /\ \A q \in Request \ {r} : pc'[q] = pc[q] /\ loc'[q] = loc[q]
  BY DEF Goto, SessionInv, TypeOK
<1>2. \A k : Shown(k)' <=> Shown(k)
  BY DEF Shown, CalendarDates
<1>3. ASSUME NEW q \in Request PROVE Follows(pc[q], loc[q])'
  <2>1. Follows(pc'[q], loc'[q])
    BY <1>1 DEF Following
  <2>2. QED
    BY <1>2, <2>1 DEF Follows
<1>4. \A k \in sessions' : Shown(k)'
  BY <1>2 DEF Following
<1>5. QED
  BY <1>3, <1>4 DEF Following

\* The steps of a request follow the calendar.
LEMMA StepFollows ==
    ASSUME SessionInv, Following, edits = {}, NEW r \in Request,
           \/ \E from, to \in Date : GenerateReadClass(r, from, to)
           \/ Step(r) \/ Receive(r) \/ Abandon(r)
    PROVE  Following'
<1>1. TypeOK /\ Follows(pc[r], loc[r]) /\ \A k \in sessions : Shown(k)
  BY DEF SessionInv, Following
<1>2. CASE Finish(r) /\ UNCHANGED store
  <2>1. Follows("idle", NoFrame)
    BY DEF Follows
  <2>2. QED
    BY <1>2, <2>1, GotoFollows DEF Finish, store
<1>3. ASSUME NEW from \in Date, NEW to \in Date, GenerateReadClass(r, from, to)
      PROVE  Following'
  <2> DEFINE f == [start |-> class.start, end |-> class.end, from |-> from, to |-> to]
  <2>1. Goto(r, "schedules", f) /\ UNCHANGED store
    BY <1>3 DEF GenerateReadClass
  <2>2. f.start = class.start /\ f.end = class.end
    OBVIOUS
  <2> HIDE DEF f
  <2>3. Follows("schedules", f)
    BY <2>2 DEF Follows
  <2>4. QED
    BY <2>1, <2>3, GotoFollows DEF store
<1>4. CASE GenerateReadSchedules(r)
  <2>1. loc[r] \in RangeFrame /\ loc[r].start = class.start /\ loc[r].end = class.end
    BY <1>1, <1>4, FrameHeld DEF GenerateReadSchedules, Follows
  <2> DEFINE first == IF loc[r].start > loc[r].from THEN loc[r].start ELSE loc[r].from
             last == IF loc[r].end < loc[r].to THEN loc[r].end ELSE loc[r].to
             f == [first |-> first, last |-> last, on |-> weekdays]
  <2>2. class.start <= first /\ last <= class.end
    <3>1. /\ class.start \in Int /\ class.end \in Int
          /\ loc[r].from \in Int /\ loc[r].to \in Int
      BY <1>1, <2>1, DatesAreNumbers DEF RangeFrame
    <3>2. QED
      BY <2>1, <3>1
  <2>3. UNCHANGED store /\ (Finish(r) \/ Goto(r, "existing", f))
    BY <1>4 DEF GenerateReadSchedules
  <2>4. class.start <= f.first /\ f.last <= class.end /\ f.on = weekdays
    BY <2>2
  <2> HIDE DEF f
  <2>5. Follows("existing", f)
    BY <2>4 DEF Follows
  <2>6. QED
    BY <1>2, <2>3, <2>5, GotoFollows DEF store
<1>5. ASSUME NEW p \in {"bulk", "row", "answered"}, NEW f, Goto(r, p, f),
             \A k \in f.dates : Shown(k),
             UNCHANGED <<edits, class, weekdays>>, sessions' \ sessions \subseteq f.dates
      PROVE  Following'
  <2>1. Follows(p, f)
    BY <1>5 DEF Follows
  <2>2. QED
    BY <1>5, <2>1, GotoFollows
<1>6. CASE GenerateReadExisting(r)
  <2>1. loc[r] \in WindowFrame /\ Follows("existing", loc[r])
    BY <1>1, <1>6, FrameHeld DEF GenerateReadExisting
  <2>2. \A k \in Matching(loc[r]) : Shown(k)
    BY <1>1, <2>1, MatchingShown
  <2> DEFINE new == Matching(loc[r]) \ sessions
             f == [dates |-> Matching(loc[r]), todo |-> new, created |-> Cardinality(new),
                   skipped |-> Cardinality(Matching(loc[r]) \cap sessions)]
             p == IF new = {} THEN "answered" ELSE "bulk"
  <2>3. Goto(r, p, f) /\ UNCHANGED store /\ p \in {"bulk", "row", "answered"}
    BY <1>6 DEF GenerateReadExisting
  <2>4. f.dates = Matching(loc[r])
    OBVIOUS
  <2> HIDE DEF f, p
  <2>5. QED
    BY <1>5, <2>2, <2>3, <2>4 DEF store
<1>7. CASE GenerateInsertAll(r)
  <2>1. /\ loc[r] \in InsertFrame /\ loc[r].todo \subseteq loc[r].dates
        /\ \A k \in loc[r].dates : Shown(k)
    BY <1>1, <1>7, FrameHeld DEF GenerateInsertAll, Follows, SessionInv, Known
  <2>2. /\ [loc[r] EXCEPT !.todo = {}].dates = loc[r].dates
        /\ [loc[r] EXCEPT !.created = 0, !.skipped = 0].dates = loc[r].dates
    BY <2>1 DEF InsertFrame
  <2>3. UNCHANGED <<edits, class, weekdays>>
    BY <1>7 DEF GenerateInsertAll
  <2>4. \E p \in {"answered", "row"} : \E f :
          Goto(r, p, f) /\ f.dates = loc[r].dates /\ sessions' \ sessions \subseteq f.dates
    <3>1. CASE loc[r].todo \cap sessions = {}
      BY <1>7, <2>1, <2>2, <3>1 DEF GenerateInsertAll
    <3>2. CASE loc[r].todo \cap sessions # {}
      BY <1>7, <2>1, <2>2, <3>2 DEF GenerateInsertAll
    <3>3. QED
      BY <3>1, <3>2
  <2>5. QED
    BY <1>5, <2>1, <2>3, <2>4
<1>8. CASE GenerateInsertRow(r)
  <2>1. /\ loc[r] \in InsertFrame /\ loc[r].todo \subseteq loc[r].dates /\ loc[r].todo # {}
        /\ \A k \in loc[r].dates : Shown(k)
    BY <1>1, <1>8, FrameHeld DEF GenerateInsertRow, Follows, SessionInv, Known
  <2>2. PICK d : d = Min(loc[r].todo)
    OBVIOUS
  <2>3. d \in loc[r].dates
    BY <2>1, <2>2, FirstKey DEF InsertFrame
  <2>4. /\ AfterDuplicate(loc[r], d).dates = loc[r].dates
        /\ [loc[r] EXCEPT !.todo = @ \ {d}, !.created = @ + 1].dates = loc[r].dates
    BY <2>1 DEF InsertFrame, AfterDuplicate
  <2>5. UNCHANGED <<edits, class, weekdays>>
    BY <1>8 DEF GenerateInsertRow
  <2>6. \E f : LoopOn(r, f) /\ f.dates = loc[r].dates /\ sessions' \ sessions \subseteq f.dates
    <3>1. CASE d \in sessions
      BY <1>8, <2>2, <2>4, <3>1 DEF GenerateInsertRow
    <3>2. CASE d \notin sessions
      BY <1>8, <2>2, <2>3, <2>4, <3>2 DEF GenerateInsertRow
    <3>3. QED
      BY <3>1, <3>2
  <2>7. QED
    BY <1>5, <2>1, <2>5, <2>6 DEF LoopOn
<1>9. CASE Receive(r) \/ Abandon(r)
  BY <1>2, <1>9 DEF Receive, Abandon
<1>10. QED
  BY <1>3, <1>4, <1>6, <1>7, <1>8, <1>9 DEF Step

\* Every step follows the calendar.
LEMMA NextFollows == SessionInv /\ Following /\ [Next]_vars => Following'
<1> SUFFICES ASSUME SessionInv, Following, [Next]_vars PROVE Following'
  OBVIOUS
<1>1. UNCHANGED edits
  BY DEF Next, Step, GenerateReadClass, GenerateReadSchedules, GenerateReadExisting,
         GenerateInsertAll, GenerateInsertRow, Receive, Abandon, EditClass, EditSchedule,
         store, vars
<1>2. CASE edits # {}
  BY <1>1, <1>2 DEF Following
<1>3. CASE edits = {}
  <2>1. ~EditClass /\ ~EditSchedule
    BY <1>3 DEF EditClass, EditSchedule
  <2>2. CASE UNCHANGED vars
    <3>1. \A k : Shown(k)' <=> Shown(k)
      BY <2>2 DEF vars, Shown, CalendarDates
    <3>2. \A r \in Request : Follows(pc[r], loc[r])'
      BY <1>3, <2>2, <3>1 DEF vars, Following, Follows
    <3>3. QED
      BY <1>3, <2>2, <3>1, <3>2 DEF vars, Following
  <2>3. QED
    BY <1>3, <2>1, <2>2, StepFollows DEF Next
<1>4. QED
  BY <1>2, <1>3

\* Initially there are no sessions and no requests.
LEMMA InitFollows == Init => Following
BY DEF Init, Following, Follows

\* While the class and its schedule stay as they are, every session is dated
\* with the key of a day the calendar shows, wherever the server's clock is:
\* ahead of UTC that key is the day before.
THEOREM SessionsFollowCalendar ==
    Spec => [](edits = {} => \A k \in sessions :
                 \E d \in Date : k = DateKey(d) /\ d \in CalendarDates(d, d))
<1>1. Following => (edits = {} => \A k \in sessions :
                      \E d \in Date : k = DateKey(d) /\ d \in CalendarDates(d, d))
  BY DEF Following, Shown
<1>2. QED
  BY <1>1, InitKnows, NextKnows, InitFollows, NextFollows, PTL DEF Spec

\* On a server that is not ahead of UTC the key is the day itself: calendar and
\* sessions agree.
THEOREM CalendarShowsSessionsHolds ==
    ASSUME ~AheadOfUTC
    PROVE  Spec => []CalendarShowsSessions
<1>1. SessionInv /\ Following => CalendarShowsSessions
  <2> SUFFICES ASSUME SessionInv, Following, edits = {}
               PROVE  /\ \A d \in sessions : d \in CalendarDates(d, d)
                      /\ \A r \in Request : pc[r] = "existing" =>
                           Matching(loc[r]) = CalendarDates(loc[r].first, loc[r].last)
    BY DEF CalendarShowsSessions
  <2>1. \A d : DateKey(d) = d
    BY DEF DateKey
  <2>2. \A d \in sessions : d \in CalendarDates(d, d)
    BY <2>1 DEF Following, Shown
  <2>3. ASSUME NEW r \in Request, pc[r] = "existing"
        PROVE  Matching(loc[r]) = CalendarDates(loc[r].first, loc[r].last)
    <3>1. TypeOK /\ loc[r] \in WindowFrame /\ Follows("existing", loc[r])
      BY <2>3, FrameHeld DEF SessionInv, Following
    <3>2. Matching(loc[r]) = {DateKey(d) : d \in CalendarDates(loc[r].first, loc[r].last)}
      BY <3>1, MatchingShown
    <3>3. QED
      BY <2>1, <3>2
  <2>4. QED
    BY <2>2, <2>3
<1>2. QED
  BY <1>1, InitKnows, NextKnows, InitFollows, NextFollows, PTL DEF Spec


=============================================================================
