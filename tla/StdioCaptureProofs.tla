------------------------- MODULE StdioCaptureProofs -------------------------
(***************************************************************************)
(* Proofs about StdioCapture, for any pages, cursors, caps, queue and pipe. *)
(***************************************************************************)
EXTENDS StdioCapture, FiniteSetTheorems, SequenceTheorems, WellFoundedInduction, TLAPS

PageType == [items : Seq(Item), next : Cursor \cup {NoCursor, BadCursor}]
Kind == {"log", "jsonlog", "long", "error", "page", "eof", "oversized"}
LineType == [kind : Kind, id : Nat, page : PageType]

-----------------------------------------------------------------------------
(* The operators.                                                           *)

\* A set of naturals that is not empty has a least member.
LEMMA LeastMember ==
  ASSUME NEW T \in SUBSET Nat, T # {}
  PROVE  \E k \in T : \A j \in T : k <= j
<1> DEFINE R == {ss \in Nat \X Nat : ss[1] < ss[2]}
<1>1. IsWellFoundedOn(R, Nat)
  BY NatLessThanWellFounded DEF OpToRel
<1> HIDE DEF R
<1>2. PICK k \in T : \A j \in T : <<j, k>> \notin R
  BY <1>1, WFMin
<1>3. ASSUME NEW j \in T PROVE k <= j
  <2>1. <<j, k>> \in Nat \X Nat /\ <<j, k>>[1] = j /\ <<j, k>>[2] = k
    OBVIOUS
  <2>2. ~(j < k)
    BY <1>2, <2>1 DEF R
  <2>3. j \in Nat /\ k \in Nat
    OBVIOUS
  <2>4. QED
    BY <2>2, <2>3
<1>4. QED
  BY <1>3

\* The entries that are valid among the first k: at most k, and one more entry adds at
\* most one.
LEMMA ValidBounds ==
  ASSUME NEW items, NEW k \in Nat
  PROVE  /\ Valid(items, k) \in 0..k
         /\ Valid(items, k + 1) <= Valid(items, k) + 1
<1> DEFINE Among(n) == {j \in 1..n : items[j] = "tool"}
<1>1. \A n \in Nat : IsFiniteSet(Among(n)) /\ Cardinality(Among(n)) \in 0..n
  <2> TAKE n \in Nat
  <2>1. IsFiniteSet(1..n) /\ Cardinality(1..n) = n
    BY FS_Interval
  <2>2. Among(n) \in SUBSET (1..n)
    OBVIOUS
  <2>3. IsFiniteSet(Among(n)) /\ Cardinality(Among(n)) <= n
    BY <2>1, <2>2, FS_Subset
  <2>4. QED
    BY <2>3, FS_CardinalityType
<1>2. Cardinality(Among(k + 1)) <= Cardinality(Among(k)) + 1
  <2>1. Among(k + 1) \in SUBSET (Among(k) \cup {k + 1})
    OBVIOUS
  <2>2. /\ IsFiniteSet(Among(k) \cup {k + 1})
        /\ Cardinality(Among(k) \cup {k + 1}) <= Cardinality(Among(k)) + 1
    <3>1. IsFiniteSet(Among(k)) /\ Cardinality(Among(k)) \in Nat
      BY <1>1
    <3> HIDE DEF Among
    <3>2. QED
      BY <3>1, FS_AddElement
  <2>3. Cardinality(Among(k + 1)) <= Cardinality(Among(k) \cup {k + 1})
    BY <2>1, <2>2, FS_Subset
  <2>4. Cardinality(Among(k)) \in Nat /\ Cardinality(Among(k + 1)) \in Nat
    BY <1>1
  <2>5. Cardinality(Among(k) \cup {k + 1}) \in Nat
    BY <2>2, FS_CardinalityType
  <2>6. QED
    BY <2>2, <2>3, <2>4, <2>5
<1>3. QED
  BY <1>1, <1>2 DEF Valid

\* The loop over a page's items: it stops before the end exactly when there is no room,
\* and what it counts never passes the cap.
LEMMA SeenBounds ==
  ASSUME NEW items \in Seq(Item), tools \in 0..MAX_TOOLS
  PROVE  /\ Seen(items) \in 0..Len(items)
         /\ Full(items) = {} => Seen(items) = Len(items)
         /\ Full(items) # {} => Seen(items) < Len(items)
         /\ Valid(items, Seen(items)) \in 0..Seen(items)
         /\ tools + Valid(items, Seen(items)) <= MAX_TOOLS
<1> DEFINE s == Seen(items)
<1>1. MAX_TOOLS \in Nat /\ tools \in Nat /\ Len(items) \in Nat
  BY CaptureAssumption, LenProperties
<1>2. Full(items) # {} => s \in Full(items) /\ \A j \in Full(items) : s <= j
  <2>1. Full(items) \in SUBSET Nat
    BY <1>1 DEF Full
  <2>2. QED
    BY <2>1, LeastMember DEF Seen
<1>3. Full(items) = {} => s = Len(items)
  BY DEF Seen
<1>4. s \in 0..Len(items) /\ (Full(items) # {} => s < Len(items))
  BY <1>1, <1>2, <1>3 DEF Full
<1>5. Valid(items, s) \in 0..s
  BY <1>1, <1>4, ValidBounds
<1>6. tools + Valid(items, s) <= MAX_TOOLS
  <2>1. CASE s = 0
    BY <1>1, <1>5, <2>1
  <2>2. CASE s # 0
    <3> DEFINE r == s - 1
    <3>1. r \in 0..Len(items) - 1 /\ s = r + 1
      BY <1>1, <1>4, <2>2
    <3>2. r \notin Full(items)
      BY <1>1, <1>2, <1>4, <3>1
    <3>3. Valid(items, r) \in Nat /\ Valid(items, s) <= Valid(items, r) + 1
      BY <1>1, <3>1, ValidBounds
    <3>4. ~(tools + Valid(items, r) >= MAX_TOOLS)
      BY <3>1, <3>2 DEF Full
    <3>5. QED
      BY <1>1, <1>5, <3>3, <3>4
  <2>3. QED
    BY <2>1, <2>2
<1>7. QED
  BY <1>3, <1>4, <1>5, <1>6

\* What the child and the pump write are lines.
LEMMA LinesTyped ==
  ASSUME NEW n \in Nat
  PROVE  /\ Noise \cup {Eof, Oversized} \subseteq LineType
         /\ UNION {Answers(id) : id \in 1..n} \subseteq LineType
<1>1. NoPage \in PageType /\ Page \subseteq PageType
  BY CaptureAssumption, EmptySeq DEF NoPage, PageType
<1>2. ASSUME NEW k \in Kind, NEW id \in Nat, NEW g \in PageType
      PROVE  Line(k, id, g) \in LineType
  BY DEF Line, LineType
<1>3. Noise \cup {Eof, Oversized} \subseteq LineType
  BY <1>1, <1>2 DEF Noise, Eof, Oversized, Kind
<1>4. ASSUME NEW id \in Nat PROVE Answers(id) \subseteq LineType
  BY <1>1, <1>2 DEF Answers, Kind
<1>5. QED
  BY <1>3, <1>4

-----------------------------------------------------------------------------
(* The inductive invariant.                                                 *)

Looping == pc \in {"send", "write", "wait"}

\* What the pipe and the queue carry are lines.
Channels == output \in Seq(LineType) /\ lines \in Seq(LineType)

\* Ids are given in order: the next one tells the exchange the client is in.
Numbered ==
  /\ next_id \in 1..page_no + 3
  /\ doing # "list" => page_no = 0
  /\ Looping =>
       /\ doing = "initialize" => next_id = IF pc = "send" THEN 1 ELSE 2
       /\ doing = "notify" => next_id = 2
       /\ doing = "list" => next_id = IF pc = "send" THEN page_no + 2 ELSE page_no + 3

\* Every entry of the pages taken was kept or found malformed, up to where a page was
\* left; while the client goes on, none was left and the last page named another.
Counted ==
  /\ tools + malformed <= listed
  /\ Looping =>
       /\ outcome = "none" /\ ~truncated
       /\ tools + malformed = listed
       /\ listed_once => pending \in Cursor

\* The mark of a capture that is over says whether something was left.
Marked ==
  outcome = "ok" =>
    IF truncated THEN pending # NoCursor \/ tools < listed
                 ELSE pending = NoCursor /\ tools + malformed = listed

\* The answers taken name requests sent: of these, none the client still waits for.
Paired ==
  /\ AnswersInOrder
  /\ \A i \in DOMAIN taken : taken[i] < next_id
  /\ pc \in {"write", "wait"} /\ doing # "notify" => \A i \in DOMAIN taken : taken[i] < asked

IInv == TypeOK /\ Channels /\ Numbered /\ Counted /\ Marked /\ Paired

\* At the start nothing has been asked, and nothing taken.
THEOREM Initialization == Init => IInv
<1> USE CaptureAssumption DEF Init, IInv
<1>1. Init => TypeOK
  <2> SUFFICES ASSUME Init PROVE TypeOK
    OBVIOUS
  <2>1. Len(output) <= PipeMax /\ Len(lines) <= QueueMax
    BY EmptySeq
  <2>2. written \in 0..MaxLines /\ tools \in 0..MAX_TOOLS
    OBVIOUS
  <2>3. page_no \in 0..MAX_PAGES - 1 /\ next_id \in 1..MAX_PAGES + 3
    OBVIOUS
  <2>4. QED
    BY <2>1, <2>2, <2>3, EmptySeq DEF TypeOK
<1>2. Init => Channels
  BY EmptySeq DEF Channels
<1>3. Init => Numbered /\ Counted /\ Marked /\ Paired
  BY DEF Numbered, Counted, Marked, Looping, Paired, AnswersInOrder, asked
<1>4. QED
  BY <1>1, <1>2, <1>3

-----------------------------------------------------------------------------
(* The child, the clock and the pump: they touch nothing of the client's.   *)

\* What the invariant says of the client's variables alone.
ClientInv ==
  /\ pc \in {"send", "write", "wait", "close", "grace", "remove", "returned"}
  /\ doing \in {"initialize", "notify", "list"}
  /\ next_id \in 1..MAX_PAGES + 3
  /\ cursor \in Cursor \cup {NoCursor} /\ page_no \in 0..MAX_PAGES - 1
  /\ tools \in 0..MAX_TOOLS /\ malformed \in Nat /\ listed \in Nat
  /\ truncated \in BOOLEAN /\ listed_once \in BOOLEAN /\ taken \in Seq(Nat)
  /\ outcome \in {"none", "ok", "failed", "raised", "interrupted"}
  /\ pending \in Cursor \cup {NoCursor, BadCursor}
  /\ Numbered /\ Counted /\ Marked /\ Paired

\* A step of the child leaves what the client knows.
LEMMA ClientKept ==
  ASSUME IInv, UNCHANGED client
  PROVE  ClientInv'
<1> USE DEF IInv, client, position, manifest, ghosts
<1>1. Numbered' /\ Counted'
  BY DEF Numbered, Counted, Looping
<1>2. Marked' /\ Paired'
  BY DEF Marked, Paired, AnswersInOrder, asked
<1>3. QED
  BY <1>1, <1>2 DEF TypeOK, ClientInv

\* What it says of the child and the thread, the client's variables aside.
ChildInv ==
  /\ running \in BOOLEAN /\ reads \in BOOLEAN /\ expired \in BOOLEAN
  /\ Len(output) <= PipeMax /\ Len(lines) <= QueueMax
  /\ written \in 0..MaxLines
  /\ pump \in {"reading", "closing", "ended"}
  /\ Channels

\* The invariant is of the client and of the child, each for itself.
LEMMA Parts ==
  /\ IInv <=> ClientInv /\ ChildInv
  /\ IInv' <=> ClientInv' /\ ChildInv'
BY DEF IInv, TypeOK, ClientInv, ChildInv

\* A line written in the pipe has room and is a line.
LEMMA ChildWritesStep ==
  ASSUME IInv, ChildWrites
  PROVE  IInv'
<1>1. ClientInv'
  BY ClientKept DEF ChildWrites
<1>2. PICK line \in Noise \cup UNION {Answers(id) : id \in 1..next_id} :
        output' = Append(output, line)
  BY DEF ChildWrites
<1>3. line \in LineType
  <2>1. next_id \in Nat
    BY CaptureAssumption DEF IInv, TypeOK
  <2>2. QED
    BY <1>2, <2>1, LinesTyped
<1>4. output' \in Seq(LineType) /\ Len(output') = Len(output) + 1
  BY <1>2, <1>3, AppendProperties DEF IInv, Channels
<1>5. ChildInv'
  BY <1>4, LenProperties, CaptureAssumption
     DEF IInv, TypeOK, ChildInv, Channels, ChildWrites, thread
<1>6. QED
  BY <1>1, <1>5, Parts

\* The child stops reading its input.
LEMMA ChildStopsReadingStep ==
  ASSUME IInv, ChildStopsReading
  PROVE  IInv'
<1>1. ClientInv'
  BY ClientKept DEF ChildStopsReading
<1>2. ChildInv'
  BY DEF IInv, TypeOK, ChildInv, Channels, ChildStopsReading, thread
<1>3. QED
  BY <1>1, <1>2, Parts

\* The child exits.
LEMMA ChildExitsStep ==
  ASSUME IInv, ChildExits
  PROVE  IInv'
<1>1. ClientInv'
  BY ClientKept DEF ChildExits
<1>2. ChildInv'
  BY DEF IInv, TypeOK, ChildInv, Channels, ChildExits, thread
<1>3. QED
  BY <1>1, <1>2, Parts

\* The deadline passes.
LEMMA DeadlinePassesStep ==
  ASSUME IInv, DeadlinePasses
  PROVE  IInv'
<1>1. ClientInv'
  BY ClientKept DEF DeadlinePasses
<1>2. ChildInv'
  BY DEF IInv, TypeOK, ChildInv, Channels, DeadlinePasses, child, thread
<1>3. QED
  BY <1>1, <1>2, Parts

\* A put finds room, and what it puts is a line.
LEMMA PutStep ==
  ASSUME Channels, NEW x \in LineType, Put(x)
  PROVE  lines' \in Seq(LineType) /\ Len(lines') <= QueueMax
<1>1. lines' \in Seq(LineType) /\ Len(lines') = Len(lines) + 1
  BY AppendProperties DEF Put, Channels
<1>2. Len(lines) \in Nat /\ QueueMax \in Nat
  BY LenProperties, CaptureAssumption DEF Channels
<1>3. QED
  BY <1>1, <1>2 DEF Put

\* The reader thread queues a line, or ends with the stream.
LEMMA PumpStep ==
  ASSUME IInv, Pump
  PROVE  IInv'
<1> USE DEF IInv
<1>1. Eof \in LineType /\ Oversized \in LineType
  BY LinesTyped
<1>2. ClientInv'
  BY ClientKept DEF Pump, PumpLine, PumpEof, PumpEnds
<1>3. CASE PumpLine
  <2>1. /\ Head(output) \in LineType /\ output' \in Seq(LineType)
        /\ Len(output') = Len(output) - 1 /\ Len(output) \in Nat
    BY <1>3, HeadTailProperties, LenProperties DEF PumpLine, Channels
  <2>2. lines' \in Seq(LineType) /\ Len(lines') <= QueueMax
    BY <1>1, <1>3, <2>1, PutStep DEF PumpLine
  <2>3. Len(output') <= PipeMax
    BY <2>1, CaptureAssumption DEF TypeOK
  <2>4. ChildInv'
    BY <1>3, <2>1, <2>2, <2>3 DEF TypeOK, ChildInv, Channels, PumpLine
  <2>5. QED
    BY <1>2, <2>4, Parts
<1>4. CASE PumpEof
  <2>1. ChildInv'
    BY <1>4 DEF TypeOK, ChildInv, Channels, PumpEof, child
  <2>2. QED
    BY <1>2, <2>1, Parts
<1>5. CASE PumpEnds
  <2>1. lines' \in Seq(LineType) /\ Len(lines') <= QueueMax
    BY <1>1, <1>5, PutStep DEF PumpEnds
  <2>2. ChildInv'
    BY <1>5, <2>1 DEF TypeOK, ChildInv, Channels, PumpEnds, child
  <2>3. QED
    BY <1>2, <2>2, Parts
<1>6. QED
  BY <1>3, <1>4, <1>5 DEF Pump

-----------------------------------------------------------------------------
(* The client.                                                              *)

\* A failure before any page leaves none; after one, the cursor of the last page names
\* what the mark says is missing.
LEMMA FailStep ==
  ASSUME IInv, Looping, Fail, UNCHANGED <<cursor, page_no, manifest, ghosts>>,
         next_id' \in next_id..page_no + 3
  PROVE  ClientInv'
<1> USE DEF IInv, manifest, ghosts, Fail
<1>1. next_id' \in 1..MAX_PAGES + 3
  BY CaptureAssumption DEF TypeOK
<1>2. Numbered' /\ Counted'
  BY DEF Numbered, Counted, Looping, TypeOK
<1>3. Marked'
  BY CaptureAssumption DEF Marked, Counted
<1>4. Paired'
  <2>1. next_id' \in Nat /\ next_id \in Nat /\ next_id <= next_id'
    BY CaptureAssumption DEF TypeOK
  <2>2. QED
    BY <2>1, ElementOfSeq DEF TypeOK, Paired, AnswersInOrder
<1>5. QED
  BY <1>1, <1>2, <1>3, <1>4 DEF TypeOK, ClientInv

\* Nothing of the child's or the thread's side changes.
LEMMA ChildKept ==
  ASSUME IInv, UNCHANGED <<child, thread, expired>>
  PROVE  ChildInv'
BY DEF IInv, TypeOK, ChildInv, Channels, child, thread

\* The client sends a request.
LEMMA SendStep ==
  ASSUME IInv, Send
  PROVE  IInv'
<1> USE DEF IInv, Send
<1>1. ChildInv'
  BY ChildKept
<1>2. next_id \in Nat /\ page_no \in Nat
  BY CaptureAssumption DEF TypeOK
<1>3. next_id' \in next_id..page_no + 3
  BY <1>2 DEF Numbered, Looping, TypeOK
<1>4. CASE expired
  <2>1. Fail /\ Looping
    BY <1>4 DEF Looping
  <2>2. QED
    BY <1>1, <1>3, <2>1, FailStep, Parts
<1>5. CASE ~expired
  <2> USE <1>5 DEF manifest, ghosts
  <2>1. Numbered'
    BY <1>2, <1>3 DEF Numbered, Looping, TypeOK
  <2>2. Counted' /\ Marked'
    BY DEF Counted, Marked, Looping
  <2>3. next_id' \in 1..MAX_PAGES + 3
    BY <1>2, <1>3, CaptureAssumption DEF TypeOK
  <2>4. Paired'
    <3>1. /\ \A i \in DOMAIN taken : taken[i] \in Nat
          /\ taken' = taken /\ next_id' \in Nat /\ next_id <= next_id'
          /\ doing' # "notify" => asked' = next_id
      BY <1>2, <1>3, ElementOfSeq DEF TypeOK, asked
    <3>2. QED
      BY <1>2, <3>1 DEF Paired, AnswersInOrder
  <2>5. ClientInv'
    BY <2>1, <2>2, <2>3, <2>4 DEF TypeOK, ClientInv
  <2>6. QED
    BY <1>1, <2>5, Parts
<1>6. QED
  BY <1>4, <1>5

\* The request is written to the pipe.
LEMMA WriteStep ==
  ASSUME IInv, Write
  PROVE  IInv'
<1> USE DEF IInv, Write, position
<1>1. ChildInv'
  BY ChildKept
<1>2. CASE ~running
  <2>1. Fail /\ Looping /\ next_id' \in next_id..page_no + 3
    BY <1>2 DEF Looping, Numbered
  <2>2. QED
    BY <1>1, <2>1, FailStep, Parts
<1>3. CASE running
  <2> USE <1>3 DEF manifest, ghosts
  <2>1. Numbered'
    BY DEF Numbered, Looping, TypeOK
  <2>2. Counted' /\ Marked' /\ Paired'
    BY DEF Counted, Marked, Looping, Paired, AnswersInOrder, asked
  <2>3. ClientInv'
    BY <2>1, <2>2 DEF TypeOK, ClientInv
  <2>4. QED
    BY <1>1, <2>2, <2>3, Parts
<1>4. QED
  BY <1>2, <1>3

\* The wait for an answer expires.
LEMMA WaitExpiresStep ==
  ASSUME IInv, WaitExpires
  PROVE  IInv'
<1>1. ChildInv'
  BY ChildKept DEF WaitExpires
<1>2. Looping /\ Fail /\ next_id' \in next_id..page_no + 3
  BY DEF IInv, WaitExpires, Looping, Numbered, position
<1>3. QED
  BY <1>1, <1>2, FailStep, Parts DEF WaitExpires, position

\* Taking a line from the queue.
LEMMA GetStep ==
  ASSUME IInv, NEW accept, Get(accept), UNCHANGED <<child, pump, expired>>
  PROVE  ChildInv' /\ Head(lines) \in LineType
<1>1. /\ Head(lines) \in LineType /\ lines' \in Seq(LineType)
      /\ Len(lines') = Len(lines) - 1 /\ Len(lines) \in Nat
  BY HeadTailProperties, LenProperties DEF IInv, Channels, Get
<1>2. Len(lines') <= QueueMax
  BY <1>1, CaptureAssumption DEF IInv, TypeOK
<1>3. QED
  BY <1>1, <1>2 DEF IInv, TypeOK, ChildInv, Channels, child

\* A log line is skipped.
LEMMA SkipNoiseStep ==
  ASSUME IInv, SkipNoise
  PROVE  IInv'
<1>1. ChildInv'
  BY GetStep DEF SkipNoise, client
<1>2. ClientInv'
  BY ClientKept DEF SkipNoise
<1>3. QED
  BY <1>1, <1>2, Parts

\* An answer the client cannot use ends the capture.
LEMMA GetWrongStep ==
  ASSUME IInv, GetWrong
  PROVE  IInv'
<1>1. ChildInv'
  BY GetStep DEF GetWrong
<1>2. Looping /\ Fail /\ next_id' \in next_id..page_no + 3
  BY DEF IInv, GetWrong, Get, Looping, Numbered, position
<1>3. QED
  BY <1>1, <1>2, FailStep, Parts DEF GetWrong, position

\* The answer to the request waited for is the latest taken.
LEMMA TakenStep ==
  ASSUME IInv, pc = "wait", doing # "notify", taken' = Append(taken, asked),
         next_id' = next_id, pc' \notin {"write", "wait"}
  PROVE  Paired' /\ taken' \in Seq(Nat)
<1>1. asked \in Nat /\ asked < next_id /\ next_id \in Nat
  BY CaptureAssumption DEF IInv, TypeOK, asked
<1>2. taken \in Seq(Nat) /\ Len(taken) \in Nat
  BY LenProperties DEF IInv, TypeOK
<1>3. /\ taken' \in Seq(Nat) /\ Len(taken') = Len(taken) + 1
      /\ \A i \in 1..Len(taken) : taken'[i] = taken[i]
      /\ taken'[Len(taken) + 1] = asked
  BY <1>1, <1>2, AppendProperties
<1>4. DOMAIN taken = 1..Len(taken) /\ DOMAIN taken' = 1..(Len(taken) + 1)
  BY <1>2, <1>3, LenProperties
<1>5. \A i \in DOMAIN taken : taken[i] \in Nat /\ taken[i] < asked
  BY <1>2, ElementOfSeq, <1>4 DEF IInv, Paired
<1>6. \A i \in DOMAIN taken' :
        \/ i \in DOMAIN taken /\ taken'[i] = taken[i]
        \/ i = Len(taken) + 1 /\ taken'[i] = asked
  BY <1>2, <1>3, <1>4
<1>7. AnswersInOrder'
  <2> SUFFICES ASSUME NEW i \in DOMAIN taken', NEW j \in DOMAIN taken', i < j
               PROVE  taken'[i] < taken'[j]
    BY DEF AnswersInOrder
  <2>1. i \in DOMAIN taken /\ taken'[i] = taken[i]
    BY <1>2, <1>4, <1>6
  <2>2. CASE j \in DOMAIN taken /\ taken'[j] = taken[j]
    BY <2>1, <2>2 DEF IInv, Paired, AnswersInOrder
  <2>3. CASE taken'[j] = asked
    BY <1>5, <2>1, <2>3
  <2>4. QED
    BY <1>6, <2>2, <2>3
<1>8. \A i \in DOMAIN taken' : taken'[i] < next_id'
  BY <1>1, <1>5, <1>6
<1>9. QED
  BY <1>3, <1>7, <1>8 DEF Paired

\* The answer to initialize.
LEMMA GetInitializedStep ==
  ASSUME IInv, GetInitialized
  PROVE  IInv'
<1> USE DEF IInv, GetInitialized, Get, position, manifest, ghosts
<1>1. ChildInv'
  BY GetStep
<1>2. Numbered'
  BY DEF Numbered, Looping, TypeOK
<1>3. Counted' /\ Marked'
  BY DEF Counted, Marked, Looping
<1>4. Paired' /\ taken' \in Seq(Nat)
  BY TakenStep DEF Answered
<1>5. ClientInv'
  BY <1>2, <1>3, <1>4 DEF TypeOK, ClientInv
<1>6. QED
  BY <1>1, <1>5, Parts

\* A page: what is counted reaches its end unless there was no room, and the mark is
\* set exactly when room, cursor or page cap left something out.
LEMMA GetPageStep ==
  ASSUME IInv, GetPage
  PROVE  IInv'
<1> DEFINE page == Head(lines).page
           seen == Seen(page.items)
           valid == Valid(page.items, seen)
<1> USE DEF IInv
<1>1. ChildInv' /\ page \in PageType
  BY GetStep DEF GetPage, LineType
<1>2. /\ pc = "wait" /\ doing = "list"
      /\ tools' = tools + valid /\ malformed' = malformed + (seen - valid)
      /\ listed_once' = TRUE /\ truncated' = StopsShort(page)
      /\ pending' = page.next /\ listed' = listed + Len(page.items)
      /\ taken' = Append(taken, asked)
      /\ doing' = doing /\ next_id' = next_id
  BY DEF GetPage, Get, Answered
<1>3. \/ /\ StopsShort(page) \/ page.next \notin Cursor
         /\ pc' = "close" /\ outcome' = "ok" /\ cursor' = cursor /\ page_no' = page_no
      \/ /\ ~StopsShort(page) /\ page.next \in Cursor
         /\ pc' = "send" /\ outcome' = outcome
         /\ cursor' = page.next /\ page_no' = page_no + 1
  BY DEF GetPage
<1>4. page.items \in Seq(Item) /\ page.next \in Cursor \cup {NoCursor, BadCursor}
  BY <1>1 DEF PageType
<1>5. /\ seen \in 0..Len(page.items) /\ Len(page.items) \in Nat
      /\ Full(page.items) = {} => seen = Len(page.items)
      /\ Full(page.items) # {} => seen < Len(page.items)
      /\ valid \in 0..seen /\ tools + valid <= MAX_TOOLS
  BY <1>4, SeenBounds, LenProperties DEF TypeOK
<1>6. /\ tools \in Nat /\ malformed \in Nat /\ listed \in Nat /\ page_no \in 0..MAX_PAGES - 1
      /\ MAX_PAGES \in Nat \ {0} /\ MAX_TOOLS \in Nat /\ next_id \in Nat
      /\ tools + malformed = listed
  BY <1>2, CaptureAssumption DEF TypeOK, Counted, Looping
<1>7. truncated' \in BOOLEAN /\ (truncated' <=> StopsShort(page))
  <2>1. StopsShort(page) \in BOOLEAN
    BY DEF StopsShort
  <2>2. QED
    BY <1>2, <2>1
<1>12. Paired' /\ taken' \in Seq(Nat)
  BY <1>2, <1>3, TakenStep DEF TypeOK, Numbered, Looping
<1> HIDE DEF page, seen, valid
<1>8. tools' + malformed' = listed + seen /\ tools' \in 0..MAX_TOOLS /\ malformed' \in Nat
  <2>1. seen \in Nat /\ valid \in Nat /\ valid <= seen
    BY <1>5
  <2>2. tools' = tools + valid /\ malformed' = malformed + (seen - valid)
    BY <1>2
  <2>3. tools' \in Nat /\ tools' <= MAX_TOOLS /\ malformed' \in Nat
    BY <1>5, <1>6, <2>1, <2>2
  <2>4. tools' + malformed' = (tools + malformed) + seen
    BY <1>6, <2>1, <2>2
  <2>5. QED
    BY <1>6, <2>3, <2>4
<1>9. CASE StopsShort(page) \/ page.next \notin Cursor
  <2>1. pc' = "close" /\ outcome' = "ok" /\ cursor' = cursor /\ page_no' = page_no
    BY <1>3, <1>9
  <2>2. Numbered'
    BY <1>2, <2>1 DEF Numbered, Looping
  <2>3. Counted'
    BY <1>2, <1>5, <1>6, <1>8, <1>7, <2>1 DEF Counted, Looping
  <2>4. Marked'
    <3>1. CASE StopsShort(page)
      BY <1>2, <1>5, <1>6, <1>8, <1>7, <3>1 DEF Marked, StopsShort
    <3>2. CASE ~StopsShort(page)
      <4>1. Full(page.items) = {} /\ page.next = NoCursor
        BY <1>4, <1>9, <3>2 DEF StopsShort
      <4>2. QED
        BY <1>2, <1>5, <1>6, <1>8, <1>7, <3>2, <4>1 DEF Marked
    <3>3. QED
      BY <3>1, <3>2
  <2>5. ClientInv'
    BY <1>2, <1>4, <1>5, <1>6, <1>8, <1>7, <1>12, <2>1, <2>2, <2>3, <2>4
       DEF ClientInv, TypeOK
  <2>6. QED
    BY <1>1, <2>5, Parts
<1>10. CASE ~StopsShort(page) /\ page.next \in Cursor
  <2>1. pc' = "send" /\ outcome' = outcome /\ cursor' = page.next /\ page_no' = page_no + 1
    BY <1>3, <1>10
  <2>2. Full(page.items) = {} /\ page_no + 1 # MAX_PAGES
    BY <1>10, CaptureAssumption DEF StopsShort
  <2>3. page_no' \in 0..MAX_PAGES - 1 /\ next_id = page_no + 3
    BY <1>2, <1>6, <2>1, <2>2 DEF Numbered, Looping
  <2>4. Numbered'
    BY <1>2, <1>6, <2>1, <2>3 DEF Numbered, Looping
  <2>5. Counted'
    BY <1>2, <1>5, <1>6, <1>8, <1>10, <1>7, <2>1, <2>2 DEF Counted, Looping
  <2>6. Marked'
    BY <1>2, <1>10, <1>7, <2>1 DEF Marked, Counted, Looping
  <2>7. ClientInv'
    BY <1>2, <1>4, <1>5, <1>6, <1>8, <1>10, <1>7, <1>12, <2>1, <2>3, <2>4, <2>5, <2>6
       DEF ClientInv, TypeOK
  <2>8. QED
    BY <1>1, <2>7, Parts
<1>11. QED
  BY <1>9, <1>10

\* A tool that cannot be encoded, or an interrupt, ends the capture without a manifest.
LEMMA RaiseStep ==
  ASSUME IInv, GetRaises \/ Interrupt
  PROVE  IInv'
<1> USE DEF IInv, position, manifest, ghosts
<1>1. ChildInv'
  <2>1. CASE GetRaises
    BY <2>1, GetStep DEF GetRaises
  <2>2. CASE Interrupt
    BY <2>2, ChildKept DEF Interrupt
  <2>3. QED
    BY <2>1, <2>2
<1>2. Numbered' /\ Counted' /\ Marked' /\ Paired'
  BY DEF TypeOK, Numbered, Counted, Marked, Looping, Paired, AnswersInOrder,
         GetRaises, Interrupt, Get
<1>3. ClientInv'
  BY <1>2 DEF TypeOK, ClientInv, GetRaises, Interrupt, Get
<1>4. QED
  BY <1>1, <1>3, Parts

\* The steps of the cleanup, to its end or to an interrupt.
LEMMA CleanupStep ==
  ASSUME IInv, CloseInput \/ Grace \/ Remove \/ InterruptCleanup
  PROVE  IInv'
<1> USE DEF IInv, CloseInput, Grace, Remove, InterruptCleanup, position, manifest, ghosts
<1>1. ChildInv'
  BY DEF TypeOK, ChildInv, Channels, child, thread
<1>2. Numbered' /\ Counted'
  BY DEF TypeOK, Numbered, Counted, Looping
<1>3. Marked' /\ Paired'
  <2>1. /\ outcome' \in {outcome, "interrupted"} /\ pc' \notin {"write", "wait"}
        /\ UNCHANGED <<truncated, pending, tools, malformed, listed, taken, next_id>>
    OBVIOUS
  <2>2. Marked /\ Paired
    OBVIOUS
  <2> HIDE DEF IInv, CloseInput, Grace, Remove, InterruptCleanup, position, manifest, ghosts
  <2>3. Marked'
    BY <2>1, <2>2 DEF Marked
  <2>4. Paired'
    BY <2>1, <2>2 DEF Paired, AnswersInOrder
  <2>5. QED
    BY <2>3, <2>4
<1>4. ClientInv'
  BY <1>2, <1>3 DEF TypeOK, ClientInv
<1>5. QED
  BY <1>1, <1>4, Parts

\* Stuttering.
LEMMA StutterStep ==
  ASSUME IInv, UNCHANGED vars
  PROVE  IInv'
<1>1. ClientInv' /\ ChildInv'
  BY ClientKept, ChildKept DEF vars, client
<1>2. QED
  BY <1>1, Parts

\* What the client, its queue and the child have in common, always.
THEOREM Invariance == Spec => []IInv
<1>1. IInv /\ [Next]_vars => IInv'
  BY ChildWritesStep, ChildStopsReadingStep, ChildExitsStep, DeadlinePassesStep, PumpStep,
     SendStep, WriteStep, WaitExpiresStep, SkipNoiseStep, GetWrongStep, GetInitializedStep,
     GetPageStep, RaiseStep, CleanupStep, StutterStep
     DEF Next, Client, Child, Returned
<1>2. QED
  BY Initialization, <1>1, PTL DEF Spec

-----------------------------------------------------------------------------
(* What the client promises.                                                *)

\* A capture keeps its types: its ids, its pages and its tools stay within the caps, and
\* the pipe and the queue within theirs.
THEOREM TypeCorrect == Spec => []TypeOK
<1>1. IInv => TypeOK
  BY DEF IInv
<1>2. QED
  BY <1>1, Invariance, PTL

\* A capture that is ok and not marked is whole, whatever the server lists.
THEOREM UnmarkedCaptureIsWhole == Spec => []UnmarkedIsWhole
<1>1. IInv => UnmarkedIsWhole
  BY DEF IInv, TypeOK, Marked, UnmarkedIsWhole, Incomplete
<1>2. QED
  BY <1>1, Invariance, PTL

\* A capture marked incomplete has lost an entry or a page.
THEOREM MarkedCaptureIsCut == Spec => []MarkedIsCut
<1>1. IInv => MarkedIsCut
  <2>1. IInv => tools \in Nat /\ malformed \in Nat /\ listed \in Nat
    BY CaptureAssumption DEF IInv, TypeOK
  <2>2. QED
    BY <2>1 DEF IInv, Counted, Marked, MarkedIsCut, Incomplete
<1>2. QED
  BY <1>1, Invariance, PTL

\* Requests are answered once and in their order: a late or repeated answer is never taken
\* for that of a later request.
THEOREM AnswersStayInOrder == Spec => []AnswersInOrder
<1>1. IInv => AnswersInOrder
  BY DEF IInv, Paired
<1>2. QED
  BY <1>1, Invariance, PTL
=============================================================================
