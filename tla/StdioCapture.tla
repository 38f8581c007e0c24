--------------------------- MODULE StdioCapture ---------------------------
(***************************************************************************)
(* Capturing a server's tool manifest over stdio: run_capture, the client   *)
(* (discovery/live_tools.py), over the channel of discovery/stdio_sandbox   *)
(* whose pump thread moves the child's lines into a bounded queue. The child *)
(* writes any line at any time, answers late, twice or never, stops reading *)
(* its input, outlives the end of its input, or exits.                      *)
(***************************************************************************)
EXTENDS Naturals, Sequences, FiniteSets

CONSTANTS
  Cursor,      \* nextCursor strings
  Huge,        \* those that overflow the child's input pipe when sent back
  NoCursor,    \* no nextCursor
  BadCursor,   \* a nextCursor that is empty or not a string
  Page,        \* pages a child may list: their items and nextCursor
  MAX_PAGES, MAX_TOOLS,
  QueueMax, PipeMax,   \* room in the queue and in the child's stdout pipe, in lines
  MaxLines             \* bound on the lines the child writes

\* An entry of a page: a tool, a malformed one, or a tool with a lone surrogate in its
\* text, which JSON may hold and the encoding of its digest refuses.
Item == {"tool", "malformed", "surrogate"}

NoPage == [items |-> <<>>, next |-> NoCursor]

\* A line: of its kind, the request id it names, and the page it lists. "log" shows
\* neither "result" nor "error", "jsonlog" is a JSON log record that shows one, "long"
\* exceeds the cap.
Line(kind, id, page) == [kind |-> kind, id |-> id, page |-> page]
Noise == {Line(k, 0, NoPage) : k \in {"log", "jsonlog", "long"}}
Answers(id) == {Line("error", id, NoPage)} \cup {Line("page", id, g) : g \in Page}
Eof == Line("eof", 0, NoPage)              \* the None the pump puts last
Oversized == Line("oversized", 0, NoPage)

ASSUME CaptureAssumption ==
  /\ Huge \subseteq Cursor
  /\ {NoCursor, BadCursor} \cap Cursor = {} /\ NoCursor # BadCursor
  /\ Page \subseteq [items : Seq(Item), next : Cursor \cup {NoCursor, BadCursor}]
  /\ MAX_PAGES \in Nat \ {0} /\ MAX_TOOLS \in Nat
  /\ QueueMax \in Nat \ {0} /\ PipeMax \in Nat \ {0} /\ MaxLines \in Nat

VARIABLES
  running, reads,      \* the child runs; it consumes its input
  output, written,     \* the child's stdout pipe, and how many lines it has written
  pump, lines,         \* the pump thread, and its queue
  pc, doing,           \* where the client is, and in which exchange
  next_id, cursor, page_no,
  tools, malformed, truncated, listed_once,
  expired,             \* the deadline has passed
  outcome,             \* "none" yet, "ok", "failed", "raised" or "interrupted"
  pending,             \* history: the nextCursor of the last page taken
  listed,              \* history: entries on the pages taken
  taken                \* history: the ids that the answers taken name, in order

child == <<running, reads, output, written>>
thread == <<pump, lines>>
manifest == <<tools, malformed, listed_once>>
position == <<next_id, cursor, page_no>>
ghosts == <<pending, listed, taken>>
vars == <<child, thread, pc, doing, position, manifest, truncated, expired, outcome, ghosts>>
client == <<pc, doing, position, manifest, truncated, outcome, ghosts>>

Init ==
  /\ running = TRUE /\ reads = TRUE /\ output = <<>> /\ written = 0
  /\ pump = "reading" /\ lines = <<>>
  /\ pc = "send" /\ doing = "initialize"
  /\ next_id = 1 /\ cursor = NoCursor /\ page_no = 0
  /\ tools = 0 /\ malformed = 0 /\ truncated = FALSE /\ listed_once = FALSE
  /\ expired = FALSE /\ outcome = "none"
  /\ pending = NoCursor /\ listed = 0 /\ taken = <<>>

-----------------------------------------------------------------------------
(* The child and the clock.                                                 *)

\* One line: noise, or an answer to any request, sent already or to come.
ChildWrites ==
  /\ running /\ written < MaxLines /\ Len(output) < PipeMax
  /\ written' = written + 1
  /\ \E line \in Noise \cup UNION {Answers(id) : id \in 1..next_id} :
       output' = Append(output, line)
  /\ UNCHANGED <<running, reads, thread, client, expired>>

ChildStopsReading ==
  /\ running /\ reads /\ reads' = FALSE
  /\ UNCHANGED <<running, output, written, thread, client, expired>>

ChildExits ==
  /\ running /\ running' = FALSE
  /\ UNCHANGED <<reads, output, written, thread, client, expired>>

DeadlinePasses ==
  /\ ~expired /\ expired' = TRUE
  /\ UNCHANGED <<child, thread, client>>

-----------------------------------------------------------------------------
(* _StdioChannel._pump. A put waits for room in the queue.                  *)

Put(x) == Len(lines) < QueueMax /\ lines' = Append(lines, x)

PumpLine ==
  /\ pump = "reading" /\ output # <<>>
  /\ output' = Tail(output)
  /\ IF Head(output).kind = "long"
       THEN Put(Oversized) /\ pump' = "closing"
       ELSE Put(Head(output)) /\ UNCHANGED pump
  /\ UNCHANGED <<running, reads, written, client, expired>>

PumpEof ==
  /\ pump = "reading" /\ output = <<>> /\ ~running
  /\ pump' = "closing"
  /\ UNCHANGED <<child, lines, client, expired>>

PumpEnds ==
  /\ pump = "closing" /\ Put(Eof) /\ pump' = "ended"
  /\ UNCHANGED <<child, client, expired>>

-----------------------------------------------------------------------------
(* CaptureSession and run_capture.                                          *)

\* A LiveToolsError that keeps the pages taken, unmarked.
FailUnmarked ==
  /\ pc' = "close"
  /\ outcome' = IF listed_once THEN "ok" ELSE "failed"
  /\ UNCHANGED <<doing, truncated>>

\* A LiveToolsError: before the first page it is the outcome, after it the pages
\* taken are, marked incomplete.
Fail ==
  /\ pc' = "close"
  /\ outcome' = IF listed_once THEN "ok" ELSE "failed"
  /\ truncated' = listed_once
  /\ UNCHANGED doing

\* The request is longer than what a child that has stopped reading leaves room for.
Blocked == running /\ ~reads /\ doing = "list" /\ cursor \in Huge

\* request and _post: a new id, and the deadline.
Send ==
  /\ pc = "send"
  /\ next_id' = IF doing = "notify" THEN next_id ELSE next_id + 1
  /\ IF expired THEN Fail ELSE pc' = "write" /\ UNCHANGED <<outcome, truncated, doing>>
  /\ UNCHANGED <<child, thread, cursor, page_no, manifest, expired, ghosts>>

\* The write has no timeout of its own; a dead child breaks the pipe. A notification
\* waits for no answer.
Write ==
  /\ pc = "write" /\ ~Blocked
  /\ IF ~running
       THEN Fail
       ELSE /\ IF doing = "notify" THEN doing' = "list" /\ pc' = "send"
                                   ELSE pc' = "wait" /\ UNCHANGED doing
            /\ UNCHANGED <<outcome, truncated>>
  /\ UNCHANGED <<child, thread, position, manifest, expired, ghosts>>

\* The id of the request waited for.
asked == next_id - 1

\* Waits for a line, deadline or not.
WaitForLine ==
  /\ pc = "wait" /\ expired /\ lines # <<>>
  /\ Fail
  /\ UNCHANGED <<child, thread, position, manifest, expired, ghosts>>

\* The deadline has come, with the queue empty or not.
WaitExpires ==
  /\ pc = "wait" /\ expired
  /\ Fail
  /\ UNCHANGED <<child, thread, position, manifest, expired, ghosts>>

\* The next line, while the deadline has not come.
Get(accept) ==
  /\ pc = "wait" /\ ~expired /\ lines # <<>>
  /\ accept
  /\ lines' = Tail(lines)

SkipNoise ==
  /\ Get(Head(lines).kind = "log")
  /\ UNCHANGED <<child, pump, client, expired>>

\* Takes any page for the answer.
AnsweredByAny(line) == line.kind = "page"

\* The JSON-RPC response to the request waited for.
Answered(line) == line.kind = "page" /\ line.id = asked

\* The line is taken for an answer and is none, or stands for the end of the stream.
GetWrong ==
  /\ Get(Head(lines).kind # "log" /\ ~Answered(Head(lines)))
  /\ Fail
  /\ UNCHANGED <<child, pump, position, manifest, expired, ghosts>>

\* The answer to initialize; the notification follows.
GetInitialized ==
  /\ doing = "initialize"
  /\ Get(Answered(Head(lines)))
  /\ pc' = "send" /\ doing' = "notify"
  /\ taken' = Append(taken, Head(lines).id)
  /\ UNCHANGED <<child, pump, position, manifest, truncated, expired, outcome, pending, listed>>

\* Valid entries among the first k; the first form counts one too many.
ValidOff(items, k) == Cardinality({j \in 1..k + 1 : j \in DOMAIN items /\ items[j] = "tool"})
Valid(items, k) == Cardinality({j \in 1..k : items[j] = "tool"})

\* Where the loop stops for want of room: an entry that finds MAX_TOOLS tools kept.
Full(items) == {k \in 0..Len(items) - 1 : tools + Valid(items, k) >= MAX_TOOLS}
Seen(items) ==
  IF Full(items) = {} THEN Len(items) ELSE CHOOSE k \in Full(items) : \A j \in Full(items) : k <= j

\* The loop meets a tool it cannot encode.
Raises(items) == \E k \in 1..Seen(items) : items[k] = "surrogate"

\* Calls the last page allowed a cut, whether it names another or not.
StopsShortAtCap(page) ==
  \/ Full(page.items) # {}
  \/ page_no + 1 = MAX_PAGES
  \/ page.next = BadCursor \/ (page.next # NoCursor /\ page.next = cursor)

\* The loop stops with a part of the manifest unseen: the tool cap, a cursor that is
\* bad or makes no progress, the page cap.
StopsShort(page) ==
  \/ Full(page.items) # {}
  \/ page.next # NoCursor /\ (page.next = BadCursor \/ page.next = cursor
                                \/ page_no + 1 = MAX_PAGES)

\* UnicodeEncodeError, which nothing on the way to capture_stdio's `finally` catches.
GetRaises ==
  /\ doing = "list"
  /\ Get(Answered(Head(lines)) /\ Raises(Head(lines).page.items))
  /\ pc' = "close" /\ outcome' = "raised"
  /\ UNCHANGED <<child, pump, doing, position, manifest, truncated, expired, ghosts>>

\* The items are counted, and the loop goes on to the next page, or ends.
GetPage ==
  /\ doing = "list"
  /\ Get(Answered(Head(lines)) /\ ~Raises(Head(lines).page.items))
  /\ LET page == Head(lines).page
         seen == Seen(page.items)
     IN /\ tools' = tools + Valid(page.items, seen)
        /\ malformed' = malformed + (seen - Valid(page.items, seen))
        /\ listed_once' = TRUE
        /\ truncated' = StopsShort(page)
        /\ IF StopsShort(page) \/ page.next \notin Cursor
             THEN pc' = "close" /\ outcome' = "ok" /\ UNCHANGED <<cursor, page_no>>
             ELSE /\ pc' = "send" /\ UNCHANGED outcome
                  /\ cursor' = page.next /\ page_no' = page_no + 1
        /\ pending' = page.next
        /\ listed' = listed + Len(page.items)
  /\ taken' = Append(taken, Head(lines).id)
  /\ UNCHANGED <<child, pump, doing, next_id, expired>>

\* Ctrl-C: KeyboardInterrupt unwinds through `finally`.
Interrupt ==
  /\ pc \in {"send", "write", "wait"}
  /\ pc' = "close" /\ outcome' = "interrupted"
  /\ UNCHANGED <<child, thread, doing, position, manifest, truncated, expired, ghosts>>

-----------------------------------------------------------------------------
(* capture_stdio's `finally`: _terminate, then the removal of the container. *)

CloseInput ==
  /\ pc = "close" /\ pc' = "grace"
  /\ UNCHANGED <<child, thread, doing, position, manifest, truncated, expired, outcome, ghosts>>

\* wait(3 s), then kill and wait(3 s): the child has gone by itself, or dies of the kill,
\* or is there when the second wait gives up.
Grace ==
  /\ pc = "grace" /\ pc' = "remove"
  /\ running' \in {FALSE, running}
  /\ UNCHANGED <<reads, output, written, thread, doing, position, manifest, truncated,
                 expired, outcome, ghosts>>

\* `rm -f` of the container, whose failure and timeout are passed over.
Remove ==
  /\ pc = "remove" /\ pc' = "returned"
  /\ running' \in {FALSE, running}
  /\ UNCHANGED <<reads, output, written, thread, doing, position, manifest, truncated,
                 expired, outcome, ghosts>>

\* Ctrl-C in one of these waits skips what is left of them.
InterruptCleanup ==
  /\ pc \in {"close", "grace", "remove"}
  /\ pc' = "returned" /\ outcome' = "interrupted"
  /\ UNCHANGED <<child, thread, doing, position, manifest, truncated, expired, ghosts>>

Client ==
  \/ Send \/ Write \/ WaitExpires \/ SkipNoise \/ GetWrong \/ GetInitialized \/ GetPage
  \/ GetRaises \/ CloseInput \/ Grace \/ Remove

Pump == PumpLine \/ PumpEof \/ PumpEnds
Child == ChildWrites \/ ChildStopsReading \/ ChildExits
Returned == pc = "returned" /\ UNCHANGED vars

Next == Client \/ Interrupt \/ InterruptCleanup \/ Pump \/ Child \/ DeadlinePasses \/ Returned

Spec == Init /\ [][Next]_vars

\* The client and the pump are scheduled and the clock runs; the child owes nothing.
FairSpec == Spec /\ WF_vars(Client) /\ WF_vars(Pump) /\ WF_vars(DeadlinePasses)

-----------------------------------------------------------------------------
(* Properties.                                                              *)

TypeOK ==
  /\ running \in BOOLEAN /\ reads \in BOOLEAN /\ expired \in BOOLEAN
  /\ Len(output) <= PipeMax /\ Len(lines) <= QueueMax
  /\ written \in 0..MaxLines
  /\ pump \in {"reading", "closing", "ended"}
  /\ pc \in {"send", "write", "wait", "close", "grace", "remove", "returned"}
  /\ doing \in {"initialize", "notify", "list"}
  /\ next_id \in 1..MAX_PAGES + 3
  /\ cursor \in Cursor \cup {NoCursor} /\ page_no \in 0..MAX_PAGES - 1
  /\ tools \in 0..MAX_TOOLS /\ malformed \in Nat /\ listed \in Nat
  /\ truncated \in BOOLEAN /\ listed_once \in BOOLEAN /\ taken \in Seq(Nat)
  /\ outcome \in {"none", "ok", "failed", "raised", "interrupted"}
  /\ pending \in Cursor \cup {NoCursor, BadCursor}

\* The mark of the LiveManifest returned.
Incomplete == truncated \/ malformed > 0

\* LiveManifest: a capture that is ok and not marked truncated is whole. The last page
\* named no further one, and every entry of every page is among the tools: nothing was
\* lost to a cap, a bad entry, the deadline or the child's end.
UnmarkedIsWhole ==
  pc = "returned" /\ outcome = "ok" /\ ~Incomplete => pending = NoCursor /\ tools = listed

\* A marked capture has lost something: a whole manifest is never called incomplete.
MarkedIsCut ==
  pc = "returned" /\ outcome = "ok" /\ Incomplete => pending # NoCursor \/ tools < listed

\* Each request is answered once, in the order they were sent: an answer that comes late, or
\* comes again after the next request was sent, does not enter as that one's.
AnswersInOrder == \A i, j \in DOMAIN taken : i < j => taken[i] < taken[j]

\* capture_stdio: "The child is always terminated before returning."
NoChildSurvives == pc = "returned" => ~running

\* run_capture and capture_stdio: "Never raises."
NeverRaises == outcome # "raised"

\* The capture returns, whatever the child writes or withholds.
CaptureReturns == <>(pc = "returned")
=============================================================================
