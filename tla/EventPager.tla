----------------------------- MODULE EventPager -----------------------------
(***************************************************************************)
(* A dispatcher reads the timeline of a job page by page while events are  *)
(* added to it: push_job_event and job_events_cursor_filtered of the core  *)
(* (both stores), the handler dispatch_job_events, and the loops of the    *)
(* TypeScript SDK, getJobEventsAllPages and iterateJobEvents, with its     *)
(* retries and resumptions; and the loop a legacy client makes itself of   *)
(* getJobEvents and the `before' parameter.                                *)
(*                                                                         *)
(* The system clock does not step back, and a crash with the recovery      *)
(* behind it takes longer than its resolution.  A request is answered in   *)
(* one step: the reader looks at nothing that changes meanwhile.  The rows *)
(* of the table are those the program wrote, hence it can read them.       *)
(***************************************************************************)
EXTENDS Naturals, Sequences, FiniteSets, FiniteSetsExt

CONSTANTS
  Kind,            \* the kinds of events
  Reading,         \* the requests a reader may make
  MaxJobEvents,    \* MAX_JOB_EVENTS: what is kept of a job in memory
  DefaultLimit,    \* the page size that stands for limit 0
  MaxAttempts,     \* retry.maxAttempts
  MaxResumes,      \* maxResumeAttempts
  NoBound,         \* maxEvents was not given
  NoCursor,
  MaxLog,          \* bound: events of the job
  MaxTime          \* bound: instants that differ

(* What may go wrong: 503 and the like, 500, 4xx, no connection, and the   *)
(* caller's signal.                                                        *)
Failure == {"unavailable", "broken", "refused", "unreachable", "aborted"}

ASSUME ReadingAssumption ==
  \A r \in Reading :
    /\ r.method \in {"iterate", "all", "legacy"}
    /\ r.limit \in Nat /\ r.maxPages \in Nat \ {0}
    /\ r.maxEvents \in Nat \cup {NoBound}
    /\ r.kinds \subseteq Kind
    /\ r.resume \in BOOLEAN /\ r.allows \subseteq Failure
ASSUME SizeAssumption ==
  /\ MaxJobEvents \in Nat \ {0} /\ DefaultLimit \in Nat \ {0}
  /\ MaxAttempts \in Nat \ {0} /\ MaxResumes \in Nat
ASSUME NothingAssumption ==
  NoBound \notin Nat /\ NoCursor \notin [at : Nat, sequence : Nat]
ASSUME BoundAssumption == MaxLog \in Nat /\ MaxTime \in Nat

VARIABLES
  persistent,      \* is the store a database?
  now,
  log,             \* every event of the job, in the order they were pushed
  missing,         \* the numbers of those whose row was not inserted
  reading,         \* what the reader asks for
  status,          \* reading, done or thrown
  page, attempt, resumes,
  cursor,
  yielded,         \* what the reader got
  first,           \* the events it could have read when it began
  lastPage,        \* did the server say there is no next page?
  unread           \* and was that because its query had failed?

reader == <<status, page, attempt, resumes, cursor, yielded, first, lastPage, unread>>
vars == <<persistent, now, log, missing, reading, reader>>

-----------------------------------------------------------------------------
(* The timeline. *)

(* push_job_event numbers and stamps an event; a row may fail to be        *)
(* inserted, or be lost in a crash.                                        *)
Push(k) ==
  /\ Len(log) < MaxLog
  /\ log' = Append(log, [sequence |-> Len(log) + 1, at |-> now, kind |-> k])
  /\ \/ UNCHANGED missing
     \/ persistent /\ missing' = missing \cup {Len(log) + 1}
  /\ UNCHANGED <<persistent, now, reading, reader>>

(* Recovery pushes the events of the commands after a snapshot once more,  *)
(* and what was missing comes with a new stamp.                            *)
Recover ==
  \E m \in missing :
    /\ \A n \in DOMAIN log : log[n].at < now
    /\ log' = [n \in DOMAIN log |->
                 IF n \in missing /\ n >= m THEN [log[n] EXCEPT !.at = now] ELSE log[n]]
    /\ missing' = {n \in missing : n < m}
    /\ UNCHANGED <<persistent, now, reading, reader>>

Tick ==
  /\ now < MaxTime
  /\ now' = now + 1
  /\ UNCHANGED <<persistent, log, missing, reading, reader>>

Stored == {log[n] : n \in DOMAIN log \ missing}

(* Beyond the cap memory forgets the oldest; the table keeps every row. *)
Kept == {e \in Stored : persistent \/ e.sequence + MaxJobEvents > Len(log)}

(* Fault: a cursor is its timestamp. *)
EarlierThan(e) == cursor = NoCursor \/ e.at < cursor.at

(* Fault: the event of the cursor is on the next page again. *)
NotAfter(e) ==
  \/ cursor = NoCursor
  \/ e.at < cursor.at
  \/ e.at = cursor.at /\ e.sequence <= cursor.sequence

Before(e) ==
  \/ cursor = NoCursor
  \/ e.at < cursor.at
  \/ e.at = cursor.at /\ e.sequence < cursor.sequence

(* No kinds stands for all of them. *)
Requested(e) == reading.kinds = {} \/ e.kind \in reading.kinds

(* The table is never asked for some kinds only. *)
Wanted(e) == persistent \/ Requested(e)

Newer(e, f) ==
  IF persistent
  THEN e.at > f.at \/ (e.at = f.at /\ e.sequence > f.sequence)
  ELSE e.sequence > f.sequence

PageSize == IF reading.limit = 0 THEN DefaultLimit ELSE reading.limit

Take(n, s) == SubSeq(s, 1, Min({n, Len(s)}))

(* The newest n: an event comes behind as many as are newer. *)
Newest(n, events) ==
  [i \in 1..Min({n, Cardinality(events)}) |->
     CHOOSE e \in events : Cardinality({f \in events : Newer(f, e)}) = i - 1]

Page == Newest(PageSize, {e \in Kept : Before(e) /\ Wanted(e)})

(* Fault: a page that is just full counts as the last one. *)
MoreThanFull(events) == Len(events) > Max({reading.limit, 1})

(* There may be more after a full page; limit 0 calls one event a page. *)
IsFull(events) == Len(events) >= Max({reading.limit, 1})

(* Of an instant, `before' is the cursor with number 0. *)
CursorOf(e) ==
  [at |-> e.at, sequence |-> IF reading.method = "legacy" THEN 0 ELSE e.sequence]

NextCursor(events) == IF IsFull(events) THEN CursorOf(events[Len(events)]) ELSE NoCursor

-----------------------------------------------------------------------------
(* The reader. *)

(* One loop checks after each event it hands out, hence hands out one when *)
(* asked for none; the other cuts what it collected.                       *)
Budget ==
  IF reading.method = "iterate" THEN Max({reading.maxEvents, 1}) ELSE reading.maxEvents

Bounded == reading.maxEvents # NoBound

(* Fault: the last page is not cut. *)
WholePages(events) == events

Within(events) == IF Bounded THEN Take(Budget, events) ELSE events

EnoughOf(events) == Bounded /\ Len(events) >= Budget

(* A page arrives.  An empty one cannot use up the budget of iterate. *)
Arrives(events) ==
  LET next == NextCursor(events)
      collected == yielded \o events
  IN /\ status = "reading"
     /\ yielded' = Within(collected)
     /\ page' = page + 1
     /\ cursor' = next
     /\ attempt' = 1 /\ resumes' = 0
     /\ first' = IF page = 0 THEN Kept ELSE first
     /\ lastPage' = (next = NoCursor)
     /\ status' = IF next = NoCursor \/ EnoughOf(collected) \/ page' = reading.maxPages
                  THEN "done" ELSE "reading"
     /\ UNCHANGED <<persistent, now, log, missing, reading>>

GetPage == Arrives(Page) /\ UNCHANGED unread

(* A query that fails is answered like one that found nothing. *)
GetNothing == persistent /\ Arrives(<<>>) /\ unread' = TRUE

(* fetchWithRetry: retryOnStatuses, or no answer at all. *)
RetriedByFetch(f) == f \in {"unavailable", "broken", "unreachable"}

(* resumeOnTransientError, or shouldResumeOnError; only answers are        *)
(* SpatiadApiErrors.                                                       *)
Resumable(f) ==
  \/ reading.resume /\ f = "unavailable"
  \/ f \in reading.allows \cap {"unavailable", "broken", "refused"}

Resumed(f) == reading.method = "iterate" /\ Resumable(f) /\ resumes < MaxResumes

Unchanged ==
  UNCHANGED <<persistent, now, log, missing, reading,
              page, cursor, yielded, first, lastPage, unread>>

(* Fault: an answer is not needed to start counting resumptions again. *)
StartCounting == 1

NextResume == resumes + 1

(* fetchWithRetry asks again. *)
RetryRequest(f) ==
  /\ status = "reading"
  /\ RetriedByFetch(f) /\ attempt < MaxAttempts
  /\ attempt' = attempt + 1
  /\ UNCHANGED <<status, resumes>>
  /\ Unchanged

(* The loop asks for the same page again, or the error is the caller's. *)
Resume(f) ==
  /\ status = "reading"
  /\ ~ (RetriedByFetch(f) /\ attempt < MaxAttempts)
  /\ Resumed(f)
  /\ resumes' = NextResume
  /\ attempt' = 1
  /\ UNCHANGED status
  /\ Unchanged

Throw(f) ==
  /\ status = "reading"
  /\ ~ (RetriedByFetch(f) /\ attempt < MaxAttempts)
  /\ ~ Resumed(f)
  /\ status' = "thrown"
  /\ UNCHANGED <<attempt, resumes>>
  /\ Unchanged

Fails == \E f \in Failure : RetryRequest(f) \/ Resume(f) \/ Throw(f)

-----------------------------------------------------------------------------
Init ==
  /\ persistent \in BOOLEAN
  /\ now = 0 /\ log = <<>> /\ missing = {}
  /\ reading \in Reading
  /\ status = "reading"
  /\ page = 0 /\ attempt = 1 /\ resumes = 0
  /\ cursor = NoCursor /\ yielded = <<>>
  /\ first = {} /\ lastPage = FALSE /\ unread = FALSE

Ask == GetPage \/ GetNothing \/ Fails

Next == (\E k \in Kind : Push(k)) \/ Recover \/ Tick \/ Ask

(* A request is answered or fails: fetch settles, and back-offs are timers. *)
Spec == Init /\ [][Next]_vars /\ WF_vars(Ask)

-----------------------------------------------------------------------------
(* The counters stay within what the reader asked for, the events it got   *)
(* too: except that iterateJobEvents yields one when asked for none.       *)
TypeOK ==
  /\ status \in {"reading", "done", "thrown"}
  /\ page \in 0..reading.maxPages
  /\ attempt \in 1..MaxAttempts /\ resumes \in 0..MaxResumes
  /\ cursor = NoCursor \/ cursor.sequence \in 0..Len(log)
  /\ missing \subseteq DOMAIN log
  /\ first \subseteq Stored
  /\ unread \in BOOLEAN
  /\ \A i \in DOMAIN yielded : yielded[i] \in Stored
  /\ reading.maxEvents \in Nat \ {0} => Len(yielded) <= reading.maxEvents
  /\ reading.maxEvents = 0 /\ reading.method = "all" => yielded = <<>>

(* No event is handed out twice and none after an older one, whatever is   *)
(* pushed, dropped or stamped anew between two pages, however many events  *)
(* share an instant and however often a request is repeated.               *)
NewestFirst ==
  \A i, j \in DOMAIN yielded : i < j => Newer(yielded[i], yielded[j])

(* The reader has the event; or pages by `before' and has another one of   *)
(* the same instant.                                                       *)
HasRead(e) ==
  \E i \in DOMAIN yielded :
    yielded[i] = e \/ (reading.method = "legacy" /\ yielded[i].at = e.at)

(* Nothing is skipped: between the newest and the oldest event handed out  *)
(* there is no event of the kinds asked for that the reader did not get,   *)
(* but for those a legacy client loses to their neighbours in time.        *)
NoGaps ==
  \A e \in Stored :
    (/\ Requested(e) /\ yielded # <<>>
     /\ ~ Newer(e, yielded[1]) /\ ~ Newer(yielded[Len(yielded)], e)) => HasRead(e)

(* A reader told that there is no next page has every event of its kinds   *)
(* that was there when it began and is still kept: unless the query behind *)
(* that answer failed, which the answer does not show and no request of    *)
(* the reader can.                                                         *)
Complete ==
  (lastPage /\ ~ unread /\ ~ EnoughOf(yielded)) =>
    \A e \in Kept \cap first : Requested(e) => HasRead(e)

(* The loops end, whatever fails and however often: also while the service *)
(* keeps failing, since only an answer starts the count of resumptions     *)
(* again.                                                                  *)
ReadingEnds == <>(status # "reading")

=============================================================================
