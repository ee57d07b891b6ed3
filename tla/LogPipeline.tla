---------------------------- MODULE LogPipeline ----------------------------
(***************************************************************************)
(* The way of a service's output into the persistent log.  On the host: the*)
(* process writes lines to two pipes, two goroutines scan them into one    *)
(* bounded buffer, and whoever reads the buffer takes what is in it: the   *)
(* collector every few seconds, or the Logs RPC.  The runtime forgets the  *)
(* buffer when it removes the service's entry: then only those that had    *)
(* asked for it before can read it.  With Docker the output stays where it *)
(* is and the collector asks for what is new.  The store keeps one file    *)
(* per day.                                                                *)
(*                                                                         *)
(* A line is two tokens, its beginning and its rest, because the collector *)
(* reads the first bytes apart from the others.                            *)
(***************************************************************************)
EXTENDS Naturals, Sequences, FiniteSets, SequencesExt

CONSTANTS
  MaxLines,    \* bound: lines written
  Programs,    \* the services considered: per line, to which stream it is written
  PipeMax,     \* tokens a pipe holds
  BufMax,      \* tokens the log buffer holds (256 KB)
  TailMax,     \* lines a poll asks of Docker (50)
  MaxDay,      \* bound: days
  KeepDays,    \* days a file is kept by Rotate (30)
  MaxSize,     \* tokens of a day's file above which it is rotated (50 MB)
  MaxStored,   \* bound: tokens in the files before a poll of Docker
  MaxViews,    \* bound: Logs calls
  MaxRotations \* bound: calls of Rotate and Clear, and appends that fail

Stream == {"stdout", "stderr"}

ASSUME LogAssumption ==
  /\ {MaxLines, PipeMax, BufMax, TailMax, MaxDay, KeepDays, MaxSize, MaxStored, MaxViews, MaxRotations} \subseteq Nat
  /\ BufMax >= 2 /\ PipeMax >= 2 /\ TailMax >= 1
  /\ Programs \subseteq [1..MaxLines -> Stream]

VARIABLES
  kind,       \* "host" or "docker"
  stream,     \* per line: the service writes it to stdout or to stderr
  written,    \* lines the service has written
  process,    \* "up", "ended", "waited" (Wait has closed the pipe)
  pipe,       \* per stream: tokens on their way to its scanner
  scanner,    \* per stream: "on", or "stuck" after a line that is too long for it
  removed,    \* the runtime has forgotten the service (RemoveContainer)
  buf,        \* the log buffer
  collector,  \* control point, batch in hand, last timestamp, told to stop?
  day,
  file,       \* per day: what <day>.log holds
  rotated,    \* per day: what <day>.log.1 holds
  viewer,     \* a Logs call: is it reading?
  shown,      \* tokens sent to clients of Logs
  lost,       \* history: tokens nobody will see again
  skipped,    \* history: a poll of Docker could not reach back to the last one
  views, rotations

logVars == <<kind, stream, written, process, pipe, scanner, removed, buf, collector, day, file, rotated,
             viewer, shown, lost, skipped, views, rotations>>

Token == 1..(2 * MaxLines)
Tokens(n) == <<2 * n - 1, 2 * n>>
LineOf(t) == (t + 1) \div 2
Lines(from, to) == [k \in 1..(2 * (to - from + 1)) |-> 2 * (from - 1) + k]
Day == 0..MaxDay

LogTypeOK ==
  /\ kind \in {"host", "docker"} /\ written \in 0..MaxLines
  /\ stream \in [1..MaxLines -> Stream]
  /\ process \in {"up", "ended", "waited"} /\ scanner \in [Stream -> {"on", "stuck"}]
  /\ pipe \in [Stream -> Seq(Token)] /\ \A s \in Stream : Len(pipe[s]) <= PipeMax
  /\ removed \in BOOLEAN
  /\ buf \in Seq(Token) /\ Len(buf) <= BufMax
  /\ collector \in [pc : {"idle", "open", "peeked", "append", "ended"}, batch : Seq(Token),
                    last : 0..MaxLines, done : BOOLEAN]
  /\ file \in [Day -> Seq(Token)] /\ rotated \in [Day -> Seq(Token)]
  /\ day \in Day /\ viewer \in BOOLEAN /\ skipped \in BOOLEAN
  /\ shown \in Seq(Token) /\ lost \subseteq Token
  /\ views \in 0..MaxViews /\ rotations \in 0..MaxRotations

LogInit ==
  /\ kind \in {"host", "docker"} /\ stream \in Programs
  /\ written = 0 /\ process = "up" /\ removed = FALSE /\ buf = <<>>
  /\ pipe = [s \in Stream |-> <<>>] /\ scanner = [s \in Stream |-> "on"]
  /\ collector = [pc |-> "idle", batch |-> <<>>, last |-> 0, done |-> FALSE]
  /\ day = 0 /\ file = [d \in Day |-> <<>>] /\ rotated = [d \in Day |-> <<>>]
  /\ viewer = FALSE /\ shown = <<>> /\ lost = {} /\ skipped = FALSE
  /\ views = 0 /\ rotations = 0

Stored == FlattenSeq([k \in 1..(MaxDay + 1) |-> rotated[k - 1] \o file[k - 1]])

Source == <<kind, stream, written, process, pipe, scanner, removed>>
Disk == <<day, file, rotated>>
History == <<lost, skipped, views, rotations>>

-----------------------------------------------------------------------------
(* The service and the goroutines around it *)

\* A full pipe makes the process wait.  Docker keeps one log of both streams.
Write ==
  LET n == written + 1
      s == stream[n]
  IN /\ process = "up" /\ written < MaxLines
     /\ written' = n
     /\ \/ /\ kind = "host" /\ Len(pipe[s]) + 2 <= PipeMax
           /\ pipe' = [pipe EXCEPT ![s] = @ \o Tokens(n)]
        \/ kind = "docker" /\ ~removed /\ UNCHANGED pipe
  /\ UNCHANGED <<kind, stream, process, scanner, removed, buf, collector, Disk, viewer,
                 shown, History>>

\* The buffer can be read by those that found it in the runtime's table, and by
\* those that find it there now.
Reachable == ~removed \/ collector.pc \in {"open", "peeked"} \/ viewer

\* logBuffer.Write: what does not fit any more is cut off at the front.
Kept(s) == IF Len(s) <= BufMax THEN s ELSE SubSeq(s, Len(s) - BufMax + 1, Len(s))

\* Mutant: a full buffer refuses what is new, and nobody is told.
ScanFull(s) ==
  /\ Len(pipe[s]) > 0 /\ scanner[s] = "on"
  /\ buf' = IF Len(buf) + 2 > BufMax THEN buf ELSE buf \o SubSeq(pipe[s], 1, 2)
  /\ pipe' = [pipe EXCEPT ![s] = SubSeq(@, 3, Len(@))]
  /\ UNCHANGED <<kind, stream, written, process, scanner, removed, collector, Disk, viewer,
                 shown, History>>

\* One goroutine for each stream writes a line to the buffer, although nobody may
\* ever read it there.
Scan(s) ==
  /\ Len(pipe[s]) > 0 /\ scanner[s] = "on"
  /\ LET all == buf \o SubSeq(pipe[s], 1, 2) IN
       /\ buf' = IF Reachable THEN Kept(all) ELSE <<>>
       /\ lost' = lost \cup (ToSet(all) \ ToSet(buf'))
  /\ pipe' = [pipe EXCEPT ![s] = SubSeq(@, 3, Len(@))]
  /\ UNCHANGED <<kind, stream, written, process, scanner, removed, collector, Disk, viewer,
                 shown, skipped, views, rotations>>

\* bufio.Scanner gives up at a line of more than 64 KB, and nobody reads on.
ScanTooLong(s) ==
  /\ Len(pipe[s]) > 0 /\ scanner[s] = "on"
  /\ scanner' = [scanner EXCEPT ![s] = "stuck"]
  /\ lost' = lost \cup {pipe[s][1], pipe[s][2]}
  /\ pipe' = [pipe EXCEPT ![s] = SubSeq(@, 3, Len(@))]
  /\ UNCHANGED <<kind, stream, written, process, removed, buf, collector, Disk, viewer, shown,
                 skipped, views, rotations>>

ProcessEnds ==
  /\ process = "up" /\ process' = "ended"
  /\ UNCHANGED <<kind, stream, written, pipe, scanner, removed, buf, collector, Disk, viewer,
                 shown, History>>

\* Wait closes the pipes although the scanners may not have read them to their end.
WaitReturns ==
  /\ process = "ended" /\ process' = "waited"
  /\ pipe' = [s \in Stream |-> <<>>]
  /\ lost' = lost \cup (UNION {ToSet(pipe[s]) : s \in Stream})
  /\ UNCHANGED <<kind, stream, written, scanner, removed, buf, collector, Disk, viewer, shown,
                 skipped, views, rotations>>

\* cleanup, Stop, Reset, or the next Start removes the service, while its process may
\* still write (it is killed, or its children live on) and its collector still runs.
\* What is in the buffer is there only for those that read it already.
RemoveContainer ==
  /\ ~removed /\ removed' = TRUE
  /\ IF collector.pc \in {"open", "peeked"} \/ viewer
       THEN UNCHANGED <<buf, lost>>
       ELSE buf' = <<>> /\ lost' = lost \cup ToSet(buf)
  /\ UNCHANGED <<kind, stream, written, process, pipe, scanner, collector, Disk, viewer,
                 shown, skipped, views, rotations>>

-----------------------------------------------------------------------------
(* Collector.Start and collectOnce *)

\* A tick on the host: StreamLogs finds the buffer, if it was not removed.
Open ==
  /\ kind = "host" /\ collector.pc = "idle" /\ ~removed
  /\ collector' = [collector EXCEPT !.pc = "open"]
  /\ UNCHANGED <<Source, buf, Disk, viewer, shown, History>>

\* The first bytes, if there are any, to tell Docker's frames from text ...
Peek ==
  /\ collector.pc = "open"
  /\ IF buf = <<>>
       THEN collector' = [collector EXCEPT !.pc = "idle"] /\ UNCHANGED buf
       ELSE /\ collector' = [collector EXCEPT !.pc = "peeked", !.batch = <<buf[1]>>]
            /\ buf' = Tail(buf)
  /\ UNCHANGED <<Source, Disk, viewer, shown, History>>


\* ... and then the rest.
ReadAll ==
  /\ collector.pc = "peeked"
  /\ collector' = [collector EXCEPT !.pc = "append", !.batch = @ \o buf]
  /\ buf' = <<>>
  /\ UNCHANGED <<Source, Disk, viewer, shown, History>>

Bigger(a, b) == IF a > b THEN a ELSE b

\* Mutant: the timestamp is that of the time of asking, not of the last line.
PollSinceNow ==
  /\ kind = "docker" /\ collector.pc = "idle" /\ ~removed /\ written > 0
  /\ Len(Stored) < MaxStored
  /\ \E now \in written..MaxLines :
       LET from == Bigger(Bigger(collector.last, 1), (written + 1) - TailMax)
       IN  /\ collector' = [collector EXCEPT !.pc = "append", !.last = now,
                                             !.batch = IF from > written THEN <<>> ELSE Lines(from, written)]
           /\ skipped' = (skipped \/ from > collector.last + 1)
  /\ UNCHANGED <<Source, buf, Disk, viewer, shown, lost, views, rotations>>

\* A tick with Docker: the last lines since the timestamp of the last one, which
\* is among them again.
Poll ==
  /\ kind = "docker" /\ collector.pc = "idle" /\ ~removed /\ written > 0
  /\ Len(Stored) < MaxStored
  /\ LET since == Bigger(collector.last, 1)
         from == Bigger(since, (written + 1) - TailMax)
     IN  /\ collector' = [collector EXCEPT !.pc = "append", !.last = written,
                                           !.batch = Lines(from, written)]
         /\ skipped' = (skipped \/ from > collector.last + 1)
  /\ UNCHANGED <<Source, buf, Disk, viewer, shown, lost, views, rotations>>

\* Mutant: every batch is written to the front of the file, without O_APPEND.
AppendInFront ==
  /\ collector.pc = "append"
  /\ file' = [file EXCEPT ![day] = collector.batch \o @]
  /\ collector' = [collector EXCEPT !.pc = "idle", !.batch = <<>>]
  /\ UNCHANGED <<Source, buf, day, rotated, viewer, shown, History>>

AppendBatch ==
  /\ collector.pc = "append"
  /\ file' = [file EXCEPT ![day] = @ \o collector.batch]
  /\ collector' = [collector EXCEPT !.pc = "idle", !.batch = <<>>]
  /\ UNCHANGED <<Source, buf, day, rotated, viewer, shown, History>>

\* The file cannot be opened or written: nobody looks at the error.
AppendFails ==
  /\ collector.pc = "append"
  /\ rotations < MaxRotations /\ rotations' = rotations + 1
  /\ lost' = lost \cup ToSet(collector.batch)
  /\ collector' = [collector EXCEPT !.pc = "idle", !.batch = <<>>]
  /\ UNCHANGED <<Source, buf, Disk, viewer, shown, skipped, views>>

\* Orchestrator.Stop closes done; the goroutine sees it when it next waits, or
\* takes a tick that has come too.
StopCollector ==
  /\ ~collector.done
  /\ collector' = [collector EXCEPT !.done = TRUE]
  /\ UNCHANGED <<Source, buf, Disk, viewer, shown, History>>

CollectorEnds ==
  /\ collector.pc = "idle" /\ collector.done
  /\ collector' = [collector EXCEPT !.pc = "ended"]
  /\ UNCHANGED <<Source, buf, Disk, viewer, shown, History>>

-----------------------------------------------------------------------------
(* The Logs RPC on the host *)

View ==
  /\ kind = "host" /\ ~removed /\ ~viewer /\ views < MaxViews
  /\ viewer' = TRUE /\ views' = views + 1
  /\ UNCHANGED <<Source, buf, collector, Disk, shown, lost, skipped, rotations>>

\* It takes what there is; nothing is the end of the stream, with --follow too.
ViewRead ==
  /\ viewer
  /\ viewer' = (buf # <<>>)
  /\ shown' = shown \o buf
  /\ buf' = <<>>
  /\ UNCHANGED <<Source, collector, Disk, History>>

\* The client is gone: what was read for it is sent to nobody.
ViewFails ==
  /\ viewer /\ viewer' = FALSE
  /\ lost' = lost \cup ToSet(buf)
  /\ buf' = <<>>
  /\ UNCHANGED <<Source, collector, Disk, shown, skipped, views, rotations>>

-----------------------------------------------------------------------------
(* The files *)

DayEnds ==
  /\ day < MaxDay /\ day' = day + 1
  /\ UNCHANGED <<Source, buf, collector, file, rotated, viewer, shown, History>>

\* The days whose file is too big, and those whose file is too old, of which the
\* first are no longer there.
rotateFile == {d \in Day : Len(file[d]) > MaxSize}
cleanupOldLogs == {d \in Day : d + KeepDays < day} \ rotateFile

\* Rotate: a file that is too big becomes <day>.log.1, over one that is there,
\* then files of more than KeepDays ago are removed.
Rotate ==
  /\ rotations < MaxRotations /\ rotations' = rotations + 1
  /\ rotated' = [d \in Day |-> IF d \in rotateFile THEN file[d] ELSE rotated[d]]
  /\ file' = [d \in Day |-> IF d \in rotateFile \cup cleanupOldLogs THEN <<>> ELSE file[d]]
  /\ lost' = lost \cup (UNION {ToSet(rotated[d]) : d \in rotateFile})
                  \cup (UNION {ToSet(file[d]) : d \in cleanupOldLogs})
  /\ UNCHANGED <<Source, buf, collector, day, viewer, shown, skipped, views>>

\* Clear removes the files of a project, without the store's mutex.
Clear ==
  /\ rotations < MaxRotations /\ rotations' = rotations + 1
  /\ file' = [d \in Day |-> <<>>] /\ rotated' = [d \in Day |-> <<>>]
  /\ lost' = lost \cup ToSet(Stored)
  /\ UNCHANGED <<Source, buf, collector, day, viewer, shown, skipped, views>>

\* Read since a day, at most so many tokens (0: all): the files in the order of
\* their names, which is that of their days.
Read(since, limit) ==
  LET all == FlattenSeq([k \in 1..((MaxDay + 1) - since) |-> file[since + k - 1]])
  IN  IF limit > 0 /\ Len(all) > limit THEN SubSeq(all, Len(all) - limit + 1, Len(all)) ELSE all

-----------------------------------------------------------------------------
Collect == Open \/ Peek \/ ReadAll \/ Poll \/ AppendBatch \/ AppendFails \/ CollectorEnds

LogNext ==
  \/ Write \/ ProcessEnds \/ WaitReturns \/ RemoveContainer
  \/ \E s \in Stream : Scan(s) \/ ScanTooLong(s)
  \/ Collect \/ StopCollector \/ View \/ ViewRead \/ ViewFails \/ DayEnds \/ Rotate \/ Clear

\* Tickers tick.
LogSpec == LogInit /\ [][LogNext]_logVars /\ WF_logVars(Collect)

-----------------------------------------------------------------------------
Places == Stored \o shown \o collector.batch \o buf \o pipe["stdout"] \o pipe["stderr"]
Count(t) == Cardinality({k \in DOMAIN Places : Places[k] = t})

\* On the host every piece of output is in exactly one place: stored, shown, on
\* its way, or lost to one of the causes that lose it (the buffer overflows, a
\* line is too long, Wait closes the pipes, the runtime forgets the service with
\* what is in its buffer or comes into it later, a client of Logs is gone, the file
\* cannot be written, files are rotated away or cleared); nothing is stored twice
\* and nothing vanishes between two readers.
Accounted ==
  kind = "host" =>
    \A t \in 1..(2 * written) :
      Count(t) + (IF t \in lost THEN 1 ELSE 0) = 1

StreamOf(t) == stream[LineOf(t)]

\* What is read back is, for stdout and for stderr, in the order in which it was
\* written, across polls, days, rotations and other readers (the lines of one may
\* overtake those of the other); with Docker only the last line of a poll comes
\* again, as the first of the next.
ReadInOrder ==
  \A since \in Day :
    LET s == Read(since, 0) IN
    IF kind = "host"
      THEN \A i, j \in DOMAIN s : i < j /\ StreamOf(s[i]) = StreamOf(s[j]) => s[i] < s[j]
      ELSE \A i \in 1..(Len(s) - 1) : s[i] < s[i + 1] \/ s[i + 1] \in {s[i], s[i] - 1}

\* With Docker no line is left out as long as no poll finds more than it asks for.
NoGap ==
  kind = "docker" /\ ~skipped /\ lost = {} =>
    ToSet(Stored) \cup ToSet(collector.batch) = 1..(2 * collector.last)


\* The last lines of a service that has ended can be read (DevBoxOS_Testing_Strategy.md:
\* "exit code and last log lines"): what it wrote is not lost, if the buffer is large
\* enough, no line too long, no client gone, no file rotated and the service still known.
LastOutput ==
  process = "waited" /\ ~removed /\ views = 0 /\ rotations = 0 /\ 2 * written <= BufMax
  /\ (\A s \in Stream : scanner[s] = "on") => lost = {}

\* The state is of its type, and every piece of output is accounted for.
LogInv == LogTypeOK /\ Accounted
=============================================================================
