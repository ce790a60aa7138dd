------------------------------ MODULE Downloads ------------------------------
(***************************************************************************)
(* The download page's transfers: DownTableWidget.startDownload and its    *)
(* slots (ui/DownTableWidget.py), the DownloaderThread that starts the     *)
(* Downloader threads in groups (logic/DownloaderThread.py), and each      *)
(* Downloader running urllib.urlretrieve with its report hook              *)
(* (logic/Downloader.py).  The downloaders talk to the GUI thread only    *)
(* through queued signals, one FIFO queue.                                 *)
(*                                                                         *)
(* A file is Blocks blocks long.  urlretrieve calls the hook once before  *)
(* the first block and once after every block; the header decides what  *)
(* the hook sees as totalSize: "len" a Content-Length, "zero" a           *)
(* Content-Length of 0 (an empty body), "none" no Content-Length, which   *)
(* urlretrieve passes as -1.                                               *)
(***************************************************************************)
EXTENDS Naturals, Sequences, FiniteSets

CONSTANTS N,          \* number of INSTALL nodes, one download each
          GroupSize,  \* groupSize of DownloaderThread.run
          Blocks,     \* blocks of a non-empty file
          Headers,    \* the totalSize cases a server may produce
          NetMayFail  \* whether urlretrieve may raise

ASSUME N \in Nat /\ GroupSize \in Nat \ {0} /\ Blocks \in Nat \ {0}
       /\ Headers \subseteq {"len", "zero", "none"} /\ NetMayFail \in BOOLEAN

Files == 1..N

VARIABLES header,     \* what the server sends for every file
          dstate,     \* Downloader: "idle", "open", "reading", "done", "failed"
          read,       \* blocks written so far
          dtCount,    \* DownloaderThread.run: the loop variable count
          dtPhase,    \* "off", "start", "wait", "done"
          dtPos,      \* position in the current group
          events,     \* the GUI thread's queue of signals
          started,    \* DownTableWidget.startDownload has run
          number,     \* DownTableWidget.number
          index,      \* DownTableWidget.index
          nextEnabled,
          errShown    \* a "Download Error!" box was shown

vars == <<header, dstate, read, dtCount, dtPhase, dtPos, events, started,
          number, index, nextEnabled, errShown>>

\* Variant for mutation checks: range(len/groupSize) drops the last group.
LastGroupShort == N \div GroupSize - 1

\* range((len(self.downloaders)/groupSize) + 1): the last value of count.
LastGroup == N \div GroupSize

\* self.downloaders[count*groupSize : min(count*groupSize+groupSize, len)]
Group(c) == LET lo == c * GroupSize
                hi == IF lo + GroupSize < N THEN lo + GroupSize ELSE N
            IN [i \in 1..(hi - lo) |-> lo + i]

TypeOK ==
    /\ header \in [Files -> Headers]
    /\ dstate \in [Files -> {"idle", "open", "reading", "done", "failed"}]
    /\ read \in [Files -> 0..Blocks]
    /\ dtCount \in 0..(LastGroup + 1)
    /\ dtPhase \in {"off", "start", "wait", "done"}
    /\ dtPos \in 1..(GroupSize + 1)
    /\ events \in Seq({"completed", "error"})
    /\ started \in BOOLEAN
    /\ number \in 0..N /\ index \in Nat
    /\ nextEnabled \in BOOLEAN /\ errShown \in BOOLEAN

Init == /\ header \in [Files -> Headers]
        /\ dstate = [f \in Files |-> "idle"]
        /\ read = [f \in Files |-> 0]
        /\ dtCount = 0 /\ dtPhase = "off" /\ dtPos = 1
        /\ events = <<>>
        /\ started = FALSE /\ number = 0 /\ index = 0
        /\ nextEnabled = FALSE /\ errShown = FALSE

-----------------------------------------------------------------------------
(* GUI thread *)

\* startDownload: number is the count of INSTALL nodes; with none, Next is
\* enabled at once, otherwise a row and a Downloader per node, then dt.start().
StartDownload ==
    /\ ~started
    /\ started' = TRUE
    /\ number' = N
    /\ IF N = 0 THEN /\ nextEnabled' = TRUE
                     /\ UNCHANGED dtPhase
                ELSE /\ dtPhase' = "start"
                     /\ UNCHANGED nextEnabled
    /\ UNCHANGED <<header, dstate, read, dtCount, dtPos, events, index, errShown>>

\* Variant for mutation checks: Next enabled one completion early.
OnCompletedEarly ==
    /\ events # <<>> /\ Head(events) = "completed"
    /\ events' = Tail(events)
    /\ index' = index + 1
    /\ IF index' >= number - 1 THEN nextEnabled' = TRUE ELSE UNCHANGED nextEnabled
    /\ UNCHANGED <<header, dstate, read, dtCount, dtPhase, dtPos, started,
                   number, errShown>>

\* manageCompletion: count the signal; on reaching number, the
\* "Download Completed" box and Next enabled.
OnCompleted ==
    /\ events # <<>> /\ Head(events) = "completed"
    /\ events' = Tail(events)
    /\ index' = index + 1
    /\ IF index' = number THEN nextEnabled' = TRUE ELSE UNCHANGED nextEnabled
    /\ UNCHANGED <<header, dstate, read, dtCount, dtPhase, dtPos, started,
                   number, errShown>>

\* manageDownError: a "Download Error!" box; no button is enabled again.
OnDownError ==
    /\ events # <<>> /\ Head(events) = "error"
    /\ events' = Tail(events)
    /\ errShown' = TRUE
    /\ UNCHANGED <<header, dstate, read, dtCount, dtPhase, dtPos, started,
                   number, index, nextEnabled>>

-----------------------------------------------------------------------------
(* DownloaderThread *)

\* down.start() for the next Downloader of the current group.
DtStart ==
    /\ dtPhase = "start" /\ dtPos <= Len(Group(dtCount))
    /\ dstate' = [dstate EXCEPT ![Group(dtCount)[dtPos]] = "open"]
    /\ dtPos' = dtPos + 1
    /\ UNCHANGED <<header, read, dtCount, dtPhase, events, started, number,
                   index, nextEnabled, errShown>>

\* Variant for mutation checks: wait() returns before the thread ends.
DtWaitSkip ==
    /\ dtPhase = "wait" /\ dtPos <= Len(Group(dtCount))
    /\ dtPos' = dtPos + 1
    /\ UNCHANGED <<header, dstate, read, dtCount, dtPhase, events, started,
                   number, index, nextEnabled, errShown>>

\* down.wait() for the next Downloader of the group: it returns when run ends.
DtWait ==
    /\ dtPhase = "wait" /\ dtPos <= Len(Group(dtCount))
    /\ dstate[Group(dtCount)[dtPos]] \in {"done", "failed"}
    /\ dtPos' = dtPos + 1
    /\ UNCHANGED <<header, dstate, read, dtCount, dtPhase, events, started,
                   number, index, nextEnabled, errShown>>

\* Variant for mutation checks: the outer loop has no last value of count.
DtNextEndless ==
    /\ dtPhase \in {"start", "wait"} /\ dtPos > Len(Group(dtCount))
    /\ dtPos' = 1
    /\ IF dtPhase = "start"
       THEN dtPhase' = "wait" /\ UNCHANGED dtCount
       ELSE dtCount' = dtCount + 1 /\ dtPhase' = "start"
    /\ UNCHANGED <<header, dstate, read, events, started, number, index,
                   nextEnabled, errShown>>

\* The end of a loop over the group: from starting to waiting, or on to the
\* next value of count, or out of run.
DtNext ==
    /\ dtPhase \in {"start", "wait"} /\ dtPos > Len(Group(dtCount))
    /\ dtPos' = 1
    /\ IF dtPhase = "start"
       THEN dtPhase' = "wait" /\ UNCHANGED dtCount
       ELSE /\ dtCount' = dtCount + 1
            /\ dtPhase' = IF dtCount + 1 > LastGroup THEN "done" ELSE "start"
    /\ UNCHANGED <<header, dstate, read, events, started, number, index,
                   nextEnabled, errShown>>

-----------------------------------------------------------------------------
(* Downloader f *)

\* The hook before the first block.  totalSize 0 emits downloadingError and
\* the empty body ends the transfer; otherwise setValue(0), or a negative
\* percent when totalSize is -1.
Begin(f) ==
    /\ dstate[f] = "open"
    /\ IF header[f] = "zero"
       THEN dstate' = [dstate EXCEPT ![f] = "done"] /\ events' = Append(events, "error")
       ELSE dstate' = [dstate EXCEPT ![f] = "reading"] /\ UNCHANGED events
    /\ UNCHANGED <<header, read, dtCount, dtPhase, dtPos, started, number,
                   index, nextEnabled, errShown>>

\* One block written, then the hook: percent = count*blockSize*100/totalSize
\* capped at 100 reaches 100 with the last full block, which emits
\* downloadCompleted; with totalSize -1 the percent is negative.  After the
\* last block urlretrieve returns.
ReadBlock(f) ==
    /\ dstate[f] = "reading" /\ read[f] < Blocks
    /\ read' = [read EXCEPT ![f] = @ + 1]
    /\ dstate' = [dstate EXCEPT ![f] = IF read[f] + 1 = Blocks THEN "done" ELSE "reading"]
    /\ events' = IF header[f] = "len" /\ read[f] + 1 = Blocks
                 THEN Append(events, "completed") ELSE events
    /\ UNCHANGED <<header, dtCount, dtPhase, dtPos, started, number, index,
                   nextEnabled, errShown>>

\* urlretrieve raises: run's except emits downloadingError.
Fail(f) ==
    /\ NetMayFail /\ dstate[f] \in {"open", "reading"}
    /\ dstate' = [dstate EXCEPT ![f] = "failed"]
    /\ events' = Append(events, "error")
    /\ UNCHANGED <<header, read, dtCount, dtPhase, dtPos, started, number,
                   index, nextEnabled, errShown>>

-----------------------------------------------------------------------------
Downloader(f) == Begin(f) \/ ReadBlock(f) \/ Fail(f)
Dt  == DtStart \/ DtWait \/ DtNext
Gui == StartDownload \/ OnCompleted \/ OnDownError

Next == Gui \/ Dt \/ \E f \in Files : Downloader(f)

\* Every thread is scheduled while it can run; Fail is one of the ways a
\* Downloader can move and is never forced.
Spec == /\ Init /\ [][Next]_vars
        /\ WF_vars(Gui) /\ WF_vars(Dt)
        /\ \A f \in Files : WF_vars(Begin(f) \/ ReadBlock(f))

-----------------------------------------------------------------------------
\* DownloaderThread.run never has more Downloaders transferring at once than
\* groupSize: it waits for a whole group before starting the next.
GroupBound ==
    Cardinality({f \in Files : dstate[f] \in {"open", "reading"}}) <= GroupSize

\* manageCompletion enables Next only when every archive has been written in
\* full: the counter of downloadCompleted signals reaches number only when
\* every Downloader has finished with a complete file.
NextMeansDownloaded ==
    nextEnabled => \A f \in Files : dstate[f] = "done" /\ header[f] = "len"

\* Once startDownload runs, the user is eventually told the outcome: Next
\* is enabled after the last downloadCompleted, or a "Download Error!" box
\* is shown.
OutcomeReported == <>(nextEnabled \/ errShown)
=============================================================================
