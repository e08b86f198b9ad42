------------------------------- MODULE StatusLog -------------------------------
(***************************************************************************)
(* How a job's progress events travel: emit() of prover_events.py appends  *)
(* a line to a JSONL file, StatusTailer of the server (jobs/statuslog.py)  *)
(* reads what is new in the files about once a second, and a last time     *)
(* when the prover's leader has exited (jobs/runner.py:154-176).           *)
(*                                                                         *)
(* A worker emits from two threads: its own work, and the Timer of         *)
(* _arm_wall_clock, which says worker_timeout and then exits the process.  *)
(* emit() takes no lock; its counter _seq, which both increment, goes into *)
(* the lines, but nothing reads it there, and it is not modelled.          *)
(*                                                                         *)
(* A line of the file is three cells: its text up to the first byte of a   *)
(* multi-byte character (Lean is full of them, and json.dumps keeps them), *)
(* the rest, and the newline.  A reader may see any prefix of an append,   *)
(* and a writer may die or run out of disk after any of it.  Two appends   *)
(* to one file do not mix: the kernel holds the inode for each write.      *)
(***************************************************************************)
EXTENDS Integers, FiniteSets, Sequences

CONSTANTS Leader,        \* the prover script's own process
          Workers,       \* the processes it starts
          StartMethods,  \* multiprocessing: "fork" on Linux, "spawn" elsewhere
          MaxEvents,     \* events a thread may emit (bound)
          MaxTotal,      \* events in all (bound)
          Unresolved,    \* _status_path has not been called
          NoFile         \* ... has failed

ASSUME ProcsAssumption == Leader \notin Workers
ASSUME StartMethodsAssumption == StartMethods \subseteq {"fork", "spawn"}
ASSUME MaxEventsAssumption == MaxEvents \in Nat \ {0}
ASSUME MaxTotalAssumption == MaxTotal \in Nat
ASSUME PathsAssumption ==
  /\ Unresolved # NoFile
  /\ {Unresolved, NoFile} \cap (Workers \cup {Leader}) = {}

Procs == Workers \cup {Leader}
Files == Procs     \* w<pid>.jsonl, named for the process that resolved it
Threads == (Procs \X {"main"}) \cup (Workers \X {"timer"})

VARIABLES
  method,    \* the start method
  status,    \* of each process: "unborn", "running", "dead"
  path,      \* prover_events._path of each process
  emitted,   \* history: the events each thread has begun to append
  writing,   \* the cells of its current append that are still to come
  file,      \* the contents of each file
  offset,    \* StatusTailer._offsets
  partial,   \* StatusTailer._partial, decoded
  applied,   \* history: the events given to apply(), in order
  cuts,      \* history: the events of each file inside which a read ended
  atExit,    \* history: the length of each file when the leader exited
  watching,  \* the runner: "polling", "draining" after the exit, then "over"
  todo,      \* the files the final poll has still to look at
  unread     \* history: the files it passed over for an OSError

writers == <<method, status, path, emitted, writing, file>>
texts   == <<offset, partial, applied, cuts>>
reader  == <<texts, watching, todo, unread>>
vars    == <<writers, reader, atExit>>

Events == Threads \X (1..MaxEvents)
Parts  == {"head", "tail", "nl"}
Cells  == [event : Events, part : Parts]
Chars  == [event : Events, part : Parts, whole : BOOLEAN]

TypeOK ==
  /\ method \in StartMethods
  /\ status \in [Procs -> {"unborn", "running", "dead"}]
  /\ path \in [Procs -> Files \cup {Unresolved, NoFile}]
  /\ emitted \in [Threads -> 0..MaxEvents]
  /\ writing \in [Threads -> Seq(Cells)] /\ file \in [Files -> Seq(Cells)]
  /\ offset \in [Files -> Nat] /\ partial \in [Files -> Seq(Chars)]
  /\ applied \in Seq([file : Files, event : Events, whole : BOOLEAN])
  /\ cuts \in [Files -> SUBSET Events] /\ atExit \in [Files -> Nat]
  /\ watching \in {"polling", "draining", "over"}
  /\ todo \in SUBSET Files /\ unread \in SUBSET Files
  /\ \A f \in Files : offset[f] <= Len(file[f])

Init ==
  /\ method \in StartMethods
  /\ status = [p \in Procs |-> IF p = Leader THEN "running" ELSE "unborn"]
  /\ path = [p \in Procs |-> Unresolved]
  /\ emitted = [t \in Threads |-> 0]
  /\ writing = [t \in Threads |-> <<>>]
  /\ file = [f \in Files |-> <<>>]
  /\ offset = [f \in Files |-> 0] /\ partial = [f \in Files |-> <<>>]
  /\ applied = <<>> /\ cuts = [f \in Files |-> {}]
  /\ atExit = [f \in Files |-> 0]
  /\ watching = "polling" /\ todo = {} /\ unread = {}

-----------------------------------------------------------------------------
(* The prover's processes *)

LineOf(e) == <<[event |-> e, part |-> "head"], [event |-> e, part |-> "tail"],
               [event |-> e, part |-> "nl"]>>

InAppend(f) == \E t \in Threads : path[t[1]] = f /\ writing[t] # <<>>

(* _status_path(): resolved once, also when that fails *)
Resolve(p) ==
  IF path[p] = Unresolved THEN path' \in {[path EXCEPT ![p] = q] : q \in {p, NoFile}}
                          ELSE UNCHANGED path

(* The clock is armed once emit("worker_start") has returned. *)
Armed(w) ==
  LET main == <<w, "main">>
  IN path[w] # Unresolved /\ (emitted[main] > 1 \/ (emitted[main] = 1 /\ writing[main] = <<>>))

Emits(t) ==
  /\ status[t[1]] = "running" /\ writing[t] = <<>> /\ emitted[t] < MaxEvents
  /\ Cardinality({e \in Events : e[2] <= emitted[e[1]]}) < MaxTotal
  /\ Resolve(t[1])
  /\ IF path'[t[1]] = NoFile THEN UNCHANGED <<emitted, writing>>
     ELSE /\ ~InAppend(path'[t[1]])
          /\ emitted' = [emitted EXCEPT ![t] = @ + 1]
          /\ writing' = [writing EXCEPT ![t] = LineOf(<<t, emitted[t] + 1>>)]
  /\ UNCHANGED <<method, status, file, reader, atExit>>

(***************************************************************************)
(* emit() up to the write, by a main thread or, beside it, by the Timer,   *)
(* whose function emits once.  Without a path it returns at once and       *)
(* counts nothing.                                                         *)
(***************************************************************************)
Emit(t) ==
  /\ t[2] = "timer" => Armed(t[1]) /\ emitted[t] = 0
  /\ Emits(t)

Write(t) ==
  /\ writing[t] # <<>>
  /\ file' = [file EXCEPT ![path[t[1]]] = Append(@, Head(writing[t]))]
  /\ writing' = [writing EXCEPT ![t] = Tail(@)]
  /\ UNCHANGED <<method, status, path, emitted, reader, atExit>>

(* The append raises in the middle; emit() swallows it. *)
WriteFails(t) ==
  /\ writing[t] # <<>>
  /\ writing' = [writing EXCEPT ![t] = <<>>]
  /\ UNCHANGED <<method, status, path, emitted, file, reader, atExit>>

(***************************************************************************)
(* run_until_first_success after emit("run_start"): a forked worker has    *)
(* the leader's module state, and in it the leader's path.                 *)
(***************************************************************************)
StartWorker(w) ==
  /\ status[Leader] = "running" /\ path[Leader] # Unresolved
  /\ writing[<<Leader, "main">>] = <<>>
  /\ status[w] = "unborn"
  /\ status' = [status EXCEPT ![w] = "running"]
  /\ path' = IF method = "fork" THEN [path EXCEPT ![w] = path[Leader]] ELSE path
  /\ UNCHANGED <<method, emitted, writing, file, reader, atExit>>

(* A process ends, its threads wherever they are in an append. *)
Stops(p) ==
  /\ status[p] = "running"
  /\ status' = [status EXCEPT ![p] = "dead"]
  /\ writing' = [t \in Threads |-> IF t[1] = p THEN <<>> ELSE writing[t]]
  /\ atExit' = IF p = Leader THEN [f \in Files |-> Len(file[f])] ELSE atExit
  /\ UNCHANGED <<method, path, emitted, file, reader>>

Dies(p) == Stops(p)   \* it returns, or is terminated or killed

(***************************************************************************)
(* expire(): its emit() has returned, whatever came of the line, and it    *)
(* calls os._exit(2), perhaps in the middle of the main thread's append.   *)
(***************************************************************************)
Expires(w) ==
  LET timer == <<w, "timer">>
  IN /\ path[w] = NoFile \/ (emitted[timer] = 1 /\ writing[timer] = <<>>)
     /\ Stops(w)

-----------------------------------------------------------------------------
(* StatusTailer *)

DecodeByBlocks(chunk) ==   \* mutant: read and decoded in blocks of a fixed size
  [i \in DOMAIN chunk |->
    [event |-> chunk[i].event, part |-> chunk[i].part, whole |-> chunk[i].part = "nl"]]

(* chunk.decode("utf-8", "replace"): a character cut in two is two U+FFFD. *)
Decode(chunk) ==
  [i \in DOMAIN chunk |->
    [event |-> chunk[i].event, part |-> chunk[i].part,
     whole |-> CASE chunk[i].part = "head" -> i < Len(chunk) /\ chunk[i + 1].part = "tail"
                 [] chunk[i].part = "tail" -> i > 1
                 [] OTHER -> TRUE]]

Newlines(text) == {i \in DOMAIN text : text[i].part = "nl"}

(* json.loads succeeds on a line that is one event and nothing else. *)
EndsEvent(text, i) ==
  /\ i > 2 /\ text[i].part = "nl"
  /\ text[i - 1].part = "tail" /\ text[i - 2].part = "head"
  /\ text[i - 1].event = text[i].event
  /\ i > 3 => text[i - 3].part = "nl"

Entry(f, text, i) ==
  [file |-> f, event |-> text[i].event, whole |-> text[i - 2].whole /\ text[i - 1].whole]

(* What apply() is given: for line in lines, what parses. *)
Parsed(f, text) ==
  LET upTo[i \in 0..Len(text)] ==
        IF i = 0 THEN <<>>
        ELSE IF EndsEvent(text, i) THEN Append(upTo[i - 1], Entry(f, text, i)) ELSE upTo[i - 1]
  IN upTo[Len(text)]

Fragment(text) ==   \* lines.pop()
  LET afterLast == {i \in 0..Len(text) : \A k \in Newlines(text) : k <= i}
      last == CHOOSE i \in afterLast : \A k \in afterLast : i <= k
  IN SubSeq(text, last + 1, Len(text))

New(f) == SubSeq(file[f], offset[f] + 1, Len(file[f]))

TextUnjoined(f) == Decode(New(f))   \* mutant: the fragment is not put in front

Text(f) == partial[f] \o Decode(New(f))

CutBy(f) ==   \* the event whose character a read up to here would cut
  {e \in Events : Len(file[f]) > 0 /\ file[f][Len(file[f])] = [event |-> e, part |-> "head"]}

ReadFileRereads(f) ==   \* mutant: the offset stays behind while a line is incomplete
  LET text == Text(f)
  IN /\ offset' = [offset EXCEPT ![f] = IF Fragment(text) = <<>> THEN Len(file[f]) ELSE @]
     /\ partial' = [partial EXCEPT ![f] = Fragment(text)]
     /\ cuts' = [cuts EXCEPT ![f] = @ \cup CutBy(f)]
     /\ applied' = applied \o Parsed(f, text)

ReadFileAhead(f) ==   \* mutant: the offset counts the fragment again
  /\ offset' = [offset EXCEPT ![f] = @ + Len(Text(f))]
  /\ partial' = [partial EXCEPT ![f] = Fragment(Text(f))]
  /\ cuts' = [cuts EXCEPT ![f] = @ \cup CutBy(f)]
  /\ applied' = applied \o Parsed(f, Text(f))

(* _read_file() of a file that has grown *)
ReadFile(f) ==
  /\ offset' = [offset EXCEPT ![f] = Len(file[f])]
  /\ partial' = [partial EXCEPT ![f] = Fragment(Text(f))]
  /\ cuts' = [cuts EXCEPT ![f] = @ \cup CutBy(f)]
  /\ applied' = applied \o Parsed(f, Text(f))

(***************************************************************************)
(* poll() looks at one file after the other while their writers go on, so  *)
(* each read is a step.  (A file it cannot list or read is left for the    *)
(* next poll, as it is: no step.)                                          *)
(***************************************************************************)
Poll(f) ==
  /\ watching = "polling" /\ Len(file[f]) > offset[f]
  /\ ReadFile(f)
  /\ UNCHANGED <<writers, atExit, watching, todo, unread>>

LeaderReapedNoDrain ==   \* mutant: _finish() at once
  /\ watching = "polling" /\ status[Leader] = "dead"
  /\ watching' = "over"
  /\ UNCHANGED <<writers, texts, atExit, todo, unread>>

LeaderReaped ==   \* proc.wait() returned: the poll after it begins
  /\ watching = "polling" /\ status[Leader] = "dead"
  /\ watching' = "draining" /\ todo' = Files
  /\ UNCHANGED <<writers, texts, atExit, unread>>

(***************************************************************************)
(* The last poll.  The tailer swallows an OSError of listing the files or  *)
(* of reading one: what it passes over now nobody reads any more.          *)
(***************************************************************************)
Drain(f) ==
  /\ watching = "draining" /\ f \in todo
  /\ \/ /\ IF Len(file[f]) > offset[f] THEN ReadFile(f) ELSE UNCHANGED texts
        /\ UNCHANGED unread
     \/ UNCHANGED texts /\ unread' = unread \cup {f}
  /\ todo' = todo \ {f}
  /\ watching' = IF todo' = {} THEN "over" ELSE watching
  /\ UNCHANGED <<writers, atExit>>

Next ==
  \/ \E t \in Threads : Emit(t) \/ Write(t) \/ WriteFails(t)
  \/ \E p \in Procs : Dies(p)
  \/ \E w \in Workers : StartWorker(w) \/ Expires(w)
  \/ \E f \in Files : Poll(f) \/ Drain(f)
  \/ LeaderReaped

Spec == Init /\ [][Next]_vars

-----------------------------------------------------------------------------
(* Properties *)

(* The newlines of the complete events that were read of a file, and the   *)
(* places in applied that hold events of it.                               *)
Complete(f)    == {k \in 1..offset[f] : EndsEvent(file[f], k)}
AppliedFrom(f) == {i \in DOMAIN applied : applied[i].file = f}

(***************************************************************************)
(* However the polls cut a file up, apply() sees the events that reading   *)
(* it in one go would give, in their order: none lost, none twice, none    *)
(* made up of two halves that do not belong together.                      *)
(***************************************************************************)
ChunksDoNotMatter ==
  \A f \in Files :
    /\ {applied[i].event : i \in AppliedFrom(f)} = {file[f][k].event : k \in Complete(f)}
    /\ \A i, j \in AppliedFrom(f), k, l \in Complete(f) :
         i < j /\ applied[i].event = file[f][k].event /\ applied[j].event = file[f][l].event
           => k < l

(***************************************************************************)
(* A text arrives with characters replaced exactly when a poll ended       *)
(* inside one of them: the decoder does not remember, unlike _partial, the *)
(* bytes of an incomplete character.                                       *)
(***************************************************************************)
DamageIsACut ==
  \A i \in DOMAIN applied :
    applied[i].whole <=> applied[i].event \notin cuts[applied[i].file]

(***************************************************************************)
(* The events of one thread reach apply() once each and in the order it    *)
(* emitted them, whichever files they went through.  (Between the two      *)
(* threads of a worker there is no such order.)                            *)
(***************************************************************************)
InOrderOnce ==
  \A i, k \in DOMAIN applied :
    i < k /\ applied[i].event[1] = applied[k].event[1]
      => applied[i].event[2] < applied[k].event[2]

(***************************************************************************)
(* When the runner goes on to _finish(), all that was in the files at the  *)
(* leader's exit has been read, but for the files that the last poll       *)
(* passed over for an OSError: their rest is lost.                         *)
(***************************************************************************)
DrainCovers ==
  watching = "over" => \A f \in Files \ unread : offset[f] >= atExit[f]
=============================================================================
