---------------------------- MODULE StatusLogProofs ----------------------------
(***************************************************************************)
(* Proofs about StatusLog for any workers, files and numbers of events.    *)
(* What a poll leaves in _partial is the text of the file since the last   *)
(* newline read (PartialInv): the reader has applied what is before it     *)
(* (AppliedInv, ChunksDoNotMatter).  That the events of a thread stay in   *)
(* order rests on each thread writing to one file (FileInv, OrderInv).     *)
(***************************************************************************)
EXTENDS StatusLog, TLAPS, SequenceTheorems, WellFoundedInduction

Cell(e, part) == [event |-> e, part |-> part]

Writes(t)  == writing[t] # <<>>
Current(t) == <<t, emitted[t]>>

(* The part that many cells before the end of a line. *)
PartOf(d) == CASE d = 0 -> "nl" [] d = 1 -> "tail" [] OTHER -> "head"

(* The last cells of an event's line *)
IsRest(w, e) == Len(w) <= 3 /\ \A j \in DOMAIN w : w[j] = Cell(e, PartOf(Len(w) - j))

(* The file a thread appends to *)
Home(t) == path[t[1]]

(* A thread that emits has its file; one append to a file at a time. *)
WriterInv ==
  /\ \A p \in Procs : status[p] = "unborn" => path[p] = Unresolved
  /\ \A t \in Threads :
       /\ emitted[t] > 0 => Home(t) \in Files
       /\ Writes(t) => emitted[t] > 0 /\ IsRest(writing[t], Current(t))
  /\ \A t, u \in Threads : Writes(t) /\ Writes(u) /\ Home(t) = Home(u) => t = u

(* A line is cut short or whole, never mixed with another. *)
FileInv ==
  \A f \in Files : \A i \in DOMAIN file[f] :
    LET c == file[f][i]
    IN /\ Home(c.event[1]) = f /\ c.event[2] <= emitted[c.event[1]]
       /\ c.part = "tail" => i > 1 /\ file[f][i - 1] = Cell(c.event, "head")
       /\ c.part = "nl"   => i > 1 /\ file[f][i - 1] = Cell(c.event, "tail")

(* The lines of a thread stand in a file in the order it wrote them. *)
OrderInv ==
  \A f \in Files : \A i, k \in DOMAIN file[f] :
    i < k /\ file[f][i].part = file[f][k].part /\ file[f][i].event[1] = file[f][k].event[1]
      => file[f][i].event[2] < file[f][k].event[2]

(* What is still to be written is not in the file, what was is at its end. *)
Joins(w, t, e) ==
  /\ \A k \in DOMAIN w : \A i \in DOMAIN t : t[i] # w[k]
  /\ Head(w).part = "tail" => t # <<>> /\ t[Len(t)] = Cell(e, "head")
  /\ Head(w).part = "nl"   => t # <<>> /\ t[Len(t)] = Cell(e, "tail")

AppendInv ==
  \A t \in Threads : Writes(t) => Joins(writing[t], file[Home(t)], Current(t))

LinesInv == WriterInv /\ FileInv /\ OrderInv /\ AppendInv

(* Where the line begins that a reader has seen a part of. *)
Base(f) == offset[f] - Len(partial[f])

PartialInv ==
  \A f \in Files :
    /\ Base(f) >= 0
    /\ Base(f) > 0 => file[f][Base(f)].part = "nl"
    /\ \A i \in DOMAIN partial[f] :
         /\ partial[f][i].event = file[f][Base(f) + i].event
         /\ partial[f][i].part = file[f][Base(f) + i].part
         /\ partial[f][i].part # "nl"

(* A character is damaged that was cut, also one that is not complete yet. *)
CutInv ==
  \A f \in Files :
    /\ \A e \in cuts[f] : \E i \in 1..offset[f] : file[f][i] = Cell(e, "head")
    /\ \A i \in DOMAIN partial[f] :
         /\ partial[f][i].part = "tail" =>
              (partial[f][i - 1].whole /\ partial[f][i].whole
                 <=> partial[f][i].event \notin cuts[f])
         /\ partial[f][i].part = "head" /\ i = Len(partial[f]) => partial[f][i].event \in cuts[f]

(* What was applied is a whole line before that. *)
AppliedInv ==
  \A i \in DOMAIN applied :
    \E k \in 1..Base(applied[i].file) :
      /\ EndsEvent(file[applied[i].file], k)
      /\ file[applied[i].file][k].event = applied[i].event

DrainInv ==
  /\ \A f \in Files : atExit[f] <= Len(file[f])
  /\ watching # "polling" =>
       /\ status[Leader] = "dead"
       /\ \A f \in Files \ (todo \cup unread) : offset[f] >= atExit[f]
  /\ watching = "over" => todo = {}

USE ProcsAssumption, StartMethodsAssumption, MaxEventsAssumption, PathsAssumption

-----------------------------------------------------------------------------
(* The writers *)

LEMMA ThreadsOfProcs == \A t \in Threads : t[1] \in Procs
BY DEF Threads, Procs

LEMMA CellType ==
  ASSUME NEW t \in Threads, NEW n \in 1..MaxEvents, NEW d \in Nat
  PROVE  /\ Cell(<<t, n>>, PartOf(d)) \in Cells
         /\ Cell(<<t, n>>, PartOf(d)).event = <<t, n>>
         /\ Cell(<<t, n>>, PartOf(d)).part = PartOf(d)
BY DEF Cell, Cells, Events, Parts, PartOf

LEMMA CellFields ==
  ASSUME NEW c \in Cells
  PROVE  /\ c.event \in Events /\ c.event[1] \in Threads /\ c.event[2] \in 1..MaxEvents
         /\ c.event = <<c.event[1], c.event[2]>>
         /\ c.part \in Parts /\ c = Cell(c.event, c.part)
BY DEF Cell, Cells, Events

Typed ==
  /\ path \in [Procs -> Procs \cup {Unresolved, NoFile}]
  /\ emitted \in [Threads -> 0..MaxEvents]
  /\ writing \in [Threads -> Seq(Cells)]
  /\ file \in [Procs -> Seq(Cells)]

LEMMA TypedOf == TypeOK => Typed
BY DEF TypeOK, Typed, Files

LEMMA NotAFile == Unresolved \notin Procs /\ NoFile \notin Procs /\ NoFile # Unresolved
BY DEF Procs

(* What is in the files stays right while processes only get a path or count on. *)
LEMMA FilesKept ==
  ASSUME Typed, FileInv, OrderInv, file' = file, Typed',
         \A u \in Threads : Home(u) \in Procs => Home(u)' = Home(u) /\ emitted[u] <= emitted'[u]
  PROVE  FileInv' /\ OrderInv'
<1>1. ASSUME NEW f \in Procs, NEW i \in DOMAIN file[f]
      PROVE  path'[file[f][i].event[1][1]] = f /\ file[f][i].event[2] <= emitted'[file[f][i].event[1]]
  <2>1. file[f][i] \in Cells
    BY DEF Typed
  <2> DEFINE u == file[f][i].event[1]
             n == file[f][i].event[2]
  <2>2. u \in Threads /\ n \in 1..MaxEvents /\ path[u[1]] = f /\ n <= emitted[u]
    BY <2>1, CellFields DEF FileInv, Files, Home
  <2> HIDE DEF u, n
  <2>3. /\ path'[u[1]] = f /\ n \in Nat
        /\ emitted[u] \in Nat /\ emitted'[u] \in Nat /\ emitted[u] <= emitted'[u]
    BY <2>2 DEF Typed, Home
  <2>4. n <= emitted'[u]
    BY <2>2, <2>3
  <2> QED BY <2>3, <2>4 DEF u, n
<1>2. FileInv'
  <2>1. ASSUME NEW f \in Procs, NEW i \in DOMAIN file[f]
        PROVE  LET c == file[f][i]
               IN /\ c.part = "tail" => i > 1 /\ file[f][i - 1] = Cell(c.event, "head")
                  /\ c.part = "nl"   => i > 1 /\ file[f][i - 1] = Cell(c.event, "tail")
    BY <2>1 DEF FileInv, Files
  <2> QED BY <1>1, <2>1 DEF FileInv, Files, Home
<1>3. OrderInv'
  BY DEF OrderInv
<1> QED BY <1>2, <1>3

(* A thread begins a line: it is the first with that number. *)
LEMMA EmitLines ==
  ASSUME TypeOK, LinesInv, NEW t \in Threads, Emit(t)
  PROVE  TypeOK' /\ LinesInv'
<1> USE TypedOf, NotAFile, ThreadsOfProcs
<1> DEFINE p == t[1]
<1>0. p \in Procs
  OBVIOUS
<1>1. /\ path' = path \/ (path[p] = Unresolved /\ \E q \in {p, NoFile} : path' = [path EXCEPT ![p] = q])
      /\ UNCHANGED <<method, status, file, reader, atExit>>
      /\ emitted[t] < MaxEvents /\ writing[t] = <<>> /\ status[p] = "running"
  BY DEF Emit, Emits, Resolve
<1>2. /\ path' \in [Procs -> Procs \cup {Unresolved, NoFile}]
      /\ \A q \in Procs : path'[q] # path[q] => q = p /\ path[q] = Unresolved /\ path'[q] \in {p, NoFile}
  BY <1>0, <1>1 DEF Typed
<1>3. path'[p] # Unresolved
  BY <1>0, <1>1 DEF Typed, Resolve, Emit, Emits
<1> HIDE DEF p
<1>4. \A u \in Threads : Home(u) # Unresolved => Home(u)' = Home(u)
  BY <1>2 DEF Home
<1>5. \A u \in Threads : Writes(u) => Home(u)' = Home(u)
  BY <1>4 DEF LinesInv, WriterInv, Files
<1>6. \A q \in Procs : status'[q] = "unborn" => path'[q] = Unresolved
  BY <1>1, <1>2 DEF LinesInv, WriterInv
<1>7. CASE path'[p] = NoFile
  <2>1. UNCHANGED <<emitted, writing>> /\ UNCHANGED <<method, status, file, reader, atExit>>
    BY <1>7 DEF Emit, Emits, p
  <2>2. TypeOK' /\ Typed'
    BY <1>2, <2>1 DEF TypeOK, Typed, reader, texts, Files
  <2>3. \A u \in Threads : emitted[u] > 0 => Home(u)' = Home(u)
    BY <1>4 DEF LinesInv, WriterInv, Files
  <2>4. WriterInv'
    <3>1. \A u \in Threads : Writes(u)' = Writes(u) /\ Current(u)' = Current(u)
      BY <2>1 DEF Writes, Current
    <3> QED BY <1>5, <1>6, <2>1, <2>3, <3>1 DEF LinesInv, WriterInv, Files
  <2>5. FileInv' /\ OrderInv'
    BY <1>4, <2>1, <2>2, FilesKept DEF LinesInv, Typed
  <2>6. AppendInv'
    BY <1>5, <2>1 DEF LinesInv, AppendInv, Writes, Current
  <2> QED BY <2>2, <2>4, <2>5, <2>6 DEF LinesInv
<1>8. CASE path'[p] # NoFile
  <2>1. /\ ~InAppend(path'[p])
        /\ emitted' = [emitted EXCEPT ![t] = @ + 1]
        /\ writing' = [writing EXCEPT ![t] = LineOf(<<t, emitted[t] + 1>>)]
    BY <1>8 DEF Emit, Emits, p
  <2> DEFINE e == <<t, emitted[t] + 1>>
             f == path'[p]
  <2>2. emitted[t] + 1 \in 1..MaxEvents /\ e \in Events /\ f \in Procs
    BY <1>0, <1>1, <1>2, <1>3, <1>8 DEF Typed, Events
  <2>3. /\ LineOf(e) \in Seq(Cells) /\ Len(LineOf(e)) = 3
        /\ LineOf(e)[1] = Cell(e, "head") /\ LineOf(e)[2] = Cell(e, "tail") /\ LineOf(e)[3] = Cell(e, "nl")
    BY <2>2 DEF LineOf, Cell, Cells, Parts
  <2>4. TypeOK' /\ Typed'
    <3> HIDE DEF e
    <3>1. writing' \in [Threads -> Seq(Cells)] /\ emitted' \in [Threads -> 0..MaxEvents]
      BY <2>1, <2>2, <2>3 DEF Typed, e
    <3> QED BY <1>1, <1>2, <3>1 DEF TypeOK, Typed, reader, texts, Files
  <2>5. FileInv' /\ OrderInv'
    <3>1. \A u \in Threads : emitted[u] <= emitted'[u]
      BY <2>1 DEF Typed
    <3> QED BY <1>1, <1>4, <2>4, <3>1, FilesKept DEF LinesInv, Typed
  <2>6. /\ Writes(t)' /\ Current(t)' = e /\ Home(t)' = f
        /\ \A u \in Threads \ {t} : /\ Writes(u)' = Writes(u)
                                    /\ writing'[u] = writing[u] /\ emitted'[u] = emitted[u]
    BY <2>1, <2>3 DEF Writes, Current, Typed, Home, p
  <2>7. \A u \in Threads \ {t} : Writes(u) => Home(u) \in Procs /\ Home(u) # f
    <3> SUFFICES ASSUME NEW u \in Threads \ {t}, Writes(u) PROVE Home(u) \in Procs /\ Home(u) # f
      OBVIOUS
    <3>1. Home(u) \in Procs
      BY DEF LinesInv, WriterInv, Files
    <3>2. path[u[1]] # f
      BY <2>1 DEF InAppend, Writes
    <3> QED BY <3>1, <3>2 DEF Home
  <2>8. ASSUME NEW j \in DOMAIN LineOf(e)
        PROVE  LineOf(e)[j] = Cell(e, PartOf(Len(LineOf(e)) - j))
    <3>1. j \in 1..3
      BY <2>3
    <3> HIDE DEF e
    <3> QED BY <2>3, <3>1 DEF PartOf
  <2>9. WriterInv'
    <3> HIDE DEF e, f
    <3>1. \A u \in Threads : emitted'[u] > 0 => Home(u)' \in Files
      BY <1>4, <2>2, <2>6 DEF LinesInv, WriterInv, Files
    <3>2. ASSUME NEW u \in Threads, Writes(u)'
          PROVE  emitted'[u] > 0 /\ IsRest(writing'[u], Current(u)')
      <4>1. CASE u = t
        <5>1. writing'[t] = LineOf(e) /\ emitted'[t] = emitted[t] + 1
          BY <2>1 DEF Typed, e
        <5>2. IsRest(LineOf(e), e)
          BY <2>3, <2>8 DEF IsRest
        <5> QED BY <2>2, <2>6, <4>1, <5>1, <5>2
      <4>2. CASE u # t
        <5>1. Writes(u) /\ emitted'[u] = emitted[u] /\ writing'[u] = writing[u] /\ Current(u)' = Current(u)
          BY <2>6, <3>2, <4>2 DEF Current
        <5> QED BY <5>1 DEF LinesInv, WriterInv
      <4> QED BY <4>1, <4>2
    <3>3. \A u, v \in Threads : Writes(u)' /\ Writes(v)' /\ Home(u)' = Home(v)' => u = v
      BY <1>5, <2>6, <2>7 DEF LinesInv, WriterInv
    <3> QED BY <1>6, <3>1, <3>2, <3>3 DEF WriterInv
  <2>10. AppendInv'
    <3> HIDE DEF e, f
    <3>1. ASSUME NEW u \in Threads \ {t}, Writes(u)'
          PROVE  Joins(writing'[u], file'[Home(u)'], Current(u)')
      <4>1. /\ Writes(u) /\ Home(u)' = Home(u) /\ writing'[u] = writing[u]
            /\ Current(u)' = Current(u) /\ file' = file
        BY <1>1, <1>5, <2>6, <3>1 DEF Current
      <4> QED BY <4>1 DEF LinesInv, AppendInv
    <3>2. ASSUME NEW k \in DOMAIN writing'[t], NEW i \in DOMAIN file[f]
          PROVE  file[f][i] # writing'[t][k]
      <4>1. writing'[t] = LineOf(e) /\ k \in 1..3
        BY <2>1, <2>3 DEF Typed, e
      <4>2. writing'[t][k].event = e
        BY <2>3, <4>1 DEF Cell
      <4>3. file[f][i] \in Cells
        BY <2>2 DEF Typed
      <4>4. file[f][i].event[1] = t => file[f][i].event[2] <= emitted[t]
        BY <2>2 DEF LinesInv, FileInv, Files
      <4>5. file[f][i].event # e
        BY <4>3, <4>4, CellFields DEF e, Typed
      <4> QED BY <4>2, <4>5
    <3>3. Head(writing'[t]).part = "head"
      <4>1. writing'[t] = LineOf(e)
        BY <2>1 DEF Typed, e
      <4> QED BY <2>3, <4>1 DEF Cell
    <3>4. file'[Home(t)'] = file[f]
      BY <1>1, <2>6
    <3>5. Joins(writing'[t], file'[Home(t)'], Current(t)')
      BY <3>2, <3>3, <3>4 DEF Joins
    <3> QED BY <3>1, <3>5 DEF AppendInv
  <2> QED BY <2>4, <2>5, <2>9, <2>10 DEF LinesInv
<1> QED BY <1>7, <1>8

(* What an append adds to a file, and what is left of it *)
LEMMA NextCell ==
  ASSUME TypeOK, LinesInv, NEW p \in Threads, Writes(p)
  PROVE  LET w == writing[p]
             e == Current(p)
         IN /\ Home(p) \in Procs /\ e \in Events /\ w \in Seq(Cells) /\ Len(w) \in 1..3
            /\ w[1] = Cell(e, PartOf(Len(w) - 1)) /\ w[1] \in Cells /\ Head(w) = w[1]
            /\ Tail(w) \in Seq(Cells) /\ Len(Tail(w)) = Len(w) - 1
            /\ \A j \in DOMAIN Tail(w) : Tail(w)[j] = w[j + 1] /\ j + 1 \in DOMAIN w
<1> DEFINE w == writing[p]
           e == Current(p)
<1>1. w \in Seq(Cells) /\ w # <<>> /\ emitted[p] \in 1..MaxEvents
  BY TypedOf DEF Typed, Writes, LinesInv, WriterInv
<1>2. Home(p) \in Procs /\ e \in Events /\ IsRest(w, e)
  BY <1>1 DEF LinesInv, WriterInv, Files, Current, Events
<1>3. Len(w) \in 1..3 /\ 1 \in DOMAIN w /\ w[1] = Cell(e, PartOf(Len(w) - 1)) /\ w[1] \in Cells
  <2> HIDE DEF w, e
  <2>1. Len(w) \in Nat /\ Len(w) # 0 /\ DOMAIN w = 1..Len(w) /\ \A j \in 1..Len(w) : w[j] \in Cells
    BY <1>1
  <2>2. Len(w) <= 3
    BY <1>2 DEF IsRest
  <2>3. 1 \in DOMAIN w /\ w[1] \in Cells
    BY <2>1
  <2> QED BY <1>2, <2>1, <2>2, <2>3 DEF IsRest
<1>4. /\ Tail(w) \in Seq(Cells) /\ Len(Tail(w)) = Len(w) - 1 /\ Head(w) = w[1]
      /\ \A j \in 1..Len(w) - 1 : Tail(w)[j] = w[j + 1]
  <2> HIDE DEF w
  <2> QED BY <1>1, HeadTailProperties
<1>5. \A j \in DOMAIN Tail(w) : Tail(w)[j] = w[j + 1] /\ j + 1 \in DOMAIN w
  <2> HIDE DEF w
  <2> QED BY <1>1, <1>3, <1>4
<1> QED BY <1>1, <1>2, <1>3, <1>4, <1>5

LEMMA WriteLines ==
  ASSUME TypeOK, LinesInv, NEW p \in Threads, Write(p)
  PROVE  /\ TypeOK' /\ LinesInv'
         /\ \A f \in Files : \A i \in DOMAIN file[f] :
              i \in DOMAIN file'[f] /\ file'[f][i] = file[f][i]
         /\ \A f \in Files : Len(file[f]) <= Len(file'[f])
<1> DEFINE w == writing[p]
           e == Current(p)
           f == Home(p)
           t == file[f]
           c == w[1]
<1>1. /\ file' = [file EXCEPT ![f] = Append(t, c)]
      /\ writing' = [writing EXCEPT ![p] = Tail(w)]
      /\ UNCHANGED <<method, status, path, emitted, reader, atExit>>
      /\ Writes(p)
  <2>1. Writes(p)
    BY DEF Write, Writes
  <2> QED BY <2>1, NextCell DEF Write, Home
<1>2. /\ f \in Procs /\ e \in Events /\ w \in Seq(Cells) /\ Len(w) \in 1..3
      /\ c = Cell(e, PartOf(Len(w) - 1)) /\ c \in Cells /\ Head(w) = c
      /\ Tail(w) \in Seq(Cells) /\ Len(Tail(w)) = Len(w) - 1
      /\ \A j \in DOMAIN Tail(w) : Tail(w)[j] = w[j + 1] /\ j + 1 \in DOMAIN w
  BY <1>1, NextCell
<1>3. /\ Joins(w, t, e) /\ IsRest(w, e) /\ emitted[p] > 0
      /\ \A q \in Threads : Writes(q) /\ Home(q) = f => q = p
  BY <1>1 DEF LinesInv, AppendInv, WriterInv
<1>4. file \in [Procs -> Seq(Cells)] /\ writing \in [Threads -> Seq(Cells)] /\ t \in Seq(Cells)
  BY <1>2, TypedOf DEF Typed
<1> HIDE DEF w, e, f, t, c
<1>5. /\ file'[f] = Append(t, c) /\ file' \in [Procs -> Seq(Cells)]
      /\ \A g \in Procs \ {f} : file'[g] = file[g]
  BY <1>1, <1>2, <1>4
<1>6. /\ DOMAIN t = 1..Len(t) /\ Len(t) \in Nat /\ DOMAIN file'[f] = 1..Len(t) + 1
      /\ Len(file'[f]) = Len(t) + 1
      /\ file'[f][Len(t) + 1] = c /\ \A i \in 1..Len(t) : file'[f][i] = t[i]
  BY <1>2, <1>4, <1>5, AppendProperties
<1>7. /\ \A g \in Files : \A i \in DOMAIN file[g] :
           i \in DOMAIN file'[g] /\ file'[g][i] = file[g][i]
      /\ \A g \in Files : Len(file[g]) <= Len(file'[g])
  <2>1. ASSUME NEW g \in Procs
        PROVE  /\ \A i \in DOMAIN file[g] : i \in DOMAIN file'[g] /\ file'[g][i] = file[g][i]
               /\ Len(file[g]) <= Len(file'[g])
    <3>1. CASE g = f
      BY <1>6, <3>1 DEF t
    <3>2. CASE g # f
      <4>1. file'[g] = file[g] /\ Len(file[g]) \in Nat
        BY <1>4, <1>5, <3>2
      <4> QED BY <4>1
    <3> QED BY <3>1, <3>2
  <2> QED BY <2>1 DEF Files
<1>8. TypeOK'
  <2>1. writing' \in [Threads -> Seq(Cells)]
    BY <1>1, <1>2, <1>4
  <2>2. \A g \in Files : offset'[g] <= Len(file'[g])
    <3> SUFFICES ASSUME NEW g \in Procs PROVE offset[g] <= Len(file'[g])
      BY <1>1 DEF reader, texts, Files
    <3>1. offset[g] \in Nat /\ offset[g] <= Len(file[g]) /\ Len(file[g]) \in Nat /\ Len(file'[g]) \in Nat
      <4>1. Len(file[g]) \in Nat /\ Len(file'[g]) \in Nat
        BY <1>4, <1>5
      <4>2. offset[g] \in Nat /\ offset[g] <= Len(file[g])
        BY DEF TypeOK, Files
      <4> QED BY <4>1, <4>2
    <3> QED BY <1>7, <3>1 DEF Files
  <2> QED BY <1>1, <1>5, <2>1, <2>2 DEF TypeOK, reader, texts, Files
<1>9. WriterInv'
  <2>1. ASSUME NEW q \in Threads, Writes(q)'
        PROVE  Writes(q) /\ IsRest(writing'[q], Current(q)') /\ emitted'[q] > 0
    <3>1. CASE q = p
      <4>1. writing'[p] = Tail(w) /\ Current(p)' = e /\ emitted'[p] > 0
        BY <1>1, <1>3, <1>4 DEF Current, e
      <4>2. IsRest(Tail(w), e)
        BY <1>2, <1>3 DEF IsRest
      <4> QED BY <1>1, <3>1, <4>1, <4>2
    <3>2. CASE q # p
      BY <1>1, <1>4, <2>1, <3>2 DEF LinesInv, WriterInv, Writes, Current
    <3> QED BY <3>1, <3>2
  <2>2. \A q \in Threads : Home(q)' = Home(q) /\ emitted'[q] = emitted[q]
    BY <1>1 DEF Home
  <2> QED BY <1>1, <2>1, <2>2 DEF LinesInv, WriterInv
<1>10. FileInv'
  <2> SUFFICES ASSUME NEW g \in Procs, NEW i \in DOMAIN file'[g]
               PROVE  LET d == file'[g][i]
                      IN /\ Home(d.event[1]) = g /\ d.event[2] <= emitted[d.event[1]]
                         /\ d.part = "tail" => i > 1 /\ file'[g][i - 1] = Cell(d.event, "head")
                         /\ d.part = "nl"   => i > 1 /\ file'[g][i - 1] = Cell(d.event, "tail")
    BY <1>1 DEF FileInv, Files, Home
  <2>1. CASE g # f
    <3>1. file'[g] = file[g]
      BY <1>5, <2>1
    <3> QED BY <3>1 DEF LinesInv, FileInv, Files
  <2>2. CASE g = f /\ i <= Len(t)
    <3>1. i \in DOMAIN t /\ file'[f][i] = t[i] /\ (i > 1 => file'[f][i - 1] = t[i - 1])
      BY <1>6, <2>2
    <3> QED BY <1>2, <2>2, <3>1 DEF LinesInv, FileInv, Files, t
  <2>3. CASE g = f /\ i = Len(t) + 1
    <3>1. file'[g][i] = c /\ c.event = e /\ c.part = Head(w).part
      BY <1>2, <1>6, <2>3 DEF Cell
    <3>2. e[1] = p /\ e[2] = emitted[p] /\ emitted[p] \in Nat
      BY TypedOf DEF e, Current, Typed
    <3>3. t # <<>> => i > 1 /\ file'[g][i - 1] = t[Len(t)]
      BY <1>4, <1>6, <2>3
    <3> QED BY <1>3, <2>3, <3>1, <3>2, <3>3 DEF Joins, f
  <2> QED BY <1>6, <2>1, <2>2, <2>3
<1>11. OrderInv'
  <2> SUFFICES ASSUME NEW g \in Procs, NEW i \in DOMAIN file'[g], NEW k \in DOMAIN file'[g],
                      i < k, file'[g][i].part = file'[g][k].part,
                      file'[g][i].event[1] = file'[g][k].event[1]
               PROVE  file'[g][i].event[2] < file'[g][k].event[2]
    BY DEF OrderInv, Files
  <2>1. CASE g # f
    <3>1. file'[g] = file[g]
      BY <1>5, <2>1
    <3> QED BY <3>1 DEF LinesInv, OrderInv, Files
  <2>2. CASE g = f /\ k <= Len(t)
    <3>1. i \in DOMAIN t /\ k \in DOMAIN t /\ file'[f][i] = t[i] /\ file'[f][k] = t[k]
      BY <1>6, <2>2
    <3> QED BY <1>2, <2>2, <3>1 DEF LinesInv, OrderInv, Files, t
  <2>3. CASE g = f /\ k = Len(t) + 1
    <3>1. file'[g][k] = c /\ c.event = e /\ i \in DOMAIN t /\ file'[g][i] = t[i]
      BY <1>2, <1>6, <2>3 DEF Cell
    <3>2. e[1] = p /\ e[2] = emitted[p] /\ emitted[p] \in Nat /\ e = <<p, emitted[p]>>
      BY TypedOf DEF e, Current, Typed
    <3>3. t[i] \in Cells /\ t[i].event[2] <= emitted[p]
      <4>1. t[i].event[1] = p
        BY <3>1, <3>2
      <4>2. t[i].event[2] <= emitted[t[i].event[1]]
        BY <1>2, <3>1 DEF LinesInv, FileInv, Files, t
      <4> QED BY <1>4, <3>1, <4>1, <4>2
    <3>4. t[i] # c
      <4>1. 1 \in DOMAIN w
        BY <1>2
      <4> QED BY <1>3, <3>1, <4>1 DEF Joins, c
    <3>5. t[i].event[2] # emitted[p]
      <4> SUFFICES ASSUME t[i].event[2] = emitted[p] PROVE FALSE
        OBVIOUS
      <4>1. t[i].event = e /\ t[i].part = c.part
        BY <3>1, <3>2, <3>3, CellFields, <2>3
      <4>2. t[i] = Cell(e, c.part) /\ c = Cell(e, c.part)
        BY <1>2, <3>1, <3>3, <4>1, CellFields
      <4> QED BY <3>4, <4>2
    <3>6. t[i].event[2] \in Nat
      BY <3>3, CellFields
    <3> QED BY <2>3, <3>1, <3>2, <3>3, <3>5, <3>6
  <2> QED BY <1>6, <2>1, <2>2, <2>3
<1>12. AppendInv'
  <2> SUFFICES ASSUME NEW q \in Threads, Writes(q)'
               PROVE  Joins(writing'[q], file'[Home(q)], Current(q)')
    BY <1>1 DEF AppendInv, Home
  <2>1. CASE q # p
    <3>1. Writes(q) /\ writing'[q] = writing[q] /\ Current(q)' = Current(q)
      BY <1>1, <1>4, <2>1 DEF Writes, Current
    <3>2. Home(q) \in Procs /\ Home(q) # f
      BY <1>3, <2>1, <3>1, NextCell
    <3>3. file'[Home(q)] = file[Home(q)]
      BY <1>5, <3>2
    <3> QED BY <3>1, <3>3 DEF LinesInv, AppendInv
  <2>2. CASE q = p
    <3>1. writing'[q] = Tail(w) /\ Current(q)' = e /\ Home(q) = f
      BY <1>1, <1>4, <2>2 DEF Current, e, f
    <3>2. Tail(w) # <<>>
      BY <2>2, <3>1 DEF Writes
    <3>3. Len(w) \in 2..3 /\ 1 \in DOMAIN Tail(w) /\ Head(Tail(w)) = w[2]
      BY <1>2, <3>2
    <3>4. ASSUME NEW k \in DOMAIN Tail(w), NEW i \in DOMAIN file'[f]
          PROVE  file'[f][i] # Tail(w)[k]
      <4>1. Tail(w)[k] = w[k + 1] /\ k + 1 \in DOMAIN w /\ k \in 1..Len(w) - 1
        BY <1>2
      <4>2. CASE i <= Len(t)
        BY <1>3, <1>6, <4>1, <4>2 DEF Joins
      <4>3. CASE i = Len(t) + 1
        <5>1. w[k + 1] = Cell(e, PartOf(Len(w) - (k + 1)))
          BY <1>3, <4>1 DEF IsRest
        <5>2. PartOf(Len(w) - (k + 1)) # PartOf(Len(w) - 1)
          <6>1. \A n \in 2..3 : \A b \in 1..n - 1 : PartOf(n - (b + 1)) # PartOf(n - 1)
            BY DEF PartOf
          <6> HIDE DEF PartOf
          <6> QED BY <3>3, <4>1, <6>1
        <5> QED BY <1>2, <1>6, <4>1, <4>3, <5>1, <5>2 DEF Cell
      <4> QED BY <1>6, <4>2, <4>3
    <3>5. w[2] = Cell(e, PartOf(Len(w) - 2))
      BY <1>2, <1>3, <3>3 DEF IsRest
    <3>6. file'[f] # <<>> /\ file'[f][Len(file'[f])] = Cell(e, PartOf(Len(w) - 1))
      BY <1>2, <1>6
    <3>7. Joins(Tail(w), file'[f], e)
      <4>1. w[2].part = PartOf(Len(w) - 2)
        BY <3>5 DEF Cell
      <4>2. CASE Len(w) = 3
        <5>1. w[2].part = "tail" /\ PartOf(Len(w) - 1) = "head"
          BY <4>1, <4>2 DEF PartOf
        <5> QED BY <3>3, <3>4, <3>6, <5>1 DEF Joins
      <4>3. CASE Len(w) = 2
        <5>1. w[2].part = "nl" /\ PartOf(Len(w) - 1) = "tail"
          BY <4>1, <4>3 DEF PartOf
        <5> QED BY <3>3, <3>4, <3>6, <5>1 DEF Joins
      <4> QED BY <3>3, <4>2, <4>3
    <3> QED BY <3>1, <3>7
  <2> QED BY <2>1, <2>2
<1> QED BY <1>7, <1>8, <1>9, <1>10, <1>11, <1>12 DEF LinesInv

(* Appends are given up: one, or those of a process that ends. *)
LEMMA DropLines ==
  ASSUME TypeOK, LinesInv,
         \/ \E t \in Threads : WriteFails(t)
         \/ \E p \in Procs : Stops(p)
  PROVE  TypeOK' /\ LinesInv'
<1>1. /\ UNCHANGED <<method, path, emitted, file, reader>>
      /\ \E S \in SUBSET Threads : writing' = [t \in Threads |-> IF t \in S THEN <<>> ELSE writing[t]]
      /\ status' = status \/ \E p \in Procs : status' = [status EXCEPT ![p] = "dead"]
  <2>1. ASSUME NEW t \in Threads, WriteFails(t)
        PROVE  writing' = [u \in Threads |-> IF u \in {t} THEN <<>> ELSE writing[u]]
    <3>1. writing \in [Threads -> Seq(Cells)]
      BY DEF TypeOK
    <3> QED BY <2>1, <3>1 DEF WriteFails
  <2>2. ASSUME NEW p \in Procs, Stops(p)
        PROVE  \E S \in SUBSET Threads :
                 writing' = [t \in Threads |-> IF t \in S THEN <<>> ELSE writing[t]]
    <3> WITNESS {t \in Threads : t[1] = p} \in SUBSET Threads
    <3> QED BY <2>2 DEF Stops
  <2>3. (\E t \in Threads : WriteFails(t)) =>
          \E S \in SUBSET Threads : writing' = [t \in Threads |-> IF t \in S THEN <<>> ELSE writing[t]]
    <3> SUFFICES ASSUME NEW u \in Threads, WriteFails(u)
                 PROVE  \E S \in SUBSET Threads :
                          writing' = [t \in Threads |-> IF t \in S THEN <<>> ELSE writing[t]]
      OBVIOUS
    <3> WITNESS {u} \in SUBSET Threads
    <3> QED BY <2>1
  <2>4. /\ UNCHANGED <<method, path, emitted, file, reader>>
        /\ status' = status \/ \E p \in Procs : status' = [status EXCEPT ![p] = "dead"]
    BY DEF WriteFails, Stops
  <2> QED BY <2>2, <2>3, <2>4
<1>2. /\ \A t \in Threads : writing'[t] # <<>> => writing'[t] = writing[t]
      /\ \A q \in Procs : status'[q] = "unborn" => status[q] = "unborn"
  <2>1. status \in [Procs -> {"unborn", "running", "dead"}]
    BY DEF TypeOK
  <2> QED BY <1>1, <2>1
<1>3. atExit' \in [Files -> Nat]
  <2>1. atExit \in [Files -> Nat] /\ \A f \in Files : Len(file[f]) \in Nat
    BY DEF TypeOK
  <2> QED BY <2>1 DEF WriteFails, Stops
<1>4. TypeOK'
  <2>1. <<>> \in Seq(Cells) /\ writing \in [Threads -> Seq(Cells)]
    BY DEF TypeOK
  <2>2. writing' \in [Threads -> Seq(Cells)]
    BY <1>1, <2>1
  <2>3. status' \in [Procs -> {"unborn", "running", "dead"}]
    BY <1>1 DEF TypeOK
  <2> QED BY <1>1, <1>3, <2>2, <2>3 DEF TypeOK, reader, texts
<1>5. /\ \A t \in Threads : Home(t)' = Home(t) /\ Current(t)' = Current(t)
      /\ \A t \in Threads : Writes(t)' => Writes(t) /\ writing'[t] = writing[t]
  BY <1>1, <1>2 DEF Writes, Current, Home
<1>6. WriterInv'
  BY <1>1, <1>2, <1>5 DEF LinesInv, WriterInv
<1>7. AppendInv'
  BY <1>1, <1>5 DEF LinesInv, AppendInv
<1>8. FileInv' /\ OrderInv'
  BY <1>1 DEF LinesInv, FileInv, OrderInv, Home
<1> QED BY <1>4, <1>6, <1>7, <1>8 DEF LinesInv

(* A worker is born, with the leader's path if it is forked. *)
LEMMA StartLines ==
  ASSUME TypeOK, LinesInv, NEW v \in Workers, StartWorker(v)
  PROVE  TypeOK' /\ LinesInv'
<1> USE TypedOf, NotAFile, ThreadsOfProcs
<1>1. /\ status[v] = "unborn" /\ status' = [status EXCEPT ![v] = "running"]
      /\ path' = path \/ path' = [path EXCEPT ![v] = path[Leader]]
      /\ UNCHANGED <<method, emitted, writing, file, reader, atExit>>
      /\ v \in Procs /\ Leader \in Procs
  BY DEF StartWorker, Procs
<1>2. path[v] = Unresolved
  BY <1>1 DEF LinesInv, WriterInv
<1>3. /\ path' \in [Procs -> Procs \cup {Unresolved, NoFile}]
      /\ \A q \in Procs \ {v} : path'[q] = path[q] /\ status'[q] = status[q]
      /\ status'[v] = "running"
  BY <1>1 DEF TypeOK, Files
<1>4. TypeOK' /\ Typed'
  <2>1. status' \in [Procs -> {"unborn", "running", "dead"}]
    BY <1>1 DEF TypeOK
  <2> QED BY <1>1, <1>3, <2>1 DEF TypeOK, Typed, reader, texts, Files
<1>5. \A t \in Threads : Home(t) \in Procs => Home(t)' = Home(t)
  BY <1>2, <1>3 DEF Home
<1>6. FileInv' /\ OrderInv'
  <2>1. \A t \in Threads : emitted'[t] = emitted[t] /\ emitted[t] <= emitted'[t]
    BY <1>1 DEF Typed
  <2> QED BY <1>1, <1>4, <1>5, <2>1, FilesKept DEF LinesInv
<1>7. \A t \in Threads : /\ Writes(t)' = Writes(t) /\ Current(t)' = Current(t)
                         /\ Writes(t) => Home(t)' = Home(t)
  BY <1>1, <1>5 DEF Writes, Current, LinesInv, WriterInv, Files
<1>8. WriterInv'
  <2>1. \A q \in Procs : status'[q] = "unborn" => path'[q] = Unresolved
    BY <1>3 DEF LinesInv, WriterInv
  <2>2. \A t \in Threads : emitted'[t] > 0 => Home(t)' \in Files
    BY <1>1, <1>5 DEF LinesInv, WriterInv, Files
  <2> QED BY <1>1, <1>7, <2>1, <2>2 DEF LinesInv, WriterInv
<1>9. AppendInv'
  BY <1>1, <1>7 DEF LinesInv, AppendInv
<1> QED BY <1>4, <1>6, <1>8, <1>9 DEF LinesInv

-----------------------------------------------------------------------------
(* The reader, while the files only grow *)

Grown ==
  \A f \in Files : /\ Len(file[f]) <= Len(file'[f])
                   /\ \A i \in DOMAIN file[f] : i \in DOMAIN file'[f] /\ file'[f][i] = file[f][i]

LEMMA SameEnds ==
  ASSUME NEW s, NEW t, NEW n \in Nat, NEW k \in 1..n, \A i \in 1..n : t[i] = s[i]
  PROVE  EndsEvent(t, k) <=> EndsEvent(s, k)
<1>1. k \in Int /\ (k > 1 => k - 1 \in 1..n) /\ (k > 2 => k - 2 \in 1..n) /\ (k > 3 => k - 3 \in 1..n)
  OBVIOUS
<1>2. CASE k > 2
  BY <1>1, <1>2 DEF EndsEvent
<1>3. CASE ~(k > 2)
  BY <1>3 DEF EndsEvent
<1> QED BY <1>2, <1>3

TextInv == PartialInv /\ CutInv /\ AppliedInv /\ ChunksDoNotMatter /\ DamageIsACut /\ InOrderOnce

LEMMA ReaderTypes ==
  ASSUME TypeOK, NEW f \in Files
  PROVE  /\ file[f] \in Seq(Cells) /\ Len(file[f]) \in Nat /\ DOMAIN file[f] = 1..Len(file[f])
         /\ offset[f] \in Nat /\ offset[f] <= Len(file[f])
         /\ partial[f] \in Seq(Chars) /\ Len(partial[f]) \in Nat /\ DOMAIN partial[f] = 1..Len(partial[f])
         /\ cuts[f] \subseteq Events
<1>1. file[f] \in Seq(Cells) /\ partial[f] \in Seq(Chars) /\ offset[f] \in Nat /\ cuts[f] \subseteq Events
  BY DEF TypeOK
<1> QED BY <1>1 DEF TypeOK

Applicable == [file : Files, event : Events, whole : BOOLEAN]

LEMMA AppliedTypes ==
  ASSUME TypeOK, NEW i \in DOMAIN applied
  PROVE  applied[i].file \in Files /\ applied[i].event \in Events /\ applied[i].whole \in BOOLEAN
<1>1. applied \in Seq(Applicable)
  BY DEF TypeOK, Applicable
<1>2. applied[i] \in Applicable
  BY <1>1
<1> QED BY <1>2 DEF Applicable

LEMMA TextKept ==
  ASSUME TypeOK, TypeOK', TextInv, UNCHANGED texts, Grown
  PROVE  TextInv'
<1>1. /\ offset' = offset /\ partial' = partial /\ applied' = applied /\ cuts' = cuts
  BY DEF texts
<1>2. ASSUME NEW f \in Files, NEW k \in 1..offset[f]
      PROVE  k \in DOMAIN file[f] /\ file'[f][k] = file[f][k]
  BY <1>2, ReaderTypes DEF Grown
<1>3. ASSUME NEW f \in Files, NEW k \in 1..offset[f]
      PROVE  EndsEvent(file'[f], k) <=> EndsEvent(file[f], k)
  <2>1. offset[f] \in Nat
    BY ReaderTypes
  <2> QED BY <1>2, <2>1, SameEnds
<1>4. ASSUME NEW f \in Files
      PROVE  /\ Base(f)' = Base(f) /\ Base(f) <= offset[f] /\ Base(f) \in Nat
             /\ \A i \in DOMAIN partial[f] : Base(f) + i \in 1..offset[f]
  BY <1>1, ReaderTypes DEF Base, TextInv, PartialInv
<1>5. PartialInv'
  BY <1>1, <1>2, <1>4 DEF TextInv, PartialInv
<1>6. CutInv'
  BY <1>1, <1>2 DEF TextInv, CutInv
<1>7. AppliedInv'
  <2> SUFFICES ASSUME NEW i \in DOMAIN applied
               PROVE  \E k \in 1..Base(applied[i].file)' :
                        /\ EndsEvent(file'[applied[i].file], k)
                        /\ file'[applied[i].file][k].event = applied[i].event
    BY <1>1 DEF AppliedInv
  <2>1. PICK f \in Files : f = applied[i].file
    BY AppliedTypes
  <2>2. PICK k \in 1..Base(f) : EndsEvent(file[f], k) /\ file[f][k].event = applied[i].event
    BY <2>1 DEF TextInv, AppliedInv
  <2>3. k \in 1..offset[f] /\ k \in 1..Base(f)'
    <3>1. /\ Base(f)' = Base(f) /\ Base(f) \in Nat /\ Base(f) <= offset[f] /\ offset[f] \in Nat
      BY <1>4, ReaderTypes
    <3> HIDE DEF Base
    <3> QED BY <3>1
  <2>4. EndsEvent(file'[f], k) /\ file'[f][k].event = applied[i].event
    BY <1>2, <1>3, <2>2, <2>3
  <2>5. Base(applied[i].file)' = Base(f)'
    BY <1>1, <2>1 DEF Base
  <2> QED BY <2>1, <2>3, <2>4, <2>5
<1>8. \A f \in Files : AppliedFrom(f)' = AppliedFrom(f) /\ Complete(f)' = Complete(f)
  BY <1>1, <1>3 DEF AppliedFrom, Complete
<1>9. \A f \in Files : \A k \in Complete(f) : file'[f][k] = file[f][k]
  BY <1>2 DEF Complete
<1>10. ChunksDoNotMatter'
  <2>1. ASSUME NEW f \in Files
        PROVE  /\ {applied[i].event : i \in AppliedFrom(f)} = {file'[f][k].event : k \in Complete(f)}
               /\ \A i, j \in AppliedFrom(f), k, l \in Complete(f) :
                    i < j /\ applied[i].event = file'[f][k].event /\ applied[j].event = file'[f][l].event
                      => k < l
    BY <1>9 DEF TextInv, ChunksDoNotMatter
  <2> QED BY <1>1, <1>8, <2>1 DEF ChunksDoNotMatter
<1>11. DamageIsACut' /\ InOrderOnce'
  BY <1>1 DEF TextInv, DamageIsACut, InOrderOnce
<1> QED BY <1>5, <1>6, <1>7, <1>10, <1>11 DEF TextInv

-----------------------------------------------------------------------------
(* What a read makes of a text *)

(* Induction over the natural numbers, by their least element *)
LEMMA Induct ==
  ASSUME NEW S, 0 \in S, \A n \in Nat : n \in S => n + 1 \in S
  PROVE  \A n \in Nat : n \in S
<1> SUFFICES ASSUME NEW m \in Nat, m \notin S PROVE FALSE
  OBVIOUS
<1> DEFINE Rest == Nat \ S
           Below == {ss \in Nat \X Nat : ss[1] < ss[2]}
<1>1. IsWellFoundedOn(Below, Nat)
  BY NatLessThanWellFounded DEF OpToRel
<1>2. PICK n \in Rest : \A k \in Rest : ~(<<k, n>> \in Below)
  <2>1. Rest # {} /\ Rest \subseteq Nat
    OBVIOUS
  <2> HIDE DEF Rest, Below
  <2> QED BY <1>1, <2>1, WFMin
<1>3. \A k \in Rest : ~(k < n)
  BY <1>2
<1>4. n # 0 /\ n - 1 \in Nat /\ n - 1 < n
  OBVIOUS
<1>5. n - 1 \in S
  BY <1>3, <1>4
<1>6. n - 1 + 1 = n
  OBVIOUS
<1> QED BY <1>4, <1>5, <1>6

(* The fragment is what follows the last newline. *)
LEMMA FragmentIs ==
  ASSUME NEW text \in Seq(Chars)
  PROVE  \E last \in 0..Len(text) :
           /\ Fragment(text) = SubSeq(text, last + 1, Len(text))
           /\ last > 0 => text[last].part = "nl"
           /\ \A i \in last + 1..Len(text) : text[i].part # "nl"
<1> DEFINE afterLast == {i \in 0..Len(text) : \A k \in Newlines(text) : k <= i}
           last == CHOOSE i \in afterLast : \A k \in afterLast : i <= k
           Below == {ss \in Nat \X Nat : ss[1] < ss[2]}
<1>1. Len(text) \in Nat /\ DOMAIN text = 1..Len(text) /\ Len(text) \in afterLast /\ afterLast \subseteq Nat
  BY DEF Newlines
<1>2. IsWellFoundedOn(Below, Nat)
  BY NatLessThanWellFounded DEF OpToRel
<1>3. PICK n \in afterLast : \A k \in afterLast : ~(<<k, n>> \in Below)
  <2> HIDE DEF afterLast, Below
  <2> QED BY <1>1, <1>2, WFMin
<1>4. n \in afterLast /\ \A k \in afterLast : n <= k
  <2>1. \A k \in afterLast : ~(k < n) /\ k \in Nat /\ n \in Nat
    BY <1>1, <1>3
  <2> HIDE DEF afterLast
  <2> QED BY <2>1
<1>5. last \in afterLast /\ \A k \in afterLast : last <= k
  <2> HIDE DEF afterLast
  <2> QED BY <1>4
<1>6. Fragment(text) = SubSeq(text, last + 1, Len(text))
  BY DEF Fragment
<1> HIDE DEF last
<1>7. last \in 0..Len(text) /\ \A k \in Newlines(text) : k <= last
  BY <1>5
<1>8. \A i \in last + 1..Len(text) : text[i].part # "nl"
  BY <1>1, <1>7 DEF Newlines
<1>9. ASSUME last > 0, text[last].part # "nl" PROVE FALSE
  <2>1. last - 1 \in 0..Len(text)
    BY <1>7, <1>9, <1>1
  <2>2. \A k \in Newlines(text) : k # last /\ k \in 1..Len(text)
    BY <1>1, <1>9 DEF Newlines
  <2>3. last - 1 \in afterLast
    BY <1>1, <1>7, <2>1, <2>2
  <2> QED BY <1>5, <1>7, <2>3
<1> QED BY <1>6, <1>7, <1>8, <1>9

(***************************************************************************)
(* upTo is what it says, and what it collects are the entries at the ends  *)
(* of the events in the text, in the order of the text.                    *)
(***************************************************************************)
IsUpTo(u, f, text, n) ==
  u = [i \in 0..n |->
        IF i = 0 THEN <<>>
        ELSE IF EndsEvent(text, i) THEN Append(u[i - 1], Entry(f, text, i)) ELSE u[i - 1]]

LEMMA UpToExists ==
  ASSUME NEW f, NEW text, NEW n \in Nat
  PROVE  \E u : IsUpTo(u, f, text, n)
<1> DEFINE S == {m \in Nat : \E u : IsUpTo(u, f, text, m)}
<1>1. 0 \in S
  <2> DEFINE u == [i \in 0..0 |-> <<>>]
  <2>1. IsUpTo(u, f, text, 0)
    BY DEF IsUpTo
  <2> QED BY <2>1
<1>2. ASSUME NEW m \in Nat, m \in S PROVE m + 1 \in S
  <2>1. PICK u : IsUpTo(u, f, text, m)
    BY <1>2
  <2> DEFINE next == IF EndsEvent(text, m + 1) THEN Append(u[m], Entry(f, text, m + 1)) ELSE u[m]
             v == [i \in 0..m + 1 |-> IF i = m + 1 THEN next ELSE u[i]]
  <2>2. \A i \in 0..m : u[i] = IF i = 0 THEN <<>>
                               ELSE IF EndsEvent(text, i) THEN Append(u[i - 1], Entry(f, text, i))
                                                          ELSE u[i - 1]
    BY <2>1 DEF IsUpTo
  <2>3. ASSUME NEW i \in 0..m + 1
        PROVE  v[i] = IF i = 0 THEN <<>>
                      ELSE IF EndsEvent(text, i) THEN Append(v[i - 1], Entry(f, text, i)) ELSE v[i - 1]
    <3>1. CASE i = m + 1
      <4>1. v[i] = next /\ v[i - 1] = u[m] /\ i # 0 /\ i - 1 = m
        BY <3>1
      <4> QED BY <3>1, <4>1
    <3>2. CASE i \in 0..m
      <4>1. v[i] = u[i] /\ (i # 0 => v[i - 1] = u[i - 1])
        BY <3>2
      <4> QED BY <2>2, <3>2, <4>1
    <3> QED BY <3>1, <3>2
  <2>4. IsUpTo(v, f, text, m + 1)
    <3>1. v = [i \in 0..m + 1 |-> v[i]]
      OBVIOUS
    <3> HIDE DEF v
    <3> QED BY <2>3, <3>1 DEF IsUpTo
  <2> QED BY <2>4
<1>3. \A m \in Nat : m \in S
  <2> HIDE DEF S
  <2> QED BY <1>1, <1>2, Induct
<1> QED BY <1>3

Collects(p, at, f, text, n) ==
  /\ at \in [1..Len(p) -> 1..n]
  /\ \A k \in 1..Len(p) : EndsEvent(text, at[k]) /\ p[k] = Entry(f, text, at[k])
  /\ \A j, k \in 1..Len(p) : j < k => at[j] < at[k]
  /\ \A i \in 1..n : EndsEvent(text, i) => \E k \in 1..Len(p) : at[k] = i

LEMMA EntryType ==
  ASSUME NEW f \in Files, NEW text \in Seq(Chars), NEW i \in 1..Len(text), EndsEvent(text, i)
  PROVE  Entry(f, text, i) \in Applicable
<1>1. i - 1 \in 1..Len(text) /\ i - 2 \in 1..Len(text)
  BY DEF EndsEvent
<1>2. text[i] \in Chars /\ text[i - 1] \in Chars /\ text[i - 2] \in Chars
  BY <1>1
<1> QED BY <1>2 DEF Entry, Applicable, Chars

LEMMA CollectsNext ==
  ASSUME NEW f \in Files, NEW text \in Seq(Chars), NEW m \in 0..Len(text) - 1,
         NEW p \in Seq(Applicable), NEW at, Collects(p, at, f, text, m),
         NEW q, q = IF EndsEvent(text, m + 1) THEN Append(p, Entry(f, text, m + 1)) ELSE p
  PROVE  q \in Seq(Applicable) /\ \E bt : Collects(q, bt, f, text, m + 1)
<1>1. Len(text) \in Nat /\ m \in Nat /\ m + 1 \in 1..Len(text) /\ Len(p) \in Nat
  OBVIOUS
<1>2. CASE ~EndsEvent(text, m + 1)
  <2>1. Collects(p, at, f, text, m + 1)
    BY <1>1, <1>2 DEF Collects
  <2> QED BY <1>2, <2>1
<1>3. CASE EndsEvent(text, m + 1)
  <2> DEFINE x == Entry(f, text, m + 1)
             bt == [k \in 1..Len(p) + 1 |-> IF k = Len(p) + 1 THEN m + 1 ELSE at[k]]
  <2>1. x \in Applicable /\ q = Append(p, x)
    BY <1>1, <1>3, EntryType
  <2> HIDE DEF x
  <2>2. /\ q \in Seq(Applicable) /\ Len(q) = Len(p) + 1 /\ q[Len(p) + 1] = x
        /\ \A k \in 1..Len(p) : q[k] = p[k]
    BY <2>1, AppendProperties
  <2>3. ASSUME NEW k \in 1..Len(p)
        PROVE  bt[k] = at[k] /\ at[k] \in 1..m /\ k \in 1..Len(p) + 1 /\ k < Len(p) + 1
    <3>1. k \in 1..Len(p) + 1 /\ k # Len(p) + 1 /\ k < Len(p) + 1
      BY <1>1
    <3> QED BY <3>1 DEF Collects
  <2>4. bt[Len(p) + 1] = m + 1 /\ Len(p) + 1 \in 1..Len(p) + 1
    BY <1>1
  <2>5. \A k \in 1..Len(p) + 1 : k \in 1..Len(p) \/ k = Len(p) + 1
    BY <1>1
  <2>6. bt \in [1..Len(p) + 1 -> 1..m + 1]
    <3>1. \A k \in 1..Len(p) + 1 : (IF k = Len(p) + 1 THEN m + 1 ELSE at[k]) \in 1..m + 1
      <4>1. \A k \in 1..Len(p) : at[k] \in 1..m + 1
        <5>1. at \in [1..Len(p) -> 1..m] /\ 1..m \subseteq 1..m + 1
          BY <1>1 DEF Collects
        <5> QED BY <5>1
      <4> QED BY <1>1, <2>5, <4>1
    <3> QED BY <3>1
  <2> HIDE DEF bt
  <2>7. \A k \in 1..Len(p) + 1 : EndsEvent(text, bt[k]) /\ q[k] = Entry(f, text, bt[k])
    <3>1. ASSUME NEW k \in 1..Len(p) PROVE EndsEvent(text, bt[k]) /\ q[k] = Entry(f, text, bt[k])
      BY <2>2, <2>3 DEF Collects
    <3>2. EndsEvent(text, bt[Len(p) + 1]) /\ q[Len(p) + 1] = Entry(f, text, bt[Len(p) + 1])
      BY <1>3, <2>2, <2>4 DEF x
    <3> QED BY <2>5, <3>1, <3>2
  <2>8. \A j, k \in 1..Len(p) + 1 : j < k => bt[j] < bt[k]
    <3>1. \A j, k \in 1..Len(p) : j < k => bt[j] < bt[k]
      BY <2>3 DEF Collects
    <3>2. \A j \in 1..Len(p) : bt[j] < bt[Len(p) + 1]
      <4>1. \A j \in 1..Len(p) : bt[j] \in 1..m
        BY <2>3
      <4> QED BY <1>1, <2>4, <4>1
    <3>3. \A k \in 1..Len(p) + 1 : ~(Len(p) + 1 < k)
      BY <1>1
    <3> QED BY <2>5, <3>1, <3>2, <3>3
  <2>9. \A i \in 1..m + 1 : EndsEvent(text, i) => \E k \in 1..Len(p) + 1 : bt[k] = i
    <3>1. ASSUME NEW i \in 1..m, EndsEvent(text, i) PROVE \E k \in 1..Len(p) + 1 : bt[k] = i
      <4>1. PICK k \in 1..Len(p) : at[k] = i
        BY <3>1 DEF Collects
      <4> QED BY <2>3, <4>1
    <3>2. \A i \in 1..m + 1 : i \in 1..m \/ i = m + 1
      BY <1>1
    <3> QED BY <2>4, <3>1, <3>2
  <2>10. Collects(q, bt, f, text, m + 1)
    BY <2>2, <2>6, <2>7, <2>8, <2>9 DEF Collects
  <2> QED BY <2>2, <2>10
<1> QED BY <1>2, <1>3

LEMMA ParsedIs ==
  ASSUME NEW f \in Files, NEW text \in Seq(Chars)
  PROVE  /\ Parsed(f, text) \in Seq(Applicable)
         /\ \E at : Collects(Parsed(f, text), at, f, text, Len(text))
<1> DEFINE n == Len(text)
           u == CHOOSE v : IsUpTo(v, f, text, n)
           S == {m \in Nat : m <= n => u[m] \in Seq(Applicable) /\ \E at : Collects(u[m], at, f, text, m)}
<1>1. n \in Nat /\ IsUpTo(u, f, text, n)
  BY UpToExists
<1>2. Parsed(f, text) = u[n]
  BY DEF Parsed, IsUpTo
<1> HIDE DEF u
<1>3. \A i \in 0..n : u[i] = IF i = 0 THEN <<>>
                             ELSE IF EndsEvent(text, i) THEN Append(u[i - 1], Entry(f, text, i))
                                                        ELSE u[i - 1]
  BY <1>1 DEF IsUpTo
<1>4. 0 \in S
  <2>1. u[0] = <<>> /\ <<>> \in Seq(Applicable)
    BY <1>1, <1>3
  <2>2. Collects(<<>>, <<>>, f, text, 0)
    BY DEF Collects
  <2> QED BY <2>1, <2>2
<1>5. ASSUME NEW m \in Nat, m \in S PROVE m + 1 \in S
  <2> SUFFICES ASSUME m + 1 <= n
               PROVE  u[m + 1] \in Seq(Applicable) /\ \E at : Collects(u[m + 1], at, f, text, m + 1)
    OBVIOUS
  <2>1. m \in 0..Len(text) - 1
    BY <1>1
  <2>2. u[m] \in Seq(Applicable) /\ \E at : Collects(u[m], at, f, text, m)
    BY <1>1, <1>5
  <2>3. PICK at : Collects(u[m], at, f, text, m)
    BY <2>2
  <2>4. u[m + 1] = IF EndsEvent(text, m + 1) THEN Append(u[m], Entry(f, text, m + 1)) ELSE u[m]
    BY <1>1, <1>3, <2>1
  <2> QED BY <2>1, <2>2, <2>3, <2>4, CollectsNext
<1>6. n \in S
  <2> HIDE DEF S
  <2> QED BY <1>1, <1>4, <1>5, Induct
<1> QED BY <1>2, <1>6

-----------------------------------------------------------------------------
(* A read of a file that has grown *)

(* No two lines of a file have the same part of one event. *)
LEMMA OnePlace ==
  ASSUME TypeOK, OrderInv, NEW f \in Files, NEW i \in DOMAIN file[f], NEW k \in DOMAIN file[f],
         file[f][i].part = file[f][k].part, file[f][i].event = file[f][k].event
  PROVE  i = k
<1>1. file[f] \in Seq(Cells) /\ file[f][i] \in Cells /\ file[f][k] \in Cells /\ i \in Int /\ k \in Int
  BY ReaderTypes
<1>2. file[f][i].event[2] \in Nat /\ file[f][k].event[2] \in Nat
  BY <1>1, CellFields
<1>3. ~(i < k)
  BY <1>2 DEF OrderInv
<1>4. ~(k < i)
  BY <1>2 DEF OrderInv
<1> QED BY <1>1, <1>3, <1>4

Place(f, i) == Base(f) + i

LEMMA DecodeIs ==
  ASSUME NEW c \in Seq(Cells)
  PROVE  /\ Decode(c) \in Seq(Chars) /\ Len(Decode(c)) = Len(c)
         /\ \A i \in 1..Len(c) :
              /\ Decode(c)[i].event = c[i].event /\ Decode(c)[i].part = c[i].part
              /\ c[i].part = "head" =>
                   (Decode(c)[i].whole <=> i < Len(c) /\ c[i + 1].part = "tail")
              /\ c[i].part = "tail" => (Decode(c)[i].whole <=> i > 1)
<1> DEFINE Whole(i) == CASE c[i].part = "head" -> i < Len(c) /\ c[i + 1].part = "tail"
                         [] c[i].part = "tail" -> i > 1
                         [] OTHER -> TRUE
<1>1. Len(c) \in Nat /\ DOMAIN c = 1..Len(c) /\ \A i \in 1..Len(c) : c[i] \in Cells
  OBVIOUS
<1>2. Decode(c) = [i \in 1..Len(c) |-> [event |-> c[i].event, part |-> c[i].part, whole |-> Whole(i)]]
  BY <1>1, Zenon DEF Decode
<1>3. ASSUME NEW i \in 1..Len(c)
      PROVE  /\ Whole(i) \in BOOLEAN
             /\ c[i].part = "head" => (Whole(i) <=> i < Len(c) /\ c[i + 1].part = "tail")
             /\ c[i].part = "tail" => (Whole(i) <=> i > 1)
  <2>1. CASE c[i].part = "head"
    <3>1. Whole(i) = (i < Len(c) /\ c[i + 1].part = "tail")
      BY <2>1, Zenon
    <3>2. c[i].part # "tail"
      BY <2>1
    <3> HIDE DEF Whole
    <3> QED BY <2>1, <3>1, <3>2
  <2>2. CASE c[i].part = "tail"
    <3>1. c[i].part # "head"
      BY <2>2
    <3>2. Whole(i) = (i > 1)
      BY <2>2, <3>1, Zenon
    <3>3. (i > 1) \in BOOLEAN
      OBVIOUS
    <3>4. Whole(i) \in BOOLEAN /\ (Whole(i) <=> i > 1)
      <4> HIDE DEF Whole
      <4> QED BY <3>2, <3>3, Zenon
    <3> HIDE DEF Whole
    <3> QED BY <2>2, <3>1, <3>4
  <2>3. CASE c[i].part \notin {"head", "tail"}
    <3>1. c[i].part # "head" /\ c[i].part # "tail"
      BY <2>3
    <3>2. Whole(i) = TRUE
      BY <3>1, Zenon
    <3> HIDE DEF Whole
    <3> QED BY <3>1, <3>2
  <2> HIDE DEF Whole
  <2> QED BY <2>1, <2>2, <2>3
<1> HIDE DEF Whole
<1>4. ASSUME NEW i \in 1..Len(c)
      PROVE  /\ Decode(c)[i] \in Chars /\ Decode(c)[i].event = c[i].event
             /\ Decode(c)[i].part = c[i].part /\ Decode(c)[i].whole = Whole(i)
  <2>1. Decode(c)[i] = [event |-> c[i].event, part |-> c[i].part, whole |-> Whole(i)]
    BY <1>2
  <2>2. c[i].event \in Events /\ c[i].part \in Parts
    BY <1>1 DEF Cells
  <2> QED BY <1>3, <2>1, <2>2 DEF Chars
<1>5. Decode(c) \in [1..Len(c) -> Chars]
  <2>1. Decode(c) = [i \in 1..Len(c) |-> Decode(c)[i]]
    BY <1>2
  <2> QED BY <1>4, <2>1
<1>6. Decode(c) \in Seq(Chars) /\ Len(Decode(c)) = Len(c)
  BY <1>1, <1>5
<1> QED BY <1>3, <1>4, <1>6

(* What the decoder makes of the parts of a character *)
DecodedAt(f, i) ==
  /\ file[f][Place(f, i)].part = "head" =>
       (Text(f)[i].whole <=> Place(f, i) < Len(file[f]) /\ file[f][Place(f, i) + 1].part = "tail")
  /\ file[f][Place(f, i)].part = "tail" => (Text(f)[i].whole <=> Place(f, i) > offset[f] + 1)

(* The text a read has is the file from the beginning of the line. *)
LEMMA TextIs ==
  ASSUME TypeOK, PartialInv, NEW f \in Files, offset[f] < Len(file[f])
  PROVE  /\ Text(f) \in Seq(Chars) /\ Len(Text(f)) = Len(file[f]) - Base(f)
         /\ Base(f) \in Nat /\ Base(f) <= offset[f]
         /\ \A i \in 1..Len(Text(f)) :
              /\ Place(f, i) \in 1..Len(file[f])
              /\ Text(f)[i].event = file[f][Place(f, i)].event
              /\ Text(f)[i].part = file[f][Place(f, i)].part
              /\ Place(f, i) <= offset[f] => i \in DOMAIN partial[f] /\ Text(f)[i] = partial[f][i]
              /\ Place(f, i) > offset[f] => DecodedAt(f, i)
<1> DEFINE t == file[f]
           o == offset[f]
           c == New(f)
           d == Decode(c)
           m == Len(partial[f])
<1>1. /\ t \in Seq(Cells) /\ Len(t) \in Nat /\ o \in Nat /\ o < Len(t)
      /\ partial[f] \in Seq(Chars) /\ m \in Nat /\ DOMAIN partial[f] = 1..m
  BY ReaderTypes
<1>2. /\ c \in Seq(Cells) /\ Len(c) = Len(t) - o
      /\ \A i \in 1..Len(t) - o : c[i] = t[o + i]
  <2>1. c = SubSeq(t, o + 1, Len(t))
    BY DEF New
  <2> HIDE DEF c
  <2>2. o + 1 \in 1..Len(t) /\ Len(t) \in 1..Len(t)
    BY <1>1
  <2> HIDE DEF t, o
  <2> QED BY <1>1, <2>1, <2>2, SubSeqProperties
<1> HIDE DEF c
<1>4. /\ d \in Seq(Chars) /\ Len(d) = Len(t) - o
      /\ \A i \in 1..Len(t) - o :
           /\ d[i].event = c[i].event /\ d[i].part = c[i].part
           /\ c[i].part = "head" => (d[i].whole <=> i < Len(t) - o /\ c[i + 1].part = "tail")
           /\ c[i].part = "tail" => (d[i].whole <=> i > 1)
  BY <1>2, DecodeIs
<1>5. /\ Text(f) \in Seq(Chars) /\ Len(Text(f)) = m + Len(d)
      /\ \A i \in 1..m + Len(d) :
           Text(f)[i] = IF i <= m THEN partial[f][i] ELSE d[i - m]
  <2> DEFINE r == partial[f]
  <2>1. Text(f) = r \o d
    BY DEF Text, c
  <2>2. r \in Seq(Chars) /\ m = Len(r) /\ d \in Seq(Chars)
    BY <1>1, <1>4
  <2>3. /\ r \o d \in Seq(Chars) /\ Len(r \o d) = Len(r) + Len(d)
        /\ \A i \in 1..Len(r) + Len(d) : (r \o d)[i] = IF i <= Len(r) THEN r[i] ELSE d[i - Len(r)]
    <3> HIDE DEF d, r, m
    <3> QED BY <2>2, ConcatProperties
  <2> HIDE DEF d
  <2> QED BY <2>1, <2>3
<1> HIDE DEF d
<1>6. Base(f) = o - m /\ Base(f) \in Nat /\ Base(f) <= o /\ Len(Text(f)) = Len(t) - Base(f)
  BY <1>1, <1>4, <1>5 DEF Base, PartialInv
<1>7. ASSUME NEW i \in 1..Len(Text(f)), i <= m
      PROVE  /\ Place(f, i) \in 1..Len(t) /\ Place(f, i) <= o
             /\ i \in DOMAIN partial[f] /\ Text(f)[i] = partial[f][i]
             /\ Text(f)[i].event = t[Place(f, i)].event
             /\ Text(f)[i].part = t[Place(f, i)].part
  <2>1. i \in DOMAIN partial[f] /\ Text(f)[i] = partial[f][i]
    BY <1>1, <1>5, <1>7
  <2>2. Place(f, i) \in 1..Len(t) /\ Place(f, i) <= o
    BY <1>1, <1>6, <1>7 DEF Place
  <2> QED BY <2>1, <2>2 DEF PartialInv, Place
<1>8. ASSUME NEW i \in 1..Len(Text(f)), i > m
      PROVE  /\ Place(f, i) \in 1..Len(t) /\ Place(f, i) > o
             /\ Text(f)[i].event = t[Place(f, i)].event
             /\ Text(f)[i].part = t[Place(f, i)].part
             /\ DecodedAt(f, i)
  <2> DEFINE j == i - m
             pl == Place(f, i)
  <2> HIDE DEF t, o, m
  <2>1. /\ j \in 1..Len(t) - o /\ Text(f)[i] = d[j]
        /\ pl = o + j /\ pl \in 1..Len(t) /\ pl > o
        /\ (j < Len(t) - o <=> pl < Len(t)) /\ (j > 1 <=> pl > o + 1)
    <3>1. /\ i \in 1..m + (Len(t) - o) /\ i > m /\ m \in Nat /\ Base(f) = o - m
          /\ Len(t) \in Nat /\ o \in Nat /\ o < Len(t)
      BY <1>1, <1>4, <1>5, <1>6, <1>8
    <3>2. ~(i <= m)
      BY <3>1
    <3>3. Text(f)[i] = d[j]
      BY <1>4, <1>5, <3>1, <3>2
    <3>4. i \in Int /\ Len(t) - o \in Int /\ j \in 1..Len(t) - o
      BY <3>1
    <3>5. pl = o + j
      BY <3>1, <3>4 DEF Place
    <3> HIDE DEF j, pl
    <3> QED BY <3>1, <3>3, <3>4, <3>5
  <2> HIDE DEF j, pl
  <2>2. c[j] = t[pl]
    BY <1>2, <2>1
  <2>3. pl < Len(t) => c[j + 1] = t[pl + 1]
    <3>1. pl < Len(t) => j + 1 \in 1..Len(t) - o /\ o + (j + 1) = pl + 1
      BY <1>1, <2>1
    <3> QED BY <1>2, <3>1
  <2>5. /\ d[j].event = c[j].event /\ d[j].part = c[j].part
        /\ c[j].part = "head" => (d[j].whole <=> j < Len(t) - o /\ c[j + 1].part = "tail")
        /\ c[j].part = "tail" => (d[j].whole <=> j > 1)
    BY <1>4, <2>1
  <2>6. /\ t[pl].part = "head" => (Text(f)[i].whole <=> pl < Len(t) /\ t[pl + 1].part = "tail")
        /\ t[pl].part = "tail" => (Text(f)[i].whole <=> pl > o + 1)
    BY <2>1, <2>2, <2>3, <2>5
  <2> QED BY <2>1, <2>2, <2>5, <2>6 DEF DecodedAt, pl, t, o
<1>9. \A i \in 1..Len(Text(f)) : i <= m \/ i > m
  BY <1>1, <1>5
<1>10. \A i \in 1..Len(Text(f)) : ~(Place(f, i) <= o /\ Place(f, i) > o)
  BY <1>1, <1>6 DEF Place
<1> HIDE DEF m
<1> QED BY <1>5, <1>6, <1>7, <1>8, <1>9, <1>10

LEMMA EndsIs ==
  ASSUME TypeOK, PartialInv, NEW f \in Files, offset[f] < Len(file[f]),
         NEW i \in 1..Len(Text(f))
  PROVE  EndsEvent(Text(f), i) <=> EndsEvent(file[f], Place(f, i))
<1> DEFINE t == file[f]
           b == Base(f)
           x == Text(f)
<1>1. /\ b \in Nat /\ Len(t) \in Nat /\ Len(x) \in Nat /\ DOMAIN x = 1..Len(x)
      /\ \A k \in 1..Len(x) : x[k].event = t[b + k].event /\ x[k].part = t[b + k].part
  <2>1. x \in Seq(Chars) /\ b \in Nat /\ Len(t) \in Nat
    BY TextIs, ReaderTypes
  <2> QED BY <2>1, TextIs DEF Place
<1>2. b > 0 => t[b].part = "nl"
  BY DEF PartialInv
<1>3. Place(f, i) = b + i
  BY DEF Place
<1> HIDE DEF t, b, x
<1>4. CASE i <= 2
  <2>1. i = 1 \/ i = 2
    BY <1>4, <1>1
  <2>2. b > 0 => (i = 1 => b + i - 1 = b) /\ (i = 2 => b + i - 2 = b)
    BY <1>1
  <2>3. ~EndsEvent(t, b + i)
    BY <1>1, <1>2, <2>1, <2>2 DEF EndsEvent
  <2>4. ~EndsEvent(x, i)
    BY <1>4 DEF EndsEvent
  <2> QED BY <1>3, <2>3, <2>4 DEF t, x
<1>5. CASE i > 2
  <2> DEFINE pl == b + i
  <2>1. /\ i \in 1..Len(x) /\ i - 1 \in 1..Len(x) /\ i - 2 \in 1..Len(x)
        /\ i > 3 => i - 3 \in 1..Len(x)
        /\ b + (i - 1) = pl - 1 /\ b + (i - 2) = pl - 2 /\ b + (i - 3) = pl - 3
        /\ pl > 2 /\ pl \in Int
    <3>1. i \in Int /\ i <= Len(x) /\ i \in 1..Len(x)
      BY <1>1 DEF x
    <3>2. b \in Nat /\ Len(x) \in Nat
      BY <1>1
    <3>3. i - 1 \in 1..Len(x) /\ i - 2 \in 1..Len(x) /\ (i > 3 => i - 3 \in 1..Len(x))
      BY <1>5, <3>1, <3>2
    <3>4. b + (i - 1) = pl - 1 /\ b + (i - 2) = pl - 2 /\ b + (i - 3) = pl - 3 /\ pl > 2 /\ pl \in Int
      BY <1>5, <3>1, <3>2
    <3> QED BY <3>1, <3>3, <3>4
  <2>2. (i > 3 => x[i - 3].part = "nl") <=> (pl > 3 => t[pl - 3].part = "nl")
    <3>1. CASE i > 3
      <4>1. x[i - 3].part = t[pl - 3].part
        <5>1. i - 3 \in 1..Len(x) /\ b + (i - 3) = pl - 3
          BY <2>1, <3>1
        <5> HIDE DEF pl
        <5> QED BY <1>1, <5>1
      <4>2. pl > 3
        BY <1>1, <3>1, <2>1
      <4> QED BY <3>1, <4>1, <4>2
    <3>2. CASE i = 3
      <4>1. pl - 3 = b /\ (pl > 3 <=> b > 0) /\ ~(i > 3)
        BY <1>1, <3>2
      <4> QED BY <1>2, <4>1
    <3> QED BY <3>1, <3>2, <1>5, <2>1
  <2> HIDE DEF pl
  <2>3. /\ x[i].event = t[pl].event /\ x[i].part = t[pl].part
        /\ x[i - 1].event = t[pl - 1].event /\ x[i - 1].part = t[pl - 1].part
        /\ x[i - 2].part = t[pl - 2].part
    <3>1. x[i].event = t[pl].event /\ x[i].part = t[pl].part
      BY <1>1, <2>1 DEF pl
    <3>2. x[i - 1].event = t[pl - 1].event /\ x[i - 1].part = t[pl - 1].part
      BY <1>1, <2>1
    <3>3. x[i - 2].part = t[pl - 2].part
      BY <1>1, <2>1
    <3> QED BY <3>1, <3>2, <3>3
  <2>4. EndsEvent(x, i) <=> EndsEvent(t, pl)
    <3> DEFINE Three(s, k) == /\ s[k].part = "nl" /\ s[k - 1].part = "tail" /\ s[k - 2].part = "head"
                              /\ s[k - 1].event = s[k].event
    <3>1. Three(x, i) <=> Three(t, pl)
      BY <2>3
    <3>2. EndsEvent(x, i) <=> Three(x, i) /\ (i > 3 => x[i - 3].part = "nl")
      BY <1>5 DEF EndsEvent
    <3>3. EndsEvent(t, pl) <=> Three(t, pl) /\ (pl > 3 => t[pl - 3].part = "nl")
      BY <2>1 DEF EndsEvent
    <3> HIDE DEF Three
    <3> QED BY <2>2, <3>1, <3>2, <3>3
  <2> QED BY <1>3, <2>4 DEF t, x, pl
<1> QED BY <1>4, <1>5, <1>1

(* A character that goes on is not cut by this read. *)
LEMMA NotCutHere ==
  ASSUME TypeOK, OrderInv, NEW f \in Files, NEW k \in DOMAIN file[f], k < Len(file[f]),
         file[f][k].part = "head"
  PROVE  file[f][k].event \notin CutBy(f)
<1> SUFFICES ASSUME NEW e \in Events, e = file[f][k].event, e \in CutBy(f) PROVE FALSE
  BY DEF CutBy
<1>1. Len(file[f]) \in DOMAIN file[f] /\ Len(file[f]) # k
  BY ReaderTypes DEF CutBy
<1>2. file[f][Len(file[f])] = [event |-> e, part |-> "head"]
  BY DEF CutBy
<1> QED BY <1>1, <1>2, OnePlace

(* Of a line whose character is complete, the read knows if it was cut. *)
LEMMA WholeIs ==
  ASSUME TypeOK, LinesInv, TextInv, NEW f \in Files, offset[f] < Len(file[f]),
         NEW i \in 1..Len(Text(f)), Text(f)[i].part = "tail"
  PROVE  /\ i - 1 \in 1..Len(Text(f)) /\ Text(f)[i - 1].part = "head"
         /\ Text(f)[i - 1].event = Text(f)[i].event
         /\ Text(f)[i - 1].whole /\ Text(f)[i].whole
              <=> Text(f)[i].event \notin cuts[f] \cup CutBy(f)
<1> DEFINE t == file[f]
           b == Base(f)
           x == Text(f)
           o == offset[f]
           pl == Place(f, i)
           e == x[i].event
<1>1. /\ b \in Nat /\ b <= o /\ Len(t) \in Nat /\ DOMAIN t = 1..Len(t) /\ o \in Nat /\ o < Len(t)
      /\ x \in Seq(Chars) /\ Len(x) = Len(t) - b
  BY TextIs, ReaderTypes DEF TextInv
<1>2. \A k \in 1..Len(x) : /\ b + k \in 1..Len(t) /\ x[k].event = t[b + k].event /\ x[k].part = t[b + k].part
                           /\ b + k <= o => k \in DOMAIN partial[f] /\ x[k] = partial[f][k]
                           /\ b + k > o => DecodedAt(f, k)
  BY TextIs DEF Place, TextInv
<1>3. b > 0 => t[b].part = "nl"
  BY DEF TextInv, PartialInv
<1>4. i \in 1..Len(x) /\ pl = b + i /\ i \in Nat /\ pl \in 1..Len(t) /\ t[pl].part = "tail" /\ t[pl].event = e
  BY <1>1, <1>2 DEF Place
<1>5. pl > 1 /\ t[pl - 1] = Cell(e, "head")
  BY <1>1, <1>4 DEF LinesInv, FileInv
<1>6. t[pl - 1].part = "head" /\ t[pl - 1].event = e
  BY <1>5 DEF Cell
<1>7. i > 1
  <2> SUFFICES ASSUME i = 1 PROVE FALSE
    BY <1>4
  <2>1. b > 0 /\ pl - 1 = b
    BY <1>1, <1>4, <1>5
  <2> QED BY <1>3, <1>6, <2>1
<1> HIDE DEF t, b, x, o, pl, e
<1>8. i \in 1..Len(x) /\ i - 1 \in 1..Len(x) /\ b + (i - 1) = pl - 1 /\ pl - 1 \in 1..Len(t) /\ pl - 1 < Len(t)
  BY <1>1, <1>4, <1>7
<1>9. x[i - 1].part = "head" /\ x[i - 1].event = e
  BY <1>2, <1>6, <1>8
<1>10. e \notin CutBy(f)
  BY <1>1, <1>6, <1>8, NotCutHere DEF t, LinesInv
<1>11. x[i - 1].whole /\ x[i].whole <=> e \notin cuts[f]
  <2>1. CASE pl <= o
    <3>1. i \in DOMAIN partial[f] /\ x[i] = partial[f][i] /\ x[i - 1] = partial[f][i - 1]
      <4>1. b + i <= o /\ b + (i - 1) <= o
        BY <1>1, <1>4, <1>8, <2>1
      <4> QED BY <1>2, <1>8, <4>1
    <3>2. partial[f][i].part = "tail" /\ partial[f][i].event = e
      BY <3>1 DEF e, x
    <3> QED BY <3>1, <3>2 DEF TextInv, CutInv
  <2>2. CASE pl = o + 1
    <3>1. /\ i - 1 \in DOMAIN partial[f] /\ x[i - 1] = partial[f][i - 1]
      <4>1. b + (i - 1) <= o
        BY <1>1, <1>4, <1>8, <2>2
      <4> QED BY <1>2, <1>8, <4>1
    <3>2. i - 1 = Len(partial[f])
      <4>1. Base(f) = o - Len(partial[f]) /\ Len(partial[f]) \in Nat
        BY ReaderTypes DEF Base, o
      <4>2. b = o - Len(partial[f])
        BY <4>1 DEF b
      <4> QED BY <1>1, <1>4, <2>2, <4>1, <4>2
    <3>3. e \in cuts[f]
      BY <1>9, <3>1, <3>2 DEF TextInv, CutInv
    <3>4. ~x[i].whole
      <4>1. b + i > o /\ ~(pl > o + 1)
        BY <1>1, <1>4, <2>2
      <4>2. DecodedAt(f, i)
        BY <1>2, <1>8, <4>1
      <4>3. x[i].whole <=> pl > o + 1
        BY <1>4, <4>2 DEF DecodedAt, x, t, pl, o
      <4> QED BY <4>1, <4>3
    <3> QED BY <3>3, <3>4
  <2>3. CASE pl > o + 1
    <3>1. b + i > o /\ b + (i - 1) > o /\ pl - 1 > o
      BY <1>1, <1>4, <1>8, <2>3
    <3>2. x[i].whole
      <4>1. DecodedAt(f, i)
        BY <1>2, <1>8, <3>1
      <4> QED BY <1>4, <2>3, <4>1 DEF DecodedAt, x, t, pl, o
    <3>3. x[i - 1].whole
      <4>1. DecodedAt(f, i - 1)
        BY <1>2, <1>8, <3>1
      <4>2. Place(f, i - 1) = pl - 1
        BY <1>8 DEF Place, b
      <4>3. pl - 1 + 1 = pl
        BY <1>4
      <4> QED BY <1>4, <1>6, <1>8, <4>1, <4>2, <4>3 DEF DecodedAt, x, t
    <3>4. ASSUME e \in cuts[f] PROVE FALSE
      <4>1. PICK k \in 1..o : t[k] = Cell(e, "head")
        BY <3>4 DEF TextInv, CutInv, t, o
      <4>2. k \in 1..Len(t) /\ k # pl - 1
        BY <1>1, <3>1
      <4>3. k = pl - 1
        BY <1>1, <1>5, <1>8, <4>1, <4>2, OnePlace DEF t, LinesInv
      <4> QED BY <4>2, <4>3
    <3> QED BY <3>2, <3>3, <3>4
  <2> QED BY <1>1, <1>4, <2>1, <2>2, <2>3
<1> QED BY <1>8, <1>9, <1>10, <1>11 DEF x, e

(* The read leaves in _partial what follows the last newline of its text. *)
LeavesAfter(f, last) ==
  /\ Base(f)' = Base(f) + last
  /\ partial'[f] \in Seq(Chars) /\ Len(partial'[f]) = Len(Text(f)) - last
  /\ \A i \in DOMAIN partial'[f] : /\ last + i \in 1..Len(Text(f))
                                   /\ partial'[f][i] = Text(f)[last + i]
                                   /\ partial'[f][i].part # "nl"
  /\ last > 0 => Text(f)[last].part = "nl"
  /\ \A i \in 1..Len(Text(f)) : Text(f)[i].part = "nl" => i <= last

LEMMA ReadLeaves ==
  ASSUME TypeOK, TextInv, NEW f \in Files, offset[f] < Len(file[f]), ReadFile(f)
  PROVE  \E last \in 0..Len(Text(f)) : LeavesAfter(f, last)
<1> DEFINE x == Text(f)
           rest == Fragment(x)
<1>1. /\ x \in Seq(Chars) /\ Len(x) \in Nat /\ Base(f) \in Nat /\ Len(x) = Len(file[f]) - Base(f)
      /\ Len(file[f]) \in Nat
  BY TextIs, ReaderTypes DEF TextInv
<1>2. partial'[f] = rest /\ offset'[f] = Len(file[f])
  BY DEF ReadFile, TypeOK
<1> HIDE DEF x
<1>3. PICK last \in 0..Len(x) :
        /\ rest = SubSeq(x, last + 1, Len(x))
        /\ last > 0 => x[last].part = "nl"
        /\ \A i \in last + 1..Len(x) : x[i].part # "nl"
  BY <1>1, FragmentIs
<1> HIDE DEF rest
<1>4. /\ rest \in Seq(Chars) /\ Len(rest) = Len(x) - last
      /\ \A i \in 1..Len(x) - last : rest[i] = x[last + i]
  <2>1. \A i \in last + 1..Len(x) : x[i] \in Chars
    BY <1>1
  <2>2. /\ rest \in Seq(Chars)
        /\ Len(rest) = IF last + 1 <= Len(x) THEN Len(x) - (last + 1) + 1 ELSE 0
        /\ \A i \in 1..Len(x) - (last + 1) + 1 : rest[i] = x[last + 1 + i - 1]
    BY <1>1, <1>3, <2>1, SubSeqProperties
  <2>3. Len(x) - (last + 1) + 1 = Len(x) - last
    BY <1>1
  <2>4. \A i \in 1..Len(x) - last : last + 1 + i - 1 = last + i
    BY <1>1
  <2> QED BY <1>1, <2>2, <2>3, <2>4
<1>5. Base(f)' = Base(f) + last
  BY <1>1, <1>2, <1>4 DEF Base
<1>6. ASSUME NEW i \in DOMAIN rest
      PROVE  last + i \in 1..Len(x) /\ rest[i] = x[last + i] /\ rest[i].part # "nl"
  <2>1. i \in 1..Len(x) - last
    BY <1>4
  <2>2. last + i \in 1..Len(x) /\ last + i \in last + 1..Len(x)
    BY <1>1, <2>1
  <2> QED BY <1>3, <1>4, <2>1, <2>2
<1>7. \A i \in 1..Len(x) : x[i].part = "nl" => i <= last
  <2>1. \A i \in 1..Len(x) : i <= last \/ i \in last + 1..Len(x)
    BY <1>1
  <2> QED BY <1>3, <2>1
<1> QED BY <1>2, <1>3, <1>4, <1>5, <1>6, <1>7 DEF LeavesAfter, x

LEMMA ReadPartial ==
  ASSUME TypeOK, TextInv, LinesInv, NEW f \in Files, offset[f] < Len(file[f]), ReadFile(f),
         file' = file
  PROVE  PartialInv' /\ CutInv'
<1> DEFINE t == file[f]
           b == Base(f)
           x == Text(f)
<1>1. PICK last \in 0..Len(x) : LeavesAfter(f, last)
  BY ReadLeaves
<1>2. /\ b \in Nat /\ Len(t) \in Nat /\ DOMAIN t = 1..Len(t) /\ Len(x) \in Nat
      /\ Len(x) = Len(t) - b /\ offset[f] \in Nat /\ offset[f] < Len(t)
      /\ \A k \in 1..Len(x) : x[k].event = t[b + k].event /\ x[k].part = t[b + k].part
  <2>1. x \in Seq(Chars) /\ b \in Nat /\ Len(x) = Len(t) - b
    BY TextIs DEF TextInv
  <2>2. \A k \in 1..Len(x) : x[k].event = t[b + k].event /\ x[k].part = t[b + k].part
    BY TextIs DEF Place, TextInv
  <2>3. Len(t) \in Nat /\ DOMAIN t = 1..Len(t) /\ offset[f] \in Nat /\ offset[f] < Len(t)
    BY ReaderTypes
  <2> HIDE DEF x, b, t
  <2> QED BY <2>1, <2>2, <2>3
<1>3. /\ Base(f)' = b + last
      /\ \A g \in Files \ {f} : /\ Base(g)' = Base(g) /\ partial'[g] = partial[g]
                                /\ cuts'[g] = cuts[g] /\ offset'[g] = offset[g]
      /\ cuts'[f] = cuts[f] \cup CutBy(f) /\ offset'[f] = Len(t)
  BY <1>1 DEF ReadFile, TypeOK, Base, LeavesAfter
<1> HIDE DEF b, x
<1>4. ASSUME NEW i \in DOMAIN partial'[f]
      PROVE  /\ last + i \in 1..Len(x) /\ partial'[f][i] = x[last + i] /\ partial'[f][i].part # "nl"
             /\ x[last + i].event = t[b + last + i].event /\ x[last + i].part = t[b + last + i].part
             /\ i \in Nat
  <2>1. last + i \in 1..Len(x) /\ partial'[f][i] = x[last + i] /\ partial'[f][i].part # "nl"
    BY <1>1 DEF LeavesAfter, x
  <2>2. i \in Nat /\ b + (last + i) = b + last + i
    BY <1>1, <1>2 DEF LeavesAfter
  <2> QED BY <1>2, <2>1, <2>2
<1>5. b + last > 0 => t[b + last].part = "nl"
  <2>1. CASE last > 0
    <3>1. last \in 1..Len(x) /\ x[last].part = "nl"
      BY <1>1, <1>2, <2>1 DEF LeavesAfter, x
    <3> QED BY <1>2, <3>1
  <2>2. CASE last = 0
    <3>1. b + last = b
      BY <1>2, <2>2
    <3> QED BY <3>1 DEF TextInv, PartialInv, b
  <2> QED BY <1>2, <2>1, <2>2
<1>6. PartialInv'
  <2>1. ASSUME NEW g \in Files \ {f}
        PROVE  /\ Base(g)' >= 0
               /\ Base(g)' > 0 => file'[g][Base(g)'].part = "nl"
               /\ \A i \in DOMAIN partial'[g] :
                    /\ partial'[g][i].event = file'[g][Base(g)' + i].event
                    /\ partial'[g][i].part = file'[g][Base(g)' + i].part
                    /\ partial'[g][i].part # "nl"
    BY <1>3 DEF TextInv, PartialInv
  <2>2. /\ Base(f)' >= 0
        /\ Base(f)' > 0 => file'[f][Base(f)'].part = "nl"
        /\ \A i \in DOMAIN partial'[f] :
             /\ partial'[f][i].event = file'[f][Base(f)' + i].event
             /\ partial'[f][i].part = file'[f][Base(f)' + i].part
             /\ partial'[f][i].part # "nl"
    BY <1>2, <1>3, <1>4, <1>5
  <2> QED BY <2>1, <2>2 DEF PartialInv
<1>7. ASSUME NEW e \in cuts'[f] PROVE \E i \in 1..offset'[f] : t[i] = Cell(e, "head")
  <2>1. CASE e \in cuts[f]
    <3>1. PICK i \in 1..offset[f] : t[i] = Cell(e, "head")
      BY <2>1 DEF TextInv, CutInv
    <3> QED BY <1>2, <1>3, <3>1
  <2>2. CASE e \in CutBy(f)
    <3>1. Len(t) \in 1..Len(t) /\ t[Len(t)] = Cell(e, "head")
      BY <1>2, <2>2 DEF CutBy, Cell
    <3> QED BY <1>3, <3>1
  <2> QED BY <1>3, <2>1, <2>2
<1>8. ASSUME NEW i \in DOMAIN partial'[f], partial'[f][i].part = "tail"
      PROVE  partial'[f][i - 1].whole /\ partial'[f][i].whole <=> partial'[f][i].event \notin cuts'[f]
  <2>1. /\ last + i \in 1..Len(x) /\ x[last + i].part = "tail"
        /\ partial'[f][i] = x[last + i] /\ i \in Nat
    BY <1>4, <1>8
  <2>2. /\ last + i - 1 \in 1..Len(x) /\ x[last + i - 1].part = "head"
        /\ x[last + i - 1].whole /\ x[last + i].whole <=> x[last + i].event \notin cuts[f] \cup CutBy(f)
    BY <2>1, WholeIs DEF x
  <2>3. i > 1
    <3> SUFFICES ASSUME i = 1 PROVE FALSE
      BY <1>1, <2>1 DEF LeavesAfter
    <3>1. last > 0 /\ last + i - 1 = last
      BY <2>2
    <3>2. x[last].part = "nl"
      BY <1>1, <3>1 DEF LeavesAfter, x
    <3> QED BY <2>2, <3>1, <3>2
  <2>4. i - 1 \in DOMAIN partial'[f]
    BY <1>1, <2>3 DEF LeavesAfter
  <2>5. partial'[f][i - 1] = x[last + (i - 1)] /\ last + (i - 1) = last + i - 1
    BY <1>4, <2>1, <2>4
  <2> QED BY <1>3, <2>1, <2>2, <2>5
<1>9. ASSUME NEW i \in DOMAIN partial'[f], partial'[f][i].part = "head", i = Len(partial'[f])
      PROVE  partial'[f][i].event \in cuts'[f]
  <2>1. last + i = Len(x) /\ b + last + i = Len(t) /\ Len(t) > 0
    <3>1. Len(partial'[f]) = Len(x) - last
      BY <1>1 DEF LeavesAfter, x
    <3>2. last \in Int
      BY <1>2
    <3> DEFINE z == Len(partial'[f])
    <3>3. i = z /\ z = Len(x) - last
      BY <1>9, <3>1
    <3>4. Len(x) \in Nat /\ Len(t) \in Nat /\ b \in Nat /\ Len(x) = Len(t) - b /\ Len(t) > 0
      BY <1>2
    <3> HIDE DEF z, t
    <3> QED BY <3>2, <3>3, <3>4
  <2>2. t[Len(t)].part = "head" /\ t[Len(t)].event = partial'[f][i].event
    BY <1>4, <1>9, <2>1
  <2>3. t[Len(t)] \in Cells
    BY <1>2, <2>1, ReaderTypes
  <2> QED BY <1>3, <2>1, <2>2, <2>3 DEF CutBy, Cells
<1>10. CutInv'
  <2>1. ASSUME NEW g \in Files \ {f}
        PROVE  /\ \A e \in cuts'[g] : \E i \in 1..offset'[g] : file'[g][i] = Cell(e, "head")
               /\ \A i \in DOMAIN partial'[g] :
                    /\ partial'[g][i].part = "tail" =>
                         (partial'[g][i - 1].whole /\ partial'[g][i].whole
                            <=> partial'[g][i].event \notin cuts'[g])
                    /\ partial'[g][i].part = "head" /\ i = Len(partial'[g])
                         => partial'[g][i].event \in cuts'[g]
    BY <1>3 DEF TextInv, CutInv
  <2> QED BY <1>7, <1>8, <1>9, <2>1 DEF CutInv
<1> QED BY <1>6, <1>10

(* Each event ends once in a file. *)
LEMMA OneEnd ==
  ASSUME TypeOK, OrderInv, NEW f \in Files, NEW k \in 1..Len(file[f]), NEW l \in 1..Len(file[f]),
         EndsEvent(file[f], k), EndsEvent(file[f], l), file[f][k].event = file[f][l].event
  PROVE  k = l
BY ReaderTypes, OnePlace DEF EndsEvent

(* The lines that a read applies, each at its place in the file *)
NewLines(p, bt, f, last) ==
  /\ \A k \in 1..Len(p) :
       /\ bt[k] \in Base(f) + 1..Base(f) + last
       /\ EndsEvent(file[f], bt[k]) /\ p[k].file = f /\ p[k].event = file[f][bt[k]].event
       /\ p[k].whole <=> p[k].event \notin cuts[f] \cup CutBy(f)
  /\ \A j, k \in 1..Len(p) : j < k => bt[j] < bt[k]
  /\ \A i \in Base(f) + 1..Len(file[f]) : EndsEvent(file[f], i) => \E k \in 1..Len(p) : bt[k] = i

LEMMA ReadLines ==
  ASSUME TypeOK, TextInv, LinesInv, NEW f \in Files, offset[f] < Len(file[f]),
         NEW last \in 0..Len(Text(f)), LeavesAfter(f, last)
  PROVE  /\ Parsed(f, Text(f)) \in Seq(Applicable)
         /\ \E bt : NewLines(Parsed(f, Text(f)), bt, f, last)
<1> DEFINE t == file[f]
           b == Base(f)
           x == Text(f)
           p == Parsed(f, x)
<1>1. /\ x \in Seq(Chars) /\ b \in Nat /\ Len(x) = Len(t) - b /\ Len(t) \in Nat /\ Len(x) \in Nat
      /\ \A k \in 1..Len(x) : x[k].event = t[b + k].event /\ x[k].part = t[b + k].part
  <2>1. x \in Seq(Chars) /\ b \in Nat /\ Len(x) = Len(t) - b
    BY TextIs DEF TextInv
  <2>2. \A k \in 1..Len(x) : x[k].event = t[b + k].event /\ x[k].part = t[b + k].part
    BY TextIs DEF Place, TextInv
  <2>3. Len(t) \in Nat
    BY ReaderTypes
  <2> HIDE DEF x, b, t
  <2> QED BY <2>1, <2>2, <2>3
<1>2. p \in Seq(Applicable) /\ \E at : Collects(p, at, f, x, Len(x))
  BY <1>1, ParsedIs
<1>3. PICK at : Collects(p, at, f, x, Len(x))
  BY <1>2
<1>4. \A k \in 1..Len(x) : EndsEvent(x, k) <=> EndsEvent(t, b + k)
  BY EndsIs DEF Place, TextInv
<1>5. \A k \in 1..Len(x) : x[k].part = "nl" => k <= last
  BY DEF LeavesAfter
<1> DEFINE bt == [k \in 1..Len(p) |-> b + at[k]]
<1> HIDE DEF t, b, x, p
<1>6. ASSUME NEW k \in 1..Len(p)
      PROVE  /\ bt[k] = b + at[k] /\ at[k] \in 1..Len(x) /\ EndsEvent(x, at[k])
             /\ p[k] = Entry(f, x, at[k])
  BY <1>3 DEF Collects
<1>7. ASSUME NEW k \in 1..Len(p)
      PROVE  /\ bt[k] \in b + 1..b + last
             /\ EndsEvent(t, bt[k]) /\ p[k].file = f /\ p[k].event = t[bt[k]].event
             /\ p[k].whole <=> p[k].event \notin cuts[f] \cup CutBy(f)
  <2> DEFINE a == at[k]
  <2>1. /\ bt[k] = b + a /\ a \in 1..Len(x) /\ EndsEvent(x, a) /\ p[k] = Entry(f, x, a)
    BY <1>6
  <2> HIDE DEF a, bt
  <2>2. a \in 1..last
    <3>1. x[a].part = "nl"
      BY <2>1 DEF EndsEvent
    <3>2. a <= last
      BY <1>5, <2>1, <3>1
    <3>3. last \in Int
      BY <1>1 DEF x
    <3> QED BY <2>1, <3>2, <3>3
  <2>3. EndsEvent(t, bt[k])
    BY <1>4, <2>1
  <2>4. p[k].file = f /\ p[k].event = t[bt[k]].event
    BY <1>1, <2>1 DEF Entry
  <2>5. a - 1 \in 1..Len(x) /\ x[a - 1].part = "tail" /\ x[a - 1].event = x[a].event /\ a - 1 - 1 = a - 2
    <3>1. a > 2 /\ x[a - 1].part = "tail" /\ x[a - 1].event = x[a].event
      BY <2>1 DEF EndsEvent
    <3>2. a \in Int /\ a <= Len(x) /\ Len(x) \in Int
      BY <1>1, <2>1
    <3> QED BY <3>1, <3>2
  <2>6. x[a - 2].whole /\ x[a - 1].whole <=> x[a - 1].event \notin cuts[f] \cup CutBy(f)
    <3>1. x[a - 1 - 1].whole /\ x[a - 1].whole <=> x[a - 1].event \notin cuts[f] \cup CutBy(f)
      BY <2>5, WholeIs DEF x
    <3> QED BY <2>5, <3>1
  <2>7. p[k].whole = (x[a - 2].whole /\ x[a - 1].whole) /\ p[k].event = x[a].event
    BY <2>1 DEF Entry
  <2>8. bt[k] \in b + 1..b + last
    BY <1>1, <2>1, <2>2
  <2> QED BY <2>3, <2>4, <2>5, <2>6, <2>7, <2>8
<1>8. \A j, k \in 1..Len(p) : j < k => bt[j] < bt[k]
  <2>1. \A j, k \in 1..Len(p) : j < k => at[j] < at[k]
    BY <1>3 DEF Collects
  <2> QED BY <1>1, <1>6, <2>1
<1>9. ASSUME NEW i \in b + 1..Len(t), EndsEvent(t, i)
      PROVE  \E k \in 1..Len(p) : bt[k] = i
  <2>1. i - b \in 1..Len(x) /\ b + (i - b) = i
    BY <1>1
  <2>2. EndsEvent(x, i - b)
    BY <1>4, <1>9, <2>1
  <2>3. PICK k \in 1..Len(p) : at[k] = i - b
    BY <1>3, <2>1, <2>2 DEF Collects
  <2> QED BY <1>6, <2>1, <2>3
<1>10. NewLines(p, bt, f, last)
  <2> HIDE DEF bt
  <2> QED BY <1>7, <1>8, <1>9 DEF NewLines, t, b
<1> QED BY <1>2, <1>10 DEF p, x

LEMMA ReadApplies ==
  ASSUME TypeOK, TextInv, LinesInv, NEW f \in Files, offset[f] < Len(file[f]), ReadFile(f),
         file' = file
  PROVE  /\ applied' \in Seq(Applicable)
         /\ AppliedInv' /\ ChunksDoNotMatter' /\ DamageIsACut' /\ InOrderOnce'
<1> DEFINE t == file[f]
           b == Base(f)
           x == Text(f)
           p == Parsed(f, x)
           n == Len(applied)
<1>1. PICK last \in 0..Len(x) : LeavesAfter(f, last)
  BY ReadLeaves
<1>2. p \in Seq(Applicable)
  BY <1>1, ReadLines
<1>3. PICK bt : NewLines(p, bt, f, last)
  BY <1>1, ReadLines
<1>4. applied' = applied \o p /\ applied \in Seq(Applicable)
  BY DEF ReadFile, TypeOK, Applicable
<1>5. /\ \A g \in Files \ {f} : Base(g)' = Base(g) /\ cuts'[g] = cuts[g] /\ offset'[g] = offset[g]
      /\ Base(f)' = b + last /\ cuts'[f] = cuts[f] \cup CutBy(f) /\ offset'[f] = Len(t)
  BY <1>1 DEF ReadFile, TypeOK, Base, LeavesAfter
<1>6. /\ b \in Nat /\ last \in Nat /\ b + last <= Len(t) /\ Len(t) \in Nat /\ b <= offset[f]
      /\ offset[f] \in Nat /\ offset[f] < Len(t) /\ DOMAIN t = 1..Len(t)
  <2>1. b \in Nat /\ Len(x) = Len(t) - b /\ b <= offset[f]
    BY TextIs DEF TextInv
  <2>2. Len(t) \in Nat /\ DOMAIN t = 1..Len(t) /\ offset[f] \in Nat /\ offset[f] < Len(t)
    BY ReaderTypes
  <2> HIDE DEF x, b, t
  <2> QED BY <2>1, <2>2
<1> HIDE DEF x, b, t, p
<1>7. /\ applied' \in Seq(Applicable) /\ n \in Nat /\ Len(p) \in Nat
      /\ DOMAIN applied = 1..n /\ DOMAIN applied' = 1..n + Len(p)
      /\ \A i \in 1..n : applied'[i] = applied[i]
      /\ \A k \in 1..Len(p) : applied'[n + k] = p[k]
  <2> DEFINE both == applied \o p
  <2>1. /\ both \in Seq(Applicable) /\ Len(both) = n + Len(p)
        /\ \A i \in 1..n + Len(p) : both[i] = IF i <= n THEN applied[i] ELSE p[i - n]
    BY <1>2, <1>4, ConcatProperties
  <2>2. n \in Nat /\ Len(p) \in Nat /\ DOMAIN applied = 1..n
    BY <1>2, <1>4
  <2>3. \A i \in 1..n : i \in 1..n + Len(p) /\ i <= n
    BY <2>2
  <2>4. \A k \in 1..Len(p) : n + k \in 1..n + Len(p) /\ ~(n + k <= n) /\ n + k - n = k
    BY <2>2
  <2> HIDE DEF n
  <2>5. applied' = both
    BY <1>4
  <2> HIDE DEF p, both
  <2>6. \A i \in 1..n : applied'[i] = applied[i]
    BY <2>1, <2>3, <2>5, Zenon
  <2>7. \A k \in 1..Len(p) : applied'[n + k] = p[k]
    <3>0. \A i \in 1..n + Len(p) : ~(i <= n) => both[i] = p[i - n]
      BY <2>1, Zenon
    <3>1. \A k \in 1..Len(p) : both[n + k] = p[n + k - n]
      BY <2>2, <2>4, <3>0
    <3>2. \A k \in 1..Len(p) : both[n + k] = p[k]
      BY <2>4, <3>1, Zenon
    <3> QED BY <2>5, <3>2, Zenon
  <2>8. applied' \in Seq(Applicable) /\ DOMAIN applied' = 1..n + Len(p)
    BY <2>1, <2>2, <2>5
  <2> QED BY <2>2, <2>6, <2>7, <2>8
<1> HIDE DEF n
<1>8. \A i \in DOMAIN applied' : i \in 1..n \/ \E k \in 1..Len(p) : i = n + k
  <2>1. ASSUME NEW i \in 1..n + Len(p), ~(i \in 1..n)
        PROVE  i - n \in 1..Len(p) /\ i = n + (i - n)
    BY <1>7, <2>1
  <2> QED BY <1>7, <2>1
<1>9. ASSUME NEW k \in 1..Len(p)
      PROVE  /\ bt[k] \in b + 1..b + last /\ bt[k] \in 1..Len(t)
             /\ applied'[n + k] = p[k] /\ applied'[n + k].file = f
             /\ EndsEvent(t, bt[k]) /\ applied'[n + k].event = t[bt[k]].event
             /\ applied'[n + k].whole <=> applied'[n + k].event \notin cuts'[f]
  <2>1. bt[k] \in b + 1..b + last
    BY <1>3 DEF NewLines, b
  <2>2. bt[k] \in 1..Len(t)
    BY <1>6, <2>1
  <2> QED BY <1>3, <1>5, <1>7, <2>1, <2>2 DEF NewLines, t
<1>10. ASSUME NEW i \in 1..n
       PROVE  /\ applied'[i] = applied[i] /\ applied[i].file \in Files /\ i \in DOMAIN applied
              /\ \E k \in 1..Base(applied[i].file) :
                   EndsEvent(file[applied[i].file], k) /\ file[applied[i].file][k].event = applied[i].event
  BY <1>7, AppliedTypes DEF TextInv, AppliedInv
<1>11. AppliedInv'
  <2>1. ASSUME NEW i \in 1..n
        PROVE  \E k \in 1..Base(applied[i].file)' :
                 /\ EndsEvent(file'[applied'[i].file], k)
                 /\ file'[applied'[i].file][k].event = applied'[i].event
    <3>1. PICK k \in 1..Base(applied[i].file) :
            EndsEvent(file[applied[i].file], k) /\ file[applied[i].file][k].event = applied[i].event
      BY <1>10
    <3>2. PICK g \in Files : g = applied[i].file
      BY <1>10
    <3>3. k \in 1..Base(g)'
      <4>1. CASE g = f
        <5>1. k \in 1..b
          BY <3>1, <3>2, <4>1 DEF b
        <5> QED BY <1>5, <1>6, <4>1, <5>1
      <4>2. CASE g # f
        BY <1>5, <3>1, <3>2, <4>2
      <4> QED BY <4>1, <4>2
    <3>4. Base(applied[i].file)' = Base(g)'
      BY <1>10, <3>2 DEF Base
    <3> QED BY <1>10, <3>1, <3>2, <3>3, <3>4
  <2>2. ASSUME NEW i, NEW k \in 1..Len(p), i = n + k
        PROVE  \E j \in 1..Base(applied[i].file)' :
                 /\ EndsEvent(file'[applied'[i].file], j)
                 /\ file'[applied'[i].file][j].event = applied'[i].event
    <3>1. applied'[i].file = f /\ Base(f)' = b + last
      BY <1>5, <1>9, <2>2
    <3>2. Base(applied[i].file)' = b + last
      BY <3>1 DEF Base
    <3>3. bt[k] \in 1..b + last
      BY <1>6, <1>9
    <3> QED BY <1>9, <2>2, <3>1, <3>2, <3>3 DEF t
  <2> QED BY <1>8, <2>1, <2>2 DEF AppliedInv
<1>12. DamageIsACut'
  <2>1. ASSUME NEW i \in 1..n
        PROVE  applied'[i].whole <=> applied'[i].event \notin cuts'[applied'[i].file]
    <3>1. applied[i].whole <=> applied[i].event \notin cuts[applied[i].file]
      BY <1>10 DEF TextInv, DamageIsACut
    <3>2. CASE applied[i].file # f
      BY <1>5, <1>10, <3>1, <3>2
    <3>3. CASE applied[i].file = f
      <4>1. PICK k \in 1..b : EndsEvent(t, k) /\ t[k].event = applied[i].event
        BY <1>10, <3>3 DEF b, t
      <4>2. /\ k \in 1..Len(t) /\ k < Len(t) /\ k > 2 /\ t[k].part = "nl"
            /\ k - 1 \in 1..Len(t) /\ k - 2 \in 1..Len(t) /\ k - 2 < Len(t)
            /\ t[k - 1].event = t[k].event /\ t[k - 1].part = "tail" /\ t[k - 2].part = "head"
        <5>1. k \in Int /\ k <= b /\ k > 2
          BY <1>6, <4>1 DEF EndsEvent
        <5> QED BY <1>6, <4>1, <5>1 DEF EndsEvent
      <4>3. t[k - 1 - 1] = Cell(t[k - 1].event, "head") /\ k - 1 - 1 = k - 2
        <5>1. k - 1 \in DOMAIN t
          BY <1>6, <4>2
        <5> QED BY <4>2, <5>1 DEF LinesInv, FileInv, t
      <4>4. t[k - 2].event = applied[i].event
        BY <4>1, <4>2, <4>3 DEF Cell
      <4>5. applied[i].event \notin CutBy(f)
        BY <1>6, <4>2, <4>4, NotCutHere DEF t, LinesInv
      <4> QED BY <1>5, <1>10, <3>1, <3>3, <4>5
    <3> QED BY <3>2, <3>3
  <2> QED BY <1>8, <1>9, <2>1 DEF DamageIsACut
<1>13. ASSUME NEW i \in 1..n, applied[i].file = f
       PROVE  \E k \in 1..b : k \in 1..Len(t) /\ EndsEvent(t, k) /\ t[k].event = applied'[i].event
  <2>1. PICK k \in 1..b : EndsEvent(t, k) /\ t[k].event = applied[i].event
    BY <1>10, <1>13 DEF b, t
  <2>2. k \in 1..Len(t)
    BY <1>6
  <2> QED BY <1>10, <2>1, <2>2
<1>14. \A k, l \in 1..Len(t) :
         EndsEvent(t, k) /\ EndsEvent(t, l) /\ t[k].event = t[l].event => k = l
  BY OneEnd DEF t, LinesInv
<1>15. Complete(f)' = {k \in 1..Len(t) : EndsEvent(t, k)}
  BY <1>5 DEF Complete, t
<1>16. \A i \in AppliedFrom(f)' :
         (i \in 1..n /\ applied[i].file = f) \/ \E k \in 1..Len(p) : i = n + k
  BY <1>8, <1>10 DEF AppliedFrom
<1>17. ASSUME NEW i \in AppliedFrom(f)'
       PROVE  \E k \in Complete(f)' : t[k].event = applied'[i].event
  <2>1. CASE i \in 1..n /\ applied[i].file = f
    BY <1>13, <1>15, <2>1
  <2>2. CASE \E k \in 1..Len(p) : i = n + k
    BY <1>9, <1>15, <2>2
  <2> QED BY <1>16, <2>1, <2>2
<1>18. ASSUME NEW k \in Complete(f)'
       PROVE  \E i \in AppliedFrom(f)' : applied'[i].event = t[k].event
  <2>1. k \in 1..Len(t) /\ EndsEvent(t, k)
    BY <1>15
  <2>2. CASE k <= b
    <3>1. k \in Complete(f)
      BY <1>6, <2>1, <2>2 DEF Complete, t
    <3>2. PICK i \in AppliedFrom(f) : applied[i].event = t[k].event
      <4>1. {applied[i].event : i \in AppliedFrom(f)} = {file[f][l].event : l \in Complete(f)}
        BY DEF TextInv, ChunksDoNotMatter
      <4>2. t[k].event \in {file[f][l].event : l \in Complete(f)}
        BY <3>1 DEF t
      <4> QED BY <4>1, <4>2
    <3>3. i \in 1..n /\ applied[i].file = f
      BY <1>7 DEF AppliedFrom
    <3>4. i \in AppliedFrom(f)'
      <4>1. i \in DOMAIN applied'
        BY <1>7, <3>3
      <4> QED BY <1>10, <3>3, <4>1 DEF AppliedFrom
    <3> QED BY <1>10, <3>2, <3>3, <3>4
  <2>3. CASE k > b
    <3>1. k \in b + 1..Len(t)
      BY <1>6, <2>1, <2>3
    <3>2. PICK j \in 1..Len(p) : bt[j] = k
      BY <1>3, <2>1, <3>1 DEF NewLines, b, t
    <3>3. n + j \in AppliedFrom(f)'
      <4>1. n + j \in 1..n + Len(p)
        BY <1>7
      <4> QED BY <1>7, <1>9, <4>1 DEF AppliedFrom
    <3> QED BY <1>9, <3>2, <3>3
  <2> QED BY <1>6, <2>1, <2>2, <2>3
<1>19. \A j, k \in 1..Len(p) : n + j < n + k => bt[j] < bt[k]
  <2>1. \A j, k \in 1..Len(p) : j < k => bt[j] < bt[k]
    BY <1>3 DEF NewLines
  <2>2. \A j, k \in 1..Len(p) : n + j < n + k => j < k
    BY <1>7
  <2> QED BY <2>1, <2>2
<1>20. ASSUME NEW i \in AppliedFrom(f)', NEW j \in AppliedFrom(f)',
              NEW k \in Complete(f)', NEW l \in Complete(f)',
              i < j, applied'[i].event = t[k].event, applied'[j].event = t[l].event
       PROVE  k < l
  <2>1. k \in 1..Len(t) /\ EndsEvent(t, k) /\ l \in 1..Len(t) /\ EndsEvent(t, l)
    BY <1>15
  <2>2. CASE i \in 1..n /\ applied[i].file = f
    <3>1. k \in 1..b
      BY <1>13, <1>14, <1>20, <2>1, <2>2
    <3>2. CASE j \in 1..n /\ applied[j].file = f
      <4>1. l \in 1..b
        BY <1>13, <1>14, <1>20, <2>1, <3>2
      <4>2. k \in Complete(f) /\ l \in Complete(f)
        BY <1>6, <2>1, <3>1, <4>1 DEF Complete, t
      <4>3. i \in AppliedFrom(f) /\ j \in AppliedFrom(f)
        BY <1>10, <2>2, <3>2 DEF AppliedFrom
      <4>4. applied[i].event = t[k].event /\ applied[j].event = t[l].event
        BY <1>10, <1>20, <2>2, <3>2
      <4> QED BY <1>20, <4>2, <4>3, <4>4 DEF TextInv, ChunksDoNotMatter, t
    <3>3. CASE \E m \in 1..Len(p) : j = n + m
      <4>1. l \in b + 1..b + last
        BY <1>9, <1>14, <1>20, <2>1, <3>3
      <4> QED BY <1>6, <3>1, <4>1
    <3> QED BY <1>16, <3>2, <3>3
  <2>3. CASE \E m \in 1..Len(p) : i = n + m
    <3>1. PICK r \in 1..Len(p) : i = n + r
      BY <2>3
    <3>2. ~(j \in 1..n)
      BY <1>7, <1>20, <3>1
    <3>3. PICK m \in 1..Len(p) : j = n + m
      BY <1>16, <3>2
    <3>4. k = bt[r] /\ l = bt[m]
      BY <1>9, <1>14, <1>20, <2>1, <3>1, <3>3
    <3> QED BY <1>19, <1>20, <3>1, <3>3, <3>4
  <2> QED BY <1>16, <2>2, <2>3
<1>21. ASSUME NEW g \in Files \ {f}
       PROVE  /\ AppliedFrom(g)' = AppliedFrom(g) /\ Complete(g)' = Complete(g)
              /\ \A i \in AppliedFrom(g) : applied'[i] = applied[i]
  <2>1. ASSUME NEW i PROVE i \in AppliedFrom(g)' <=> i \in AppliedFrom(g)
    <3>1. CASE i \in 1..n
      <4>1. i \in DOMAIN applied'
        BY <1>7, <3>1
      <4> QED BY <1>10, <3>1, <4>1 DEF AppliedFrom
    <3>2. CASE i \notin 1..n
      <4>1. i \notin AppliedFrom(g)
        BY <1>7, <3>2 DEF AppliedFrom
      <4>2. ASSUME i \in AppliedFrom(g)' PROVE FALSE
        <5>1. PICK k \in 1..Len(p) : i = n + k
          BY <1>8, <3>2, <4>2 DEF AppliedFrom
        <5> QED BY <1>9, <4>2, <5>1 DEF AppliedFrom
      <4> QED BY <4>1, <4>2
    <3> QED BY <3>1, <3>2
  <2>2. Complete(g)' = Complete(g)
    BY <1>5 DEF Complete
  <2>3. \A i \in AppliedFrom(g) : applied'[i] = applied[i]
    BY <1>7 DEF AppliedFrom
  <2> QED BY <2>1, <2>2, <2>3
<1>22. ChunksDoNotMatter'
  <2>1. ASSUME NEW g \in Files \ {f}
        PROVE  /\ {applied'[i].event : i \in AppliedFrom(g)'} = {file'[g][k].event : k \in Complete(g)'}
               /\ \A i, j \in AppliedFrom(g)', k, l \in Complete(g)' :
                    i < j /\ applied'[i].event = file'[g][k].event /\ applied'[j].event = file'[g][l].event
                      => k < l
    <3>1. /\ {applied[i].event : i \in AppliedFrom(g)} = {file[g][k].event : k \in Complete(g)}
          /\ \A i, j \in AppliedFrom(g), k, l \in Complete(g) :
               i < j /\ applied[i].event = file[g][k].event /\ applied[j].event = file[g][l].event
                 => k < l
      BY DEF TextInv, ChunksDoNotMatter
    <3>2. /\ AppliedFrom(g)' = AppliedFrom(g) /\ Complete(g)' = Complete(g)
          /\ \A i \in AppliedFrom(g) : applied'[i] = applied[i]
      BY <1>21
    <3> HIDE DEF Complete, AppliedFrom
    <3>3. /\ {applied'[i].event : i \in AppliedFrom(g)'} = {applied[i].event : i \in AppliedFrom(g)}
          /\ {file'[g][k].event : k \in Complete(g)'} = {file[g][k].event : k \in Complete(g)}
      <4> DEFINE A == AppliedFrom(g)
                 B == AppliedFrom(g)'
                 C == Complete(g)
                 D == Complete(g)'
                 r == applied'
      <4>1. A = B /\ C = D /\ \A i \in A : r[i] = applied[i]
        BY <3>2
      <4> HIDE DEF A, B, C, D, r
      <4>2. {r[i].event : i \in B} = {applied[i].event : i \in A}
        BY <4>1
      <4>3. {file[g][k].event : k \in D} = {file[g][k].event : k \in C}
        BY <4>1
      <4> QED BY <4>2, <4>3 DEF A, B, C, D, r
    <3>4. {applied'[i].event : i \in AppliedFrom(g)'} = {file'[g][k].event : k \in Complete(g)'}
      BY <3>1, <3>3
    <3>5. ASSUME NEW i \in AppliedFrom(g)', NEW j \in AppliedFrom(g)',
                 NEW k \in Complete(g)', NEW l \in Complete(g)', i < j,
                 applied'[i].event = file'[g][k].event, applied'[j].event = file'[g][l].event
          PROVE  k < l
      <4>1. applied'[i] = applied[i] /\ applied'[j] = applied[j]
        BY <3>2
      <4> QED BY <3>1, <3>2, <3>5, <4>1
    <3> QED BY <3>4, <3>5
  <2>2. {applied'[i].event : i \in AppliedFrom(f)'} = {file'[f][k].event : k \in Complete(f)'}
    BY <1>17, <1>18 DEF t
  <2>3. \A i, j \in AppliedFrom(f)', k, l \in Complete(f)' :
          i < j /\ applied'[i].event = file'[f][k].event /\ applied'[j].event = file'[f][l].event
            => k < l
    BY <1>20 DEF t
  <2>4. ASSUME NEW g \in Files
        PROVE  /\ {applied'[i].event : i \in AppliedFrom(g)'} = {file'[g][k].event : k \in Complete(g)'}
               /\ \A i, j \in AppliedFrom(g)', k, l \in Complete(g)' :
                    i < j /\ applied'[i].event = file'[g][k].event /\ applied'[j].event = file'[g][l].event
                      => k < l
    <3>1. CASE g = f
      <4>1. AppliedFrom(g)' = AppliedFrom(f)' /\ file'[g] = file'[f] /\ Complete(g)' = Complete(f)'
        BY <3>1
      <4>2. {applied'[i].event : i \in AppliedFrom(g)'} = {file'[g][k].event : k \in Complete(g)'}
        BY <2>2, <4>1
      <4> QED BY <2>3, <4>1, <4>2
    <3>2. CASE g # f
      BY <2>1, <3>2
    <3> QED BY <3>1, <3>2
  <2> QED BY <2>4 DEF ChunksDoNotMatter
<1>23. ASSUME NEW k \in 1..Len(t), NEW l \in 1..Len(t), k < l, EndsEvent(t, k), EndsEvent(t, l),
              t[k].event[1] = t[l].event[1]
       PROVE  t[k].event[2] < t[l].event[2]
  BY <1>6, <1>23 DEF EndsEvent, LinesInv, OrderInv, t
<1>24. InOrderOnce'
  <2> SUFFICES ASSUME NEW i \in DOMAIN applied', NEW j \in DOMAIN applied', i < j,
                      applied'[i].event[1] = applied'[j].event[1]
               PROVE  applied'[i].event[2] < applied'[j].event[2]
    BY DEF InOrderOnce
  <2>1. CASE j \in 1..n
    <3>1. i \in 1..n
      BY <1>7, <2>1
    <3> QED BY <1>7, <2>1, <3>1 DEF TextInv, InOrderOnce
  <2>2. CASE \E m \in 1..Len(p) : j = n + m
    <3>1. PICK m \in 1..Len(p) : j = n + m
      BY <2>2
    <3>2. /\ EndsEvent(t, bt[m]) /\ applied'[j].event = t[bt[m]].event
          /\ bt[m] \in 1..Len(t) /\ bt[m] > b
      BY <1>6, <1>9, <3>1
    <3>3. CASE i \in 1..n
      <4>1. PICK g \in Files : g = applied[i].file
        BY <1>10, <3>3
      <4>2. PICK k \in 1..Base(g) : EndsEvent(file[g], k) /\ file[g][k].event = applied[i].event
        BY <1>10, <3>3, <4>1
      <4>3. k \in DOMAIN file[g]
        <5>1. /\ Base(g) = offset[g] - Len(partial[g]) /\ Len(partial[g]) \in Nat
              /\ offset[g] \in Nat /\ offset[g] <= Len(file[g]) /\ DOMAIN file[g] = 1..Len(file[g])
              /\ Len(file[g]) \in Nat
          BY ReaderTypes DEF Base
        <5> QED BY <5>1
      <4>4. Home(applied[i].event[1]) = g
        BY <4>2, <4>3 DEF LinesInv, FileInv
      <4>5. Home(applied'[j].event[1]) = f
        BY <1>6, <3>2 DEF LinesInv, FileInv, t
      <4>6. g = f
        BY <1>10, <3>3, <4>4, <4>5
      <4>7. PICK r \in 1..b : r \in 1..Len(t) /\ EndsEvent(t, r) /\ t[r].event = applied'[i].event
        BY <1>13, <3>3, <4>1, <4>6
      <4>8. r < bt[m]
        BY <1>6, <3>2, <4>7
      <4> QED BY <1>23, <3>2, <4>7, <4>8
    <3>4. CASE \E r \in 1..Len(p) : i = n + r
      <4>1. PICK r \in 1..Len(p) : i = n + r
        BY <3>4
      <4>2. EndsEvent(t, bt[r]) /\ applied'[i].event = t[bt[r]].event /\ bt[r] \in 1..Len(t)
        BY <1>9, <4>1
      <4>3. bt[r] < bt[m]
        BY <1>19, <3>1, <4>1
      <4> QED BY <1>23, <3>2, <4>2, <4>3
    <3> QED BY <1>8, <3>3, <3>4
  <2> QED BY <1>8, <2>1, <2>2
<1> QED BY <1>7, <1>11, <1>12, <1>22, <1>24

LEMMA ReadText ==
  ASSUME TypeOK, TextInv, LinesInv, NEW f \in Files, offset[f] < Len(file[f]), ReadFile(f),
         UNCHANGED <<writers, atExit>>,
         watching' \in {"polling", "draining", "over"}, todo' \in SUBSET Files,
         unread' \in SUBSET Files
  PROVE  TypeOK' /\ LinesInv' /\ TextInv'
<1>1. UNCHANGED <<method, status, path, emitted, writing, file>>
  BY DEF writers
<1>2. PartialInv' /\ CutInv'
  BY <1>1, ReadPartial
<1>3. applied' \in Seq(Applicable) /\ AppliedInv' /\ ChunksDoNotMatter' /\ DamageIsACut' /\ InOrderOnce'
  BY <1>1, ReadApplies
<1>4. LinesInv'
  BY <1>1 DEF LinesInv, WriterInv, FileInv, OrderInv, AppendInv, Writes, Current, Home
<1>5. /\ offset' = [offset EXCEPT ![f] = Len(file[f])]
      /\ partial' = [partial EXCEPT ![f] = Fragment(Text(f))]
      /\ cuts' = [cuts EXCEPT ![f] = @ \cup CutBy(f)]
  BY DEF ReadFile
<1>6. offset' \in [Files -> Nat] /\ \A g \in Files : offset'[g] <= Len(file'[g])
  <2>1. Len(file[f]) \in Nat /\ offset \in [Files -> Nat]
    BY ReaderTypes DEF TypeOK
  <2> QED BY <1>1, <1>5, <2>1 DEF TypeOK
<1>7. partial' \in [Files -> Seq(Chars)]
  <2>1. PICK last \in 0..Len(Text(f)) : LeavesAfter(f, last)
    BY ReadLeaves
  <2>2. partial'[f] \in Seq(Chars)
    BY <2>1 DEF LeavesAfter
  <2>3. partial \in [Files -> Seq(Chars)] /\ partial'[f] = Fragment(Text(f))
    BY <1>5 DEF TypeOK
  <2> QED BY <1>5, <2>2, <2>3
<1>8. cuts' \in [Files -> SUBSET Events]
  <2>1. CutBy(f) \subseteq Events /\ cuts \in [Files -> SUBSET Events]
    BY DEF CutBy, TypeOK
  <2> QED BY <1>5, <2>1
<1>9. TypeOK'
  <2>1. atExit' \in [Files -> Nat]
    BY DEF TypeOK
  <2> QED BY <1>1, <1>3, <1>6, <1>7, <1>8, <2>1 DEF TypeOK, Applicable
<1> QED BY <1>2, <1>3, <1>4, <1>9 DEF TextInv

-----------------------------------------------------------------------------
(* The invariant, and what follows from it *)

IInv == TypeOK /\ LinesInv /\ TextInv /\ DrainInv

LEMMA InitInv == Init => IInv
<1> SUFFICES ASSUME Init PROVE IInv
  OBVIOUS
<1>1. <<>> \in Seq(Cells) /\ <<>> \in Seq(Chars) /\ <<>> \in Seq(Applicable)
  OBVIOUS
<1>2. \A f \in Files : file[f] = <<>> /\ partial[f] = <<>> /\ offset[f] = 0 /\ cuts[f] = {} /\ atExit[f] = 0
  BY DEF Init
<1>3. TypeOK
  BY <1>1 DEF Init, TypeOK, Applicable, Files, Procs
<1>4. LinesInv
  <2>1. /\ \A p \in Procs : path[p] = Unresolved
        /\ \A t \in Threads : emitted[t] = 0 /\ writing[t] = <<>>
    BY DEF Init
  <2>2. WriterInv
    BY <2>1 DEF WriterInv, Writes
  <2>3. FileInv /\ OrderInv
    BY <1>2 DEF FileInv, OrderInv
  <2>4. AppendInv
    BY <2>1 DEF AppendInv, Writes
  <2> QED BY <2>2, <2>3, <2>4 DEF LinesInv
<1>5. TextInv
  <2>1. PartialInv
    BY <1>2 DEF PartialInv, Base
  <2>2. CutInv
    BY <1>2 DEF CutInv
  <2>3. applied = <<>>
    BY DEF Init
  <2>4. AppliedInv /\ DamageIsACut /\ InOrderOnce
    BY <2>3 DEF AppliedInv, DamageIsACut, InOrderOnce
  <2>5. \A f \in Files : AppliedFrom(f) = {} /\ Complete(f) = {}
    BY <1>2, <2>3 DEF AppliedFrom, Complete
  <2>6. ChunksDoNotMatter
    BY <2>5 DEF ChunksDoNotMatter
  <2> QED BY <2>1, <2>2, <2>4, <2>6 DEF TextInv
<1>6. DrainInv
  BY <1>2 DEF DrainInv, Init
<1> QED BY <1>3, <1>4, <1>5, <1>6 DEF IInv

(* What the writers do *)
Moves ==
  \/ \E t \in Threads : Emit(t) \/ Write(t) \/ WriteFails(t)
  \/ \E p \in Procs : Stops(p)
  \/ \E w \in Workers : StartWorker(w)

(* A writer's step: the files grow, the reader has not moved. *)
LEMMA WriterStep ==
  ASSUME IInv, Moves
  PROVE  IInv'
<1> USE DEF IInv
<1>1. TypeOK' /\ LinesInv'
  BY EmitLines, WriteLines, DropLines, StartLines DEF Moves
<1>2. /\ UNCHANGED reader
      /\ UNCHANGED atExit \/ (atExit' = [f \in Files |-> Len(file[f])] /\ Stops(Leader))
  BY DEF Moves, Emit, Emits, Write, WriteFails, Stops, StartWorker
<1>3. UNCHANGED <<texts, watching, todo, unread, offset>>
  BY <1>2 DEF reader, texts
<1>4. Grown
  <2>1. CASE \E t \in Threads : Write(t)
    BY <2>1, WriteLines DEF Grown
  <2>2. CASE ~\E t \in Threads : Write(t)
    <3>1. file' = file
      BY <2>2 DEF Moves, Emit, Emits, WriteFails, Stops, StartWorker
    <3>2. \A f \in Files : Len(file[f]) \in Nat
      BY ReaderTypes
    <3> QED BY <3>1, <3>2 DEF Grown
  <2> QED BY <2>1, <2>2
<1>5. TextInv'
  BY <1>1, <1>3, <1>4, TextKept
<1>6. \A f \in Files : atExit'[f] <= Len(file'[f])
  <2>1. ASSUME NEW f \in Files PROVE atExit'[f] <= Len(file'[f])
    <3>1. atExit[f] \in Nat /\ Len(file[f]) \in Nat /\ Len(file'[f]) \in Nat
      <4>1. atExit[f] \in Nat /\ Len(file[f]) \in Nat
        BY ReaderTypes DEF TypeOK
      <4>2. file'[f] \in Seq(Cells)
        BY <1>1 DEF TypeOK
      <4> QED BY <4>1, <4>2
    <3>2. Len(file[f]) <= Len(file'[f]) /\ atExit[f] <= Len(file[f])
      BY <1>4 DEF Grown, DrainInv
    <3>3. atExit'[f] = atExit[f] \/ atExit'[f] = Len(file[f])
      BY <1>2
    <3> QED BY <3>1, <3>2, <3>3
  <2> QED BY <2>1
<1>7. /\ status[Leader] = "dead" => status'[Leader] = "dead" /\ UNCHANGED atExit
  <2>1. Leader \in Procs /\ status \in [Procs -> {"unborn", "running", "dead"}]
    BY DEF Procs, TypeOK
  <2>2. CASE \E w \in Workers : StartWorker(w)
    BY <2>1, <2>2 DEF StartWorker
  <2>3. CASE \E p \in Procs : Stops(p)
    BY <2>1, <2>3 DEF Stops
  <2>4. CASE \E t \in Threads : Emit(t) \/ Write(t) \/ WriteFails(t)
    BY <2>4 DEF Emit, Emits, Write, WriteFails
  <2> QED BY <2>2, <2>3, <2>4 DEF Moves
<1>8. DrainInv'
  BY <1>3, <1>6, <1>7 DEF DrainInv
<1> QED BY <1>1, <1>5, <1>8

(* A step of the reader, or of the runner *)
LEMMA ReaderStep ==
  ASSUME IInv, (\E f \in Files : Poll(f) \/ Drain(f)) \/ LeaderReaped
  PROVE  IInv'
<1> USE DEF IInv
<1>1. ASSUME UNCHANGED <<writers, texts, atExit>>, watching' \in {"polling", "draining", "over"},
             todo' \in SUBSET Files, unread' \in SUBSET Files
      PROVE  TypeOK' /\ LinesInv' /\ TextInv'
  <2>1. UNCHANGED <<method, status, path, emitted, writing, file, offset, partial, applied, cuts>>
    BY <1>1 DEF writers, texts
  <2>2. TypeOK'
    BY <1>1, <2>1 DEF TypeOK
  <2>3. LinesInv'
    BY <2>1 DEF LinesInv, WriterInv, FileInv, OrderInv, AppendInv, Writes, Current, Home
  <2>4. Grown
    BY <2>1, ReaderTypes DEF Grown
  <2> QED BY <1>1, <2>2, <2>3, <2>4, TextKept
<1>2. ASSUME NEW f \in Files, Poll(f) PROVE IInv'
  <2>1. /\ watching' = watching /\ todo' = todo /\ unread' = unread /\ atExit' = atExit /\ status' = status /\ file' = file
        /\ watching = "polling" /\ ReadFile(f) /\ UNCHANGED <<writers, atExit>> /\ offset[f] < Len(file[f])
    <3>1. offset[f] \in Nat /\ Len(file[f]) \in Nat
      BY ReaderTypes
    <3> QED BY <1>2, <3>1 DEF Poll, writers
  <2>2. TypeOK' /\ LinesInv' /\ TextInv'
    BY <2>1, ReadText DEF TypeOK
  <2>3. DrainInv'
    BY <2>1 DEF DrainInv
  <2> QED BY <2>2, <2>3
<1>3. ASSUME NEW f \in Files, Drain(f) PROVE IInv'
  <2>1. /\ watching = "draining" /\ f \in todo /\ todo' = todo \ {f} /\ UNCHANGED <<writers, atExit>>
        /\ watching' = (IF todo' = {} THEN "over" ELSE watching)
        /\ status' = status /\ file' = file
    BY <1>3 DEF Drain, writers
  <2>2. watching' \in {"draining", "over"} /\ todo' \in SUBSET Files /\ (watching' = "over" => todo' = {})
    BY <2>1 DEF TypeOK
  <2>3. /\ offset[f] \in Nat /\ Len(file[f]) \in Nat /\ offset[f] <= Len(file[f])
        /\ atExit[f] \in Nat /\ atExit[f] <= Len(file[f]) /\ unread \in SUBSET Files
    BY ReaderTypes DEF TypeOK, DrainInv
  <2>4. CASE ReadFile(f) /\ UNCHANGED unread /\ offset[f] < Len(file[f])
    <3>1. TypeOK' /\ LinesInv' /\ TextInv'
      BY <2>1, <2>2, <2>3, <2>4, ReadText
    <3>2. offset'[f] >= atExit'[f] /\ \A g \in Files \ {f} : offset'[g] = offset[g]
      <4>1. offset' = [offset EXCEPT ![f] = Len(file[f])]
        BY <2>4 DEF ReadFile
      <4> QED BY <2>1, <2>3, <4>1 DEF TypeOK
    <3>3. DrainInv'
      BY <2>1, <2>2, <2>4, <3>2 DEF DrainInv
    <3> QED BY <3>1, <3>3
  <2>5. CASE UNCHANGED <<texts, unread>> /\ ~(offset[f] < Len(file[f]))
    <3>1. TypeOK' /\ LinesInv' /\ TextInv'
      BY <1>1, <2>1, <2>2, <2>3, <2>5
    <3>2. offset'[f] >= atExit'[f] /\ offset' = offset
      BY <2>1, <2>3, <2>5 DEF texts
    <3>3. DrainInv'
      BY <2>1, <2>2, <2>5, <3>2 DEF DrainInv
    <3> QED BY <3>1, <3>3
  <2>6. CASE UNCHANGED texts /\ unread' = unread \cup {f}
    <3>1. TypeOK' /\ LinesInv' /\ TextInv'
      BY <1>1, <2>1, <2>2, <2>3, <2>6
    <3>2. offset' = offset
      BY <2>6 DEF texts
    <3>3. DrainInv'
      BY <2>1, <2>2, <2>6, <3>2 DEF DrainInv
    <3> QED BY <3>1, <3>3
  <2> QED BY <1>3, <2>3, <2>4, <2>5, <2>6 DEF Drain
<1>4. ASSUME LeaderReaped PROVE IInv'
  <2>1. /\ watching' = "draining" /\ todo' = Files /\ UNCHANGED <<writers, texts, atExit, unread>>
        /\ status[Leader] = "dead" /\ status' = status /\ file' = file
    BY <1>4 DEF LeaderReaped, writers
  <2>2. TypeOK' /\ LinesInv' /\ TextInv'
    BY <1>1, <2>1 DEF TypeOK
  <2>3. DrainInv'
    BY <2>1 DEF DrainInv
  <2> QED BY <2>2, <2>3
<1> QED BY <1>2, <1>3, <1>4

LEMMA StutterStep == IInv /\ UNCHANGED vars => IInv'
<1> SUFFICES ASSUME IInv, UNCHANGED vars PROVE IInv'
  OBVIOUS
<1> USE DEF IInv
<1>1. /\ UNCHANGED <<method, status, path, emitted, writing, file, offset, partial, applied, cuts>>
      /\ UNCHANGED <<texts, atExit, watching, todo, unread>>
  BY DEF vars, writers, reader, texts
<1>2. TypeOK'
  BY <1>1 DEF TypeOK
<1>3. LinesInv'
  BY <1>1 DEF LinesInv, WriterInv, FileInv, OrderInv, AppendInv, Writes, Current, Home
<1>4. Grown
  BY <1>1, ReaderTypes DEF Grown
<1>5. TextInv'
  BY <1>1, <1>2, <1>4, TextKept
<1>6. DrainInv'
  BY <1>1 DEF DrainInv
<1> QED BY <1>2, <1>3, <1>5, <1>6

LEMMA Inductive == Spec => []IInv
<1>1. IInv /\ [Next]_vars => IInv'
  <2> SUFFICES ASSUME IInv, Next PROVE IInv'
    BY StutterStep
  <2>1. CASE Moves
    BY <2>1, WriterStep
  <2>2. CASE (\E f \in Files : Poll(f) \/ Drain(f)) \/ LeaderReaped
    BY <2>2, ReaderStep
  <2>3. Workers \subseteq Procs
    BY DEF Procs
  <2> QED BY <2>1, <2>2, <2>3 DEF Next, Moves, Dies, Expires
<1> QED BY InitInv, <1>1, PTL DEF Spec

(* Every variable keeps its type, and no file is read past its end. *)
THEOREM TypeCorrect == Spec => []TypeOK
<1>1. IInv => TypeOK
  BY DEF IInv
<1> QED BY <1>1, Inductive, PTL

(***************************************************************************)
(* _read_file() with _partial: however the polls cut up the files, and     *)
(* whatever is cut short in them, apply() sees the whole lines that were   *)
(* read, once each and in their order.                                     *)
(***************************************************************************)
THEOREM ChunksNeverMatter == Spec => []ChunksDoNotMatter
<1>1. IInv => ChunksDoNotMatter
  BY DEF IInv, TextInv
<1> QED BY <1>1, Inductive, PTL

(***************************************************************************)
(* decode("utf-8", "replace") of each chunk on its own: an event's text is *)
(* damaged if and only if a poll ended inside a character of it.           *)
(***************************************************************************)
THEOREM DamageAlwaysACut == Spec => []DamageIsACut
<1>1. IInv => DamageIsACut
  BY DEF IInv, TextInv
<1> QED BY <1>1, Inductive, PTL

(***************************************************************************)
(* What a thread emits reaches apply() in the order it emitted it and not  *)
(* twice, although the two threads of a worker, and with fork all          *)
(* processes, append to one file, and the polls come in between.           *)
(***************************************************************************)
THEOREM AlwaysInOrderOnce == Spec => []InOrderOnce
<1>1. IInv => InOrderOnce
  BY DEF IInv, TextInv
<1> QED BY <1>1, Inductive, PTL

(***************************************************************************)
(* The poll after proc.wait(): the runner finishes a job only when all     *)
(* that was in the files at the leader's exit has been read, except in the *)
(* files that this poll had to pass over.                                  *)
(***************************************************************************)
THEOREM DrainAlwaysCovers == Spec => []DrainCovers
<1>1. IInv => DrainCovers
  BY DEF IInv, DrainInv, DrainCovers
<1> QED BY <1>1, Inductive, PTL
=============================================================================
